------------------------------ MODULE Softphone ------------------------------
(***************************************************************************)
(* The two processes of the phone: the stack process of SipStack and the   *)
(* GUI process of gui/gui.c, with the datagrams between them.              *)
(*                                                                         *)
(* NotifyCm sends an event to the port of the GUI.  sock_callback reads it *)
(* into CurrEvent and, when a call comes in, sends RINGING back by itself; *)
(* the Make Call button sends MAKE_CALL.  (send_accept is wired to no      *)
(* widget.)  A datagram, once sent, may arrive at any later moment, any    *)
(* number of times and in any order, so that what it says of the stack     *)
(* process may be out of date: it names a call by a position in a list     *)
(* that changes meanwhile.  A lost datagram is one that never arrives.     *)
(***************************************************************************)
EXTENDS SipStack

VARIABLES
    CurrEvent,  \* the last event the GUI parsed
    toGui,      \* the events sent to the GUI
    toStack,    \* the commands sent to the stack process
    shown,      \* history: the user agents whose CALL_INCOMING the GUI has read
    rung        \* history: the ones whose RINGING the stack process has read

phoneVars == <<stack, life, heard, finals, CurrEvent, toGui, toStack, shown, rung>>

\* How many user agents were removed so far.
Removed == Len(stack.account) - Len(stack.uas)

\* A datagram has an event or command and a position.  The rest is history: the
\* user agent it is about, and how many had been removed when it was told of.
Datagram(event, position, ua, removed) ==
    [event |-> event, position |-> position, ua |-> ua, removed |-> removed]

\* Zero-initialised: CALL_INCOMING is the event 0.
InitialEvent == Datagram("CALL_INCOMING", 0, Null, 0)

\* The datagram, if any, that NotifyCm sends in a step of the stack process.
Told ==
    IF stack'.fault # "none" \/ stack'.told = NoEvent THEN {}
    ELSE {Datagram(stack'.told.event, stack'.told.position, stack'.told.ua, Removed)}

-----------------------------------------------------------------------------
(* The stack process *)

\* A SIP datagram.
StackReceives ==
    /\ \/ \E m \in PeerRequests : ReceiveRequest(m)
       \/ \E t \in Sent, code \in ResponseEvents :
             \E granted \in Grants(t, code) : ReceiveResponse(t, code, granted)
    /\ toGui' = toGui \cup Told
    /\ UNCHANGED <<CurrEvent, toStack, shown, rung>>

\* HandleClientMessage for the commands the GUI sends.
StackHandles(c) ==
    /\ \/ c.event = "RINGING" /\ ClientRings(c.position)
       \/ c.event = "MAKE_CALL" /\ ClientCallsOut
    /\ toGui' = toGui \cup Told
    /\ rung' = rung \cup (IF c.event = "RINGING" THEN {c.ua} ELSE {})
    /\ UNCHANGED <<CurrEvent, toStack, shown>>

-----------------------------------------------------------------------------
(* The GUI process *)

\* FAULT: the event is looked at before the new one is parsed.
SockCallbackLooksFirst(d) ==
    /\ CurrEvent' = d
    /\ toStack' = IF CurrEvent.event = "CALL_INCOMING"
                  THEN toStack \cup {[CurrEvent EXCEPT !.event = "RINGING"]}
                  ELSE toStack

\* FAULT: every event rings.
SockCallbackAlwaysRings(d) ==
    /\ CurrEvent' = d
    /\ toStack' = toStack \cup {[d EXCEPT !.event = "RINGING"]}

\* sock_callback: a line is parsed into CurrEvent, and an incoming call rings.
SockCallback(d) ==
    /\ CurrEvent' = d
    /\ toStack' = IF CurrEvent'.event = "CALL_INCOMING"
                  THEN toStack \cup {[CurrEvent' EXCEPT !.event = "RINGING"]}
                  ELSE toStack

GuiReceives(d) ==
    /\ Alive
    /\ SockCallback(d)
    /\ shown' = shown \cup (IF d.event = "CALL_INCOMING" THEN {d.ua} ELSE {})
    /\ UNCHANGED <<vars, toGui, rung>>

\* send_callout, of the Make Call button.  HandleClientMessage looks up the
\* position that goes with it and makes no use of what it finds.
GuiCallsOut ==
    /\ Alive
    /\ toStack' = toStack \cup {Datagram("MAKE_CALL", 0, Null, 0)}
    /\ UNCHANGED <<vars, CurrEvent, toGui, shown, rung>>

-----------------------------------------------------------------------------
PhoneInit ==
    /\ Init
    /\ CurrEvent = InitialEvent /\ toGui = {} /\ toStack = {}
    /\ shown = {} /\ rung = {}

PhoneNext ==
    \/ StackReceives
    \/ \E c \in toStack : StackHandles(c)
    \/ \E d \in toGui : GuiReceives(d)
    \/ GuiCallsOut

\* Both loops serve what is delivered (SelectLoop), and the datagrams about an
\* incoming call are delivered, once.
PhoneSpec ==
    /\ PhoneInit /\ [][PhoneNext]_phoneVars
    /\ \A u \in 1 .. MaxUas :
        /\ WF_phoneVars(\E d \in toGui :
               d.ua = u /\ d.event = "CALL_INCOMING" /\ u \notin shown /\ GuiReceives(d))
        /\ WF_phoneVars(\E c \in toStack :
               c.ua = u /\ c.event = "RINGING" /\ u \notin rung /\ StackHandles(c))

-----------------------------------------------------------------------------
(* Properties *)

Positions == 0 .. MaxUas - 1

\* What is on its way names a position and a user agent that exist or existed.
PhoneTypeOK ==
    /\ \A d \in toGui \cup toStack \cup {CurrEvent} :
         d.position \in Positions /\ d.ua \in 0 .. MaxUas /\ d.removed \in 0 .. MaxUas
    /\ \A d \in toGui : d.event \in Life!Events
    /\ \A c \in toStack : c.event \in {"RINGING", "MAKE_CALL"}
    /\ shown \cup rung \subseteq 0 .. MaxUas

\* SipStack's client is this GUI: it only rings positions it was told of with
\* CALL_INCOMING, although CurrEvent changes with every event and datagrams come
\* late, twice or out of order (gui.c:122-133, CallManager.c:51-70).
ImplementsSipStack == Spec

\* A RINGING that arrives late rings the call it was sent for, on the INVITE and
\* without killing the process, unless a user agent was removed since the event
\* was told or the peer has taken the call back, by a CANCEL of the INVITE or, of
\* a merged one, on a branch of its own: before a removal positions do not move,
\* whatever else comes and goes (CallManager.c:57, UserAgentManager.c).
RingsItsCall ==
    [][\A c \in toStack :
        /\ c.event = "RINGING" /\ c.removed = Removed
        /\ life[c.ua] = "CALL_INCOMING"
        /\ stack.dialog[c.ua].state = "NON_EXIST"
        /\ StackHandles(c)
        => \E t \in Made("INVITE") :
             /\ stack.transaction[t].user = c.ua
             /\ stack'.wire = {<<t, "SEND_RINGING">>}]_phoneVars

\* The caller hears it ring: a call that came in is answered 180, unless the peer
\* takes it back, another call ends, or the process dies
\* (gui.c:130).
Rung(u) == \E t \in Made("INVITE") :
    stack.transaction[t].user = u /\ stack.transaction[t].latest = "SEND_RINGING"

CallsRing ==
    \A u \in 1 .. MaxUas :
        life[u] = "CALL_INCOMING"
            ~> \/ Rung(u)
               \/ life[u] # "CALL_INCOMING"
               \/ Removed > 0 \/ ~Alive
=============================================================================
