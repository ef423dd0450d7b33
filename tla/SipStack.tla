------------------------------ MODULE SipStack ------------------------------
(***************************************************************************)
(* The stack process of src/sip as it is built, with its peers and its     *)
(* client: the handlers of StackHandlers, run one at a time.               *)
(*                                                                         *)
(* One turn of the select loop of Init.c handles one datagram, of a peer   *)
(* or of the client, to the end: every action below is one such handler.   *)
(* The peers may send any request they have a reason for at any moment,    *)
(* any number of times and in any order, which is what a network that      *)
(* delays, loses, duplicates and reorders makes of a well-behaved peer.    *)
(* A client transaction gets as many provisional responses as the peer     *)
(* likes and copies of one final response.  The client commands any call   *)
(* whose position it was told, at any later moment.                        *)
(*                                                                         *)
(* A handler in which the process dies is recorded as the death alone.     *)
(***************************************************************************)
EXTENDS StackHandlers, FiniteSets

CONSTANTS Calls,            \* the calls the peers make
          Branches,         \* the branches on which an INVITE may arrive
          PeerTag,          \* the To tag with which a peer accepts our calls
          WholeApi,         \* whether EndCall and AccountRemoveBinding, which only
                            \* tests call, are used
          MaxUas,           \* bound: user agents made
          MaxTransactions   \* bound: transactions made

\* The accounts are bound at the start, within the bounds.
ASSUME CountsAssumption ==
    /\ {Accounts, MaxUas, MaxTransactions} \subseteq Nat
    /\ Accounts <= MaxUas /\ Accounts <= MaxTransactions

\* The Call-IDs and tags of the peers are none of those the process makes, which
\* are the numbers of its transactions: random texts on both sides.
ASSUME NamesAssumption ==
    /\ Calls \cap ({"here", "bye", Nil, PeerTag} \cup Nat) = {}
    /\ {Nil, PeerTag} \cap Nat = {}
    /\ Nil # PeerTag
ASSUME ApiAssumption == WholeApi \in BOOLEAN

VARIABLES
    stack,      \* the process: its objects, its lists and its last messages
    life,       \* the last event the client was told of, by user agent
    heard,      \* the positions the client was told of with CALL_INCOMING
    finals      \* the final response each of our requests was given

vars == <<stack, life, heard, finals>>

-----------------------------------------------------------------------------
(* What the peers may send *)

Invite(p, b) == Request("INVITE", <<p, b>>, p, p, Nil)
Cancel(p, b) == Request("CANCEL", <<p, b>>, p, p, Nil)

\* The BYE of a call of the peer that transaction t has accepted.
ByeOfAccepted(t) ==
    LET invite == stack.transaction[t].request
    IN  Request("BYE", <<"bye", t>>, invite.call, invite.from, t)

\* The BYE of a call of ours that the peer has accepted.
ByeOfEstablished(t) == Request("BYE", <<"bye", t>>, t, PeerTag, t)

Made(method) == {t \in DOMAIN stack.transaction :
                    stack.transaction[t].request.method = method}

Accepted == {t \in Made("INVITE") : <<t, "SEND_OK">> \in stack.answers}

PeerRequests ==
    {Invite(p, b) : p \in Calls, b \in Branches}
      \cup {Cancel(p, b) : p \in Calls, b \in Branches}
      \cup {ByeOfAccepted(t) : t \in Accepted}
      \cup {ByeOfEstablished(t) : t \in {u \in Made("INVITE") : finals[u] = "2XX"}}

\* The requests of our own, each of which a peer may answer.
Sent == {t \in DOMAIN stack.transaction : stack.transaction[t].type \in ClientTypes}

-----------------------------------------------------------------------------
\* A handler has turned the stack into what it returned, or died.  (\E has TLC
\* compute the handler once.)
Becomes(returned) == \E s \in {returned} :
    /\ Len(s.account) <= MaxUas
    /\ Len(s.transaction) <= MaxTransactions
    /\ stack' = IF s.fault = "none" THEN s ELSE [stack EXCEPT !.fault = s.fault]
    /\ life' = IF stack'.told = NoEvent THEN life
               ELSE [life EXCEPT ![stack'.told.ua] = stack'.told.event]
    /\ heard' = IF stack'.told.event = "CALL_INCOMING"
                THEN heard \cup {stack'.told.position} ELSE heard

Turn == NewTurn(stack)

Alive == stack.fault = "none"

ReceiveRequest(m) ==
    /\ Alive
    /\ Becomes(TmHandleRequestMessage(Turn, m))
    /\ UNCHANGED finals

\* The Expires of the 200 to a REGISTER is the registrar's choice: none, the end
\* of the binding, or a time, whatever was asked.  (It cannot know that a removal
\* asks for 0, which is never written: Integer2String, Parser.c:211.)
Grants(t, code) ==
    IF stack.transaction[t].request.method = "REGISTER" /\ code = "2XX"
    THEN {Nil, 0, Lifetime} ELSE {Nil}

\* A final response is the one the peer has settled on.
ReceiveResponse(t, code, granted) ==
    LET m == [stack.transaction[t].request EXCEPT !.to = PeerTag,
                                                  !.expires = granted]
    IN  /\ Alive
        /\ code \in FinalEvents => finals[t] \in {"none", code}
        /\ Becomes(TmHandleReponseMessage(Turn, code, m))
        /\ finals' = IF code \in FinalEvents THEN [finals EXCEPT ![t] = code]
                                             ELSE finals

HandleClientMessage(s) == Alive /\ Becomes(s) /\ UNCHANGED finals

ClientAccepts(position) == HandleClientMessage(AcceptCall(Turn, position))
ClientRings(position)   == HandleClientMessage(Ringing(Turn, position))
ClientCallsOut          == HandleClientMessage(CallOut(Turn))
ApiEndsCall(known)      == WholeApi /\ HandleClientMessage(EndCall(Turn, known))
ApiRemovesBinding(account) ==
    WholeApi /\ HandleClientMessage(AccountRemoveBinding(Turn, account))

Init ==
    /\ stack = [BindAllAccounts EXCEPT !.wire = {}]
    /\ life = [u \in 1 .. MaxUas |-> "none"]
    /\ heard = {}
    /\ finals = [t \in 1 .. MaxTransactions |-> "none"]

Next ==
    \/ \E m \in PeerRequests : ReceiveRequest(m)
    \/ \E t \in Sent, code \in ResponseEvents :
          \E granted \in Grants(t, code) : ReceiveResponse(t, code, granted)
    \/ \E position \in heard : ClientAccepts(position) \/ ClientRings(position)
    \/ ClientCallsOut
    \/ \E known \in BOOLEAN : ApiEndsCall(known)
    \/ \E account \in 1 .. Accounts : ApiRemovesBinding(account)

Spec == Init /\ [][Next]_vars

-----------------------------------------------------------------------------
(* Properties *)

DialogStates == {"NON_EXIST", "CONFIRMED", "TERMINATED", "FREED"}

\* A list of numbers of objects that were made, each at most once.
Lists(list, made) ==
    \A i, j \in DOMAIN list :
        list[i] \in DOMAIN made /\ (list[i] = list[j] => i = j)

\* Every part of the process has its type, lists hold no number twice and only
\* numbers of objects that were made.
TypeOK ==
    /\ stack.fault \in {"none"} \cup Deaths
    /\ Len(stack.account) \in 0 .. MaxUas
    /\ Len(stack.dialog) = Len(stack.account)
    /\ \A d \in DOMAIN stack.dialog :
         /\ stack.dialog[d].state \in DialogStates
         /\ stack.dialog[d].transaction \in 0 .. MaxTransactions
         /\ stack.dialog[d].session \in BOOLEAN
    /\ \A t \in DOMAIN stack.transaction :
         /\ stack.transaction[t].type \in TransactionTypes
         /\ stack.transaction[t].state \in TransactionStates \ {"INIT"}
         /\ stack.transaction[t].user \in DOMAIN stack.dialog
         /\ stack.transaction[t].latest \in {"none"} \cup SendEvents
    /\ Lists(stack.uas, stack.account)
    /\ Lists(stack.dialogs, stack.dialog)
    /\ Lists(stack.transactions, stack.transaction)
    /\ finals \in [1 .. MaxTransactions -> {"none"} \cup FinalEvents]

\* An object is listed exactly as long as it can be used: no dialog outlives its
\* user agent, so that the position of its events can be told (DestroyUserAgent
\* frees the dialogs first, UserAgent.c:117), and no terminated transaction
\* stays listed, to be matched by a later message (Transaction.c:389).
ListsAgree ==
    /\ \A d \in DOMAIN stack.dialog :
         InList(stack.dialogs, d) => InList(stack.uas, d)
    /\ \A t \in DOMAIN stack.transaction :
         InList(stack.transactions, t) <=> stack.transaction[t].state # "TERMINATED"

\* No two dialogs share a Call-ID and both tags, however often and on however
\* many branches an INVITE arrives, so that the first match of GetDialogById is
\* the only one (Dialog.c:217, DialogManager.c:48).
OneDialogPerId ==
    \A d, e \in DOMAIN stack.dialog :
        /\ InList(stack.dialogs, d) /\ InList(stack.dialogs, e)
        /\ stack.dialog[d].id = stack.dialog[e].id
        /\ stack.dialog[d].id.call # Nil
        => d = e

\* The requests, by the method of the CSeq, that the final responses of a
\* transaction name.
Named(t) == {CSeqMethod(stack, t, answer[2]) :
                answer \in {a \in stack.answers : a[1] = t}}

\* A transaction of a peer decides once: the peer whose CANCEL crosses the
\* acceptance of its call is not told both a 200 to its INVITE and a 487 to its
\* CANCEL, whichever of ACCEPT_CALL, CANCEL and the copies of either comes first
\* (CallManager.c:41, TransactionManager.c:159).  Nothing is said of a final
\* response sent again, which is how a copy of a request should be answered, nor
\* of the 200 a CANCEL gets after its 487, from a transaction of its own.
OneDecision ==
    \A t \in DOMAIN stack.transaction : Cardinality(Named(t)) <= 1

\* As long as the dialog of an incoming call was not confirmed, by accepting the
\* call or by answering a CANCEL, its transaction is the INVITE's, alive and
\* expecting an answer, whatever copies and branches of the INVITE arrived and
\* whatever was rung: accepting it cannot go wrong (Dialog.c:303, :358).
UnansweredCallIsOpen ==
    \A d \in DOMAIN stack.dialog :
        LET t == TransactionOf(stack, d) IN
        /\ InList(stack.dialogs, d)
        /\ life[d] = "CALL_INCOMING"
        /\ stack.dialog[d].state = "NON_EXIST"
        => /\ InList(stack.transactions, t)
           /\ stack.transaction[t].user = d
           /\ stack.transaction[t].request.method = "INVITE"
           /\ stack.transaction[t].state = "PROCEEDING"

\* The dialog of a call that was accepted, by us or by the peer, is the one the
\* peer's BYE finds: the tags remembered are those of the 200, although every
\* response we build has a fresh tag (MessageBuilder.c:300, Dialog.c:170, :303).
ByeFindsItsCall ==
    /\ \A t \in Accepted :
         LET d == stack.transaction[t].user IN
         InList(stack.dialogs, d) =>
             MatchMessage2Dialog(stack, ByeOfAccepted(t)) = d
    /\ \A t \in Made("INVITE") \cap Sent :
         LET d == stack.transaction[t].user IN
         InList(stack.dialogs, d) /\ life[d] = "CALL_ESTABLISHED" =>
             MatchMessage2Dialog(stack, ByeOfEstablished(t)) = d

\* The client can tell which call an event is about: the position sent with it
\* is that of a listed user agent, never -1 (CallManager.c:113).
EventsNameACall == stack.told.position >= 0

\* The events of one user agent are the life of one call (CallLife).
Life == INSTANCE CallLife
          WITH UserAgents <- 1 .. MaxUas, life <- life,
               answered <- {stack.transaction[t].user : t \in Accepted}

KeepsLife == Life!LifeSpec

\* An account changes only when the registrar's first final answer to a REGISTER
\* made for that very account says so: to bound if the 200 grants a time, to
\* unbound if it grants 0, never if it says nothing.  The answers to all accounts
\* come in any order, with challenges in between (Dialog.c:188,
\* AccountManager.c:84-121).  What the REGISTER asked for plays no part: a
\* removal that is granted a time binds.
BindingsGranted ==
    [][\A a \in 1 .. Accounts : stack'.binded[a] # stack.binded[a] =>
         \E t \in Made("REGISTER"), granted \in {0, Lifetime} :
            /\ stack.account[stack.transaction[t].user] = a
            /\ finals[t] = "none"
            /\ ReceiveResponse(t, "2XX", granted)
            /\ stack'.binded[a] = (granted # 0)]_vars

\* A challenge is answered with one new REGISTER, once the challenged one is
\* over: a user agent never has two waiting for an answer (Dialog.c:198).
OneRegisterOutstanding ==
    \A t, u \in Made("REGISTER") :
        /\ stack.transaction[t].user = stack.transaction[u].user
        /\ {stack.transaction[t].state, stack.transaction[u].state}
              \subseteq {"TRYING", "PROCEEDING"}
        => t = u

\* assert(dialog != NULL) in GetDialogId (Dialog.c:71), for a client that
\* accepts a call it was told of and that nobody has accepted or taken back.
Waiting(u) == life[u] = "CALL_INCOMING"
                /\ \A t \in Accepted : stack.transaction[t].user # u

WaitingCallsCanBeAccepted ==
    [][\A position \in heard :
         /\ GetUa(stack, position) # Null
         /\ Waiting(GetUa(stack, position))
         /\ ClientAccepts(position)
         => stack'.fault # "NO_DIALOG"]_vars

\* A copy of a BYE that is being answered is answered again with the response
\* the first one got, as the transaction tests have it
\* (ServerNonInviteTransactionTest.cpp:265).
ByeCopiesAnswered ==
    [][\A m \in PeerRequests :
         /\ m.method = "BYE"
         /\ MatchRequest(stack, m) # Null
         /\ ReceiveRequest(m)
         => stack'.wire # {}]_vars
=============================================================================
