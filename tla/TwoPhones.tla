------------------------------ MODULE TwoPhones ------------------------------
(***************************************************************************)
(* Two x-sip phones that call each other.  The environment of SipStack,    *)
(* peers that may send whatever a peer could send, is replaced by the      *)
(* stack process of the other phone: every message is one the other phone  *)
(* built.  The proxy both talk through forwards messages as they are; it   *)
(* and the network lose, delay, repeat and reorder them.                   *)
(*                                                                         *)
(* The clients ring and accept calls that wait, and call out.  A phone     *)
(* that ends a call sends a BYE built from nothing, which belongs to no    *)
(* call of the other phone (see DialogTerminate); only tests end calls,    *)
(* and no phone cancels one, so no call ends here.                         *)
(***************************************************************************)
EXTENDS StackHandlers, FiniteSets

CONSTANTS MaxUas,           \* bound: user agents made by each phone
          MaxTransactions   \* bound: transactions made by each phone

ASSUME PhonesAssumption == {MaxUas, MaxTransactions} \subseteq Nat /\ Accounts = 0

\* The empty tag is no tag that a phone makes.
ASSUME NilAssumption == {Nil} \cap Nat = {}

VARIABLES
    phone,      \* the stack process of each phone
    net,        \* the messages sent to each phone
    life        \* the last event told about each user agent of each phone

vars == <<phone, net, life>>

Phones == {1, 2}
Other(x) == 3 - x

-----------------------------------------------------------------------------
(* Messages on the network.  A phone numbers the Call-IDs, tags and branches *)
(* it makes by its transactions; what the other phone made is offset.        *)

\* The tag of a response other than a 200 is fresh and never looked at again.
UnkeptTag == 2 * MaxTransactions + 1

\* A name as the other phone has it.
Swap(name) ==
    IF name \in {Nil, UnkeptTag} THEN name
    ELSE IF name > MaxTransactions THEN name - MaxTransactions
                                   ELSE name + MaxTransactions

SwapBranch(branch) ==
    <<IF branch[1] = "here" THEN "there" ELSE "here", branch[2]>>

SwapNames(m) == [m EXCEPT !.branch = SwapBranch(@), !.call = Swap(@),
                          !.from = Swap(@), !.to = Swap(@)]

\* A message as the other phone receives it: what it is, and its names.
Message(kind, m) == [kind |-> kind, m |-> SwapNames(m)]

\* FAULT: the ACK is that of the INVITE, which has no To tag.
AckOfInvite(s, t) ==
    LET invite == s.transaction[t].request
    IN  Request("ACK", <<"here", 0>>, invite.call, invite.from, invite.to)

\* BuildAckMessage and the To tag that DialogAck adds.  The branch is fresh: no
\* transaction has it.
Ack(s, t) ==
    LET invite == s.transaction[t].request
    IN  Request("ACK", <<"here", 0>>, invite.call, invite.from,
                s.dialog[s.transaction[t].user].id.remote)

\* BuildResponse: the branch, method, Call-ID and tags of the request, and a To
\* tag of its own.
ResponseOf(s, t, event) ==
    [s.transaction[t].request EXCEPT
        !.to = IF event = "SEND_OK" THEN ToTagOfOk(s, t) ELSE UnkeptTag]

StatusClass(event) ==
    CASE event \in {"SEND_TRYING", "SEND_RINGING"} -> "1XX"
      [] event = "SEND_OK" -> "2XX"

\* What a stack process has sent in a turn.
Sent(s) ==
    {IF w[2] = "request" THEN Message("request", s.transaction[w[1]].request)
     ELSE IF w[2] = "ACK" THEN Message("request", Ack(s, w[1]))
     ELSE Message(StatusClass(w[2]), ResponseOf(s, w[1], w[2])) : w \in s.wire}

-----------------------------------------------------------------------------
\* The user agents of a phone whose call was accepted there, by their INVITE.
Accepted(s) == {t \in DOMAIN s.transaction : <<t, "SEND_OK">> \in s.answers}

\* A call that came in and was not accepted yet.
Waits(x, u) ==
    /\ life[x][u] = "CALL_INCOMING"
    /\ \A t \in Accepted(phone[x]) : phone[x].transaction[t].user # u

\* A handler of phone x has returned a stack.
Becomes(x, returned) == \E s \in {returned} :
    /\ phone[x].fault = "none"
    /\ Len(s.account) <= MaxUas /\ Len(s.transaction) <= MaxTransactions
    /\ phone' = [phone EXCEPT ![x] = IF s.fault = "none" THEN NewTurn(s)
                                     ELSE [@ EXCEPT !.fault = s.fault]]
    /\ net' = IF s.fault = "none"
              THEN [net EXCEPT ![Other(x)] = @ \cup Sent(s)] ELSE net
    /\ life' = IF s.fault # "none" \/ s.told = NoEvent THEN life
               ELSE [life EXCEPT ![x][s.told.ua] = s.told.event]

Turn(x) == NewTurn(phone[x])

\* A message arrives, perhaps not for the first time.
Receive(x, d) ==
    Becomes(x, IF d.kind = "request" THEN TmHandleRequestMessage(Turn(x), d.m)
               ELSE TmHandleReponseMessage(Turn(x), d.kind, d.m))

ClientCallsOut(x) == Becomes(x, CallOut(Turn(x)))

\* The client names the call by its position in the list.
ClientRings(x, u)   == Waits(x, u) /\ Becomes(x, Ringing(Turn(x), GetUaPosition(phone[x], u)))
ClientAccepts(x, u) == Waits(x, u) /\ Becomes(x, AcceptCall(Turn(x), GetUaPosition(phone[x], u)))

Init ==
    /\ phone = [x \in Phones |-> EmptyStack]
    /\ net = [x \in Phones |-> {}]
    /\ life = [x \in Phones |-> [u \in 1 .. MaxUas |-> "none"]]

Next == \E x \in Phones :
    \/ \E d \in net[x] : Receive(x, d)
    \/ ClientCallsOut(x)
    \/ \E u \in 1 .. MaxUas : ClientRings(x, u) \/ ClientAccepts(x, u)

\* The 200s that a call out of phone x still waits for.
OwedOks(x) == {d \in net[x] : d.kind = "2XX" /\ MatchResponse(phone[x], d.m) # Null}

\* Weak fairness of receiving one of them: a 200 gets through some time.  (What
\* enables it is written out, since TLC is slow to find that out by itself.)
OksGetThrough(x) ==
    \/ []<>(OwedOks(x) = {} \/ phone[x].fault # "none")
    \/ []<><<\E d \in OwedOks(x) : Receive(x, d)>>_vars

Spec == Init /\ [][Next]_vars /\ \A x \in Phones : OksGetThrough(x)

-----------------------------------------------------------------------------
(* Properties *)

Names == 1 .. 2 * MaxTransactions

\* Every name on the network was made by one of the phones, and a phone is what
\* a stack process is.
TypeOK ==
    /\ \A x \in Phones :
         /\ phone[x].fault \in {"none"} \cup Deaths
         /\ \A d \in DOMAIN phone[x].dialog :
              /\ phone[x].dialog[d].id.call \in Names
              /\ {phone[x].dialog[d].id.local, phone[x].dialog[d].id.remote}
                    \subseteq Names \cup {Nil}
         /\ \A d \in net[x] :
              /\ d.kind \in {"request", "1XX", "2XX"}
              /\ {d.m.call, d.m.from} \subseteq Names
              /\ d.m.to \in Names \cup {Nil, UnkeptTag}
    /\ life \in [Phones -> [1 .. MaxUas ->
                 {"none", "CALL_INCOMING", "CALL_REMOTE_RINGING", "CALL_ESTABLISHED"}]]

\* Nothing one phone sends kills the other, whatever is lost, repeated or comes
\* out of order, and also when both call at the same time: the states that
\* assert, dangle or read past a table are not reached by what this program
\* sends as long as no call is cancelled, ended or registered (Transaction.c:791,
\* Dialog.c:71).
NobodyDies == \A x \in Phones : phone[x].fault = "none"

\* The id of a dialog as the other side of the call has it.
Mirror(id) == [call |-> Swap(id.call), local |-> Swap(id.remote),
               remote |-> Swap(id.local)]

\* An established call has its two ends: exactly one dialog of the other phone
\* has the mirrored id, and it was accepted there.  Copies of the INVITE that
\* come after the call was accepted make new calls there, which may be accepted
\* too, each with a tag of its own (Dialog.c:170-179, :298-311, :217).
Mirrored ==
    \A x \in Phones : \A d \in DOMAIN phone[x].dialog :
        life[x][d] = "CALL_ESTABLISHED" =>
            LET s == phone[Other(x)] IN
            \E t \in Accepted(s) :
                LET e == s.transaction[t].user IN
                /\ s.dialog[e].state = "CONFIRMED"
                /\ \A f \in DOMAIN s.dialog :
                     f = e <=> s.dialog[f].id = Mirror(phone[x].dialog[d].id)

\* An ACK belongs to the dialog whose 200 it acknowledges, and not to the dialog
\* of another copy of the same INVITE: it has the tag of the 200, which no other
\* message to the caller had (Dialog.c:157-167, MessageBuilder.c:188-206).
AcksFindTheirDialog ==
    \A x \in Phones : \A d \in net[x] :
        d.m.method = "ACK" =>
            \E t \in Accepted(phone[x]) :
                phone[x].transaction[t].user = MatchMessage2Dialog(phone[x], d.m)

\* The call that transaction t of phone x accepted is established at the caller.
EstablishedAtCaller(x, t) ==
    LET caller == phone[Other(x)]
        call   == Swap(phone[x].transaction[t].request.call)
    IN  life[Other(x)][caller.transaction[call].user] = "CALL_ESTABLISHED"

\* When a call is accepted its caller is told so, if only one of the 200s gets
\* through: with copies, ringing and a call the other way in between
\* (Transaction.c:478-541, Dialog.c:170).
AcceptedIsEstablished ==
    \A x \in Phones : \A t \in 1 .. MaxTransactions :
        t \in Accepted(phone[x])
            ~> t \in Accepted(phone[x]) /\ EstablishedAtCaller(x, t)
=============================================================================
