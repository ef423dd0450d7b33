-------------------------- MODULE TwoPhones_proofs --------------------------
(***************************************************************************)
(* Nothing one phone sends kills the other, and an established call has    *)
(* its two ends (TwoPhones).  The invariant says what a phone is between   *)
(* two turns (Well: every user agent is one call, out or in, and has one   *)
(* transaction), which phone sent every message on the network and in what *)
(* state of its calls (Explained), and that a caller has only the tags of  *)
(* calls that were accepted (Linked).  One lemma per operation says what   *)
(* it does to a phone that is well, and the two phones are put together at *)
(* the end.                                                                *)
(***************************************************************************)
EXTENDS TwoPhones, Induction_proofs

Numbers == 1 .. MaxTransactions

\* The tag that the other phone made for its transaction j.
Theirs(j) == j + MaxTransactions

\* The INVITE of call k, as the phone that calls and the phone that is called
\* have it.
OutInvite(k) == Request("INVITE", <<"here", k>>, k, k, Nil)
InInvite(k)  == Request("INVITE", <<"there", k>>, Theirs(k), Theirs(k), Nil)

\* A response to call k as the caller receives it, and the ACK of the call that
\* was accepted with tag j as the called phone receives it.
Reply(k, tag) == Request("INVITE", <<"here", k>>, k, k, tag)
InAck(k, j)   == Request("ACK", <<"there", 0>>, Theirs(k), Theirs(k), j)

-----------------------------------------------------------------------------
(* One phone *)

Tags == Nat \cup {Nil}
Requests == [method : {"INVITE", "ACK"}, branch : {"here", "there"} \X Nat,
             call : Tags, from : Tags, to : Tags, expires : {Nil}]
DialogIds == [call : Tags, local : Tags, remote : Tags]
DialogObjects == [id : DialogIds, state : {"NON_EXIST", "CONFIRMED"},
                  transaction : Nat, session : BOOLEAN]
TransactionObjects ==
    [type : TransactionTypes, state : TransactionStates, request : Requests,
     user : Nat, latest : {"none"} \cup SendEvents]
Notices == [event : {"none", "CALL_INCOMING", "CALL_REMOTE_RINGING",
                     "CALL_ESTABLISHED"}, ua : Nat, position : Int]
Sendings == {"none", "request", "ACK"} \cup SendEvents

Stacks ==
    [uas : Seq(Nat), account : Seq(Nat),
     dialogs : Seq(Nat), dialog : Seq(DialogObjects),
     transactions : Seq(Nat), transaction : Seq(TransactionObjects),
     binded : {[a \in 0 .. Accounts |-> FALSE]},
     wire : SUBSET (Nat \X Sendings), answers : SUBSET (Nat \X SendEvents),
     told : Notices, fault : {"none"}]

Calls(s) == 1 .. Len(s.transaction)
Took(s, t) == <<t, "SEND_OK">> \in s.answers

\* Call t went out: its dialog has the names of its INVITE, and a remote tag
\* when it is established.
Outgoing(s, t) ==
    /\ s.transaction[t].type = "CLIENT_INVITE"
    /\ s.transaction[t].request = OutInvite(t)
    /\ s.dialog[t].id.call = t /\ s.dialog[t].id.local = t
    /\ ~Took(s, t)
    /\ \/ s.transaction[t].state \in {"CALLING", "PROCEEDING"}
          /\ s.dialog[t].id.remote = Nil
       \/ s.transaction[t].state = "TERMINATED"
          /\ \E j \in Numbers : s.dialog[t].id.remote = Theirs(j)

\* Call t came in, as call k of the other phone: it is answered by responses
\* that are not final, or was accepted with its own number as the tag.
Incoming(s, t, k) ==
    /\ s.transaction[t].type = "SERVER_INVITE"
    /\ s.transaction[t].request = InInvite(k)
    /\ s.dialog[t].id.call = Theirs(k) /\ s.dialog[t].id.remote = Theirs(k)
    /\ \/ /\ s.transaction[t].state = "PROCEEDING"
          /\ s.transaction[t].latest \in {"SEND_TRYING", "SEND_RINGING"}
          /\ s.dialog[t].id.local = Nil /\ s.dialog[t].state = "NON_EXIST"
          /\ ~Took(s, t)
       \/ /\ s.transaction[t].state = "TERMINATED"
          /\ s.dialog[t].id.local = t /\ s.dialog[t].state = "CONFIRMED"
          /\ Took(s, t)

IsCall(s, t) == Outgoing(s, t) \/ \E k \in Numbers : Incoming(s, t, k)

\* No user agent is ever removed, so that the n-th is at position n of the list.
Lined(list, n) == Len(list) = n /\ \A i \in 1 .. n : list[i] = i

\* The objects a phone has made, and its lists of them: user agent, dialog and
\* transaction t are of one call.
Listed(s) ==
    /\ Len(s.account) = Len(s.transaction) /\ Len(s.dialog) = Len(s.transaction)
    /\ Lined(s.uas, Len(s.transaction)) /\ Lined(s.dialogs, Len(s.transaction))
    /\ NoTwice(s.transactions)
    /\ \A i \in DOMAIN s.transactions : s.transactions[i] \in Calls(s)
    /\ \A t \in Calls(s) :
         InList(s.transactions, t) <=> s.transaction[t].state # "TERMINATED"
    /\ \A t \in Calls(s) : s.transaction[t].user = t /\ s.dialog[t].transaction = t
    /\ \A a \in s.answers : a[1] \in Calls(s)

\* A phone between two turns.
Well(s) ==
    /\ s \in Stacks
    /\ Len(s.transaction) <= MaxTransactions
    /\ Listed(s)
    /\ \A t \in Calls(s) : IsCall(s, t)

-----------------------------------------------------------------------------
(* Both phones *)

\* Phone s has accepted call k of the other one with tag j.
Accepts(s, k, j) == j \in Calls(s) /\ s.transaction[j].request = InInvite(k) /\ Took(s, j)

\* Call k of phone s was established with the tag j.
Got(s, k, j) ==
    /\ k \in Calls(s) /\ s.transaction[k].type = "CLIENT_INVITE"
    /\ s.transaction[k].state = "TERMINATED"
    /\ s.dialog[k].id.remote = Theirs(j)

\* A message to phone s from phone p: an INVITE, the ACK of a call s accepted, a
\* response that is not final, or the 200 of a call p accepted.
Explained(s, p, d) ==
    \/ \E k \in Numbers : d = [kind |-> "request", m |-> InInvite(k)]
    \/ \E k, j \in Numbers :
         Accepts(s, k, j) /\ d = [kind |-> "request", m |-> InAck(k, j)]
    \/ \E k \in Numbers : d = [kind |-> "1XX", m |-> Reply(k, UnkeptTag)]
    \/ \E k, j \in Numbers :
         Accepts(p, k, j) /\ d = [kind |-> "2XX", m |-> Reply(k, Theirs(j))]

\* A tag that caller p has is that of a call which phone s accepted.
Linked(s, p) == \A k, j \in Numbers : Got(p, k, j) => Accepts(s, k, j)

LifeEvents == {"none", "CALL_INCOMING", "CALL_REMOTE_RINGING", "CALL_ESTABLISHED"}

\* What the client of a phone was told last of call u is true of it.
Told(s, event, u) ==
    /\ event = "CALL_INCOMING" =>
         u \in Calls(s) /\ s.transaction[u].type = "SERVER_INVITE"
    /\ event = "CALL_ESTABLISHED" =>
         /\ u \in Calls(s) /\ s.transaction[u].type = "CLIENT_INVITE"
         /\ s.transaction[u].state = "TERMINATED"

Inv ==
    /\ phone = [x \in Phones |-> phone[x]] /\ net = [x \in Phones |-> net[x]]
    /\ life \in [Phones -> [1 .. MaxUas -> LifeEvents]]
    /\ \A x \in Phones :
         /\ Well(phone[x]) /\ Len(phone[x].account) <= MaxUas
         /\ \A d \in net[x] : Explained(phone[x], phone[Other(x)], d)
         /\ Linked(phone[Other(x)], phone[x])
         /\ \A u \in 1 .. MaxUas : Told(phone[x], life[x][u], u)

-----------------------------------------------------------------------------
(* Lists *)

\* The transaction that is over is unlisted, and no other.
LEMMA Unlisted ==
    ASSUME NEW list \in Seq(Nat), NoTwice(list), NEW n
    PROVE  LET r == DelFromList(list, n) IN
           /\ r \in Seq(Nat) /\ NoTwice(r)
           /\ \A i \in DOMAIN r : \E j \in DOMAIN list : r[i] = list[j]
           /\ \A m : InList(r, m) <=> InList(list, m) /\ m # n
<1> DEFINE at == CHOOSE i \in DOMAIN list : list[i] = n
           r  == DelFromList(list, n)
<1>1. CASE ~InList(list, n)
  BY <1>1 DEF DelFromList, InList
<1>2. CASE InList(list, n)
  <2>1. at \in DOMAIN list /\ list[at] = n
    BY <1>2 DEF InList
  <2>2. r = Without(list, at)
    BY <1>2 DEF DelFromList, Without
  <2> HIDE DEF at, r
  <2>3. /\ r \in Seq(Nat)
        /\ \A j \in DOMAIN r : \E i \in DOMAIN list : r[j] = list[i]
        /\ \A i \in DOMAIN list : i # at => \E j \in DOMAIN r : r[j] = list[i]
        /\ NoTwice(r) /\ \A j \in DOMAIN r : r[j] # list[at]
    BY <2>1, <2>2, WithoutElement
  <2>4. \A m : InList(r, m) => InList(list, m) /\ m # n
    BY <2>1, <2>3 DEF InList
  <2>5. \A m : InList(list, m) /\ m # n => InList(r, m)
    BY <2>1, <2>3 DEF InList
  <2> QED BY <2>3, <2>4, <2>5 DEF r
<1> QED BY <1>1, <1>2

\* What is appended is at the end, behind what was there.
LEMMA Appended ==
    ASSUME NEW S, NEW list \in Seq(S), NEW v \in S
    PROVE  LET r == Append(list, v) IN
           /\ r \in Seq(S) /\ Len(r) = Len(list) + 1 /\ r[Len(list) + 1] = v
           /\ \A i \in 1 .. Len(list) : r[i] = list[i]
           /\ Len(list) \in Nat /\ DOMAIN list = 1 .. Len(list)
           /\ DOMAIN r = 1 .. Len(list) + 1
OBVIOUS

\* Replacing one element of a sequence.
LEMMA Replaced ==
    ASSUME NEW S, NEW list \in Seq(S), NEW t \in 1 .. Len(list), NEW v \in S
    PROVE  LET r == [list EXCEPT ![t] = v] IN
           /\ r \in Seq(S) /\ Len(r) = Len(list) /\ r[t] = v
           /\ \A i \in 1 .. Len(list) : i # t => r[i] = list[i]
OBVIOUS

\* The first element in a set is NULL when there is none, and else one of them.
LEMMA FirstFound ==
    ASSUME NEW list \in Seq(Nat), NEW S
    PROVE  LET n == FirstInList(list, S) IN
           /\ n # Null => InList(list, n) /\ n \in S
           /\ \A m \in S : InList(list, m) /\ Null \notin S => n # Null
<1> DEFINE found == {i \in DOMAIN list : list[i] \in S}
           first == CHOOSE i \in found : \A j \in found : i <= j
<1>1. CASE found = {}
  BY <1>1 DEF FirstInList, InList
<1>2. CASE found # {}
  <2>1. found \in SUBSET Nat
    OBVIOUS
  <2>2. \E i \in found : \A j \in found : i <= j
    <3> HIDE DEF found
    <3> QED BY <1>2, <2>1, LeastElement
  <2>3. first \in found
    BY <2>2
  <2>4. FirstInList(list, S) = list[first]
    BY <1>2 DEF FirstInList
  <2> HIDE DEF first
  <2> QED BY <2>3, <2>4 DEF InList
<1> QED BY <1>1, <1>2

\* User agent u is at position u - 1, which leads back to it.
LEMMA PositionOfCall ==
    ASSUME NEW s, Well(s), NEW t \in Calls(s)
    PROVE  /\ GetUaPosition(s, t) = t - 1
           /\ GetUa(s, t - 1) = t
           /\ GetDialogByUa(s, t) = t
           /\ InList(s.uas, t) /\ InList(s.dialogs, t)
<1>1. /\ s.uas \in Seq(Nat) /\ s.dialogs \in Seq(Nat) /\ s.transaction \in Seq(TransactionObjects)
      /\ Lined(s.uas, Len(s.transaction)) /\ Lined(s.dialogs, Len(s.transaction))
  BY DEF Well, Listed, Stacks
<1>2. /\ DOMAIN s.uas = Calls(s) /\ DOMAIN s.dialogs = Calls(s)
      /\ \A i \in Calls(s) : i \in Nat /\ s.uas[i] = i /\ s.dialogs[i] = i
  BY <1>1 DEF Lined, Calls
<1>3. (CHOOSE i \in DOMAIN s.uas : s.uas[i] = t) = t
  BY <1>2
<1>4. InList(s.uas, t) /\ InList(s.dialogs, t)
  BY <1>2 DEF InList
<1>5. t \in Nat /\ (t - 1) + 1 = t
  BY <1>2
<1> QED BY <1>2, <1>3, <1>4, <1>5 DEF GetUaPosition, GetUa, GetDialogByUa

-----------------------------------------------------------------------------
(* A stack with other dialogs, machines and sendings *)

\* s with dialogs D, a list L of transactions T, sendings W, answers A and
\* telling N.
Changed(s, D, L, T, W, A, N) ==
    [s EXCEPT !.dialog = D, !.transactions = L, !.transaction = T,
              !.wire = W, !.answers = A, !.told = N]

\* It has them, and what else s has.
LEMMA ChangedFields ==
    ASSUME NEW s \in Stacks, NEW D, NEW L, NEW T, NEW W, NEW A, NEW N
    PROVE  LET r == Changed(s, D, L, T, W, A, N) IN
           /\ r.dialog = D /\ r.transactions = L /\ r.transaction = T
           /\ r.wire = W /\ r.answers = A /\ r.told = N
           /\ r.uas = s.uas /\ r.account = s.account /\ r.dialogs = s.dialogs
           /\ r.fault = s.fault
BY DEF Changed, Stacks

\* Of the right types, it is a stack.
LEMMA ChangedIsStack ==
    ASSUME NEW s \in Stacks, NEW D \in Seq(DialogObjects), NEW L \in Seq(Nat),
           NEW T \in Seq(TransactionObjects), NEW W \in SUBSET (Nat \X Sendings),
           NEW A \in SUBSET (Nat \X SendEvents), NEW N \in Notices
    PROVE  Changed(s, D, L, T, W, A, N) \in Stacks
BY DEF Changed, Stacks

\* Nothing changed.
LEMMA Unchanged ==
    ASSUME NEW s \in Stacks
    PROVE  s = Changed(s, s.dialog, s.transactions, s.transaction, s.wire,
                       s.answers, s.told)
BY DEF Changed, Stacks

-----------------------------------------------------------------------------
(* The entries of the tables that two phones reach *)

\* What the machines of an INVITE do with the events they get here.
LEMMA Entries ==
    /\ LocateEventEntry("CLIENT_INVITE", "INIT", "INIT") =
         {Entry({"INIT"}, "CALLING", <<"SendRequestMessage",
                  "ClientNonInviteAddRetransmitTimer", "AddTimeoutTimer">>)}
    /\ LocateEventEntry("SERVER_INVITE", "INIT", "INIT") =
         {Entry({"INIT"}, "PROCEEDING", <<"ResponseWith100Trying">>)}
    /\ LocateEventEntry("CLIENT_INVITE", "CALLING", "1XX") =
         {Entry({"1XX"}, "PROCEEDING", <<"ResetRetransmits">>)}
    /\ LocateEventEntry("CLIENT_INVITE", "PROCEEDING", "1XX") =
         {Entry({"1XX"}, "PROCEEDING", <<"InformTU">>)}
    /\ LocateEventEntry("CLIENT_INVITE", "CALLING", "2XX") =
         {Entry({"2XX"}, "TERMINATED", <<"InformTU">>)}
    /\ LocateEventEntry("CLIENT_INVITE", "PROCEEDING", "2XX") =
         {Entry({"2XX"}, "TERMINATED", <<"InformTU">>)}
    /\ LocateEventEntry("SERVER_INVITE", "PROCEEDING", "INVITE") =
         {Entry({"INVITE"}, "PROCEEDING", <<"ResendLatestResponse">>)}
    /\ LocateEventEntry("SERVER_INVITE", "PROCEEDING", "SEND_RINGING") =
         {Entry({"SEND_RINGING"}, "PROCEEDING", <<>>)}
    /\ LocateEventEntry("SERVER_INVITE", "PROCEEDING", "SEND_OK") =
         {Entry({"SEND_OK"}, "TERMINATED", <<>>)}
BY DEF LocateEventEntry, LocateFsmState, Fsm, Entry, Goto, RejectEvents,
       ClientInviteTransactionFsm, ServerInviteTransactionFsm, ClientInitState,
       ClientInviteCallingState, ClientInviteProceedingState,
       ClientInviteCompletedState, ServerInviteInitState,
       ServerInviteProceedingState, ServerInviteCompletedState,
       ServerInviteConfirmedState

\* The state of one transaction is set, and its latest response, and a final
\* answer is noted.
Moves(s, t, state)  == [s EXCEPT !.transaction[t].state = state]
Latest(s, t, event) == [s EXCEPT !.transaction[t].latest = event]
Noted(s, answer)    == [s EXCEPT !.answers = @ \cup {answer}]

\* An event with one entry moves the machine there and runs its actions.
LEMMA AdvanceByEntry ==
    ASSUME NEW s, NEW t, NEW event, NEW evs, NEW next, NEW acts,
           EntriesFor(s, t, event) = {Entry(evs, next, acts)}
    PROVE  /\ Advance(s, t, event) =
                RunActions(Moves(s, t, next), t, {acts[i] : i \in DOMAIN acts})
           /\ "InformTU" \in {acts[i] : i \in DOMAIN acts} => Informs(s, t, event)
           /\ "InformTU" \notin {acts[i] : i \in DOMAIN acts} => ~Informs(s, t, event)
<1> DEFINE e == Entry(evs, next, acts)
<1>1. e.nextState = next /\ e.actions = acts
  BY DEF Entry
<1> HIDE DEF e
<1>2. EntriesFor(s, t, event) = {e}
  BY DEF e
<1>3. (CHOOSE x \in EntriesFor(s, t, event) : TRUE) = e
  BY <1>2
<1>4. InvokeActions(acts, TRUE) = {acts[i] : i \in DOMAIN acts}
  BY DEF InvokeActions
<1>5. Advance(s, t, event) = RunActions(Moves(s, t, next), t, InvokeActions(acts, TRUE))
  BY <1>1, <1>2, <1>3, Zenon DEF Advance, Moves
<1>6. Informs(s, t, event) <=> \E i \in DOMAIN acts : acts[i] = "InformTU"
  BY <1>1, <1>2 DEF Informs
<1> QED BY <1>4, <1>5, <1>6

\* An event that only informs the user.
LEMMA AdvanceByInforming ==
    ASSUME NEW s, NEW t, NEW event, NEW evs, NEW next,
           EntriesFor(s, t, event) = {Entry(evs, next, <<"InformTU">>)}
    PROVE  Advance(s, t, event) = Moves(s, t, next) /\ Informs(s, t, event)
<1> DEFINE acts == <<"InformTU">>
<1>1. {acts[i] : i \in DOMAIN acts} = {"InformTU"}
  OBVIOUS
<1>2. \A q : RunActions(q, t, {"InformTU"}) = q
  BY DEF RunActions
<1>3. EntriesFor(s, t, event) = {Entry(evs, next, acts)}
  OBVIOUS
<1> DEFINE ran == {acts[i] : i \in DOMAIN acts}
<1> HIDE DEF acts
<1>4. /\ Advance(s, t, event) = RunActions(Moves(s, t, next), t, ran)
      /\ "InformTU" \in ran => Informs(s, t, event)
  BY <1>3, AdvanceByEntry
<1> HIDE DEF ran
<1> QED BY <1>1, <1>2, <1>4 DEF ran

\* What they do to a stack, by the kind of transaction.
LEMMA Advances ==
    ASSUME NEW s, NEW t, NEW type, NEW state,
           s.transaction[t].type = type, s.transaction[t].state = state
    PROVE  /\ type = "CLIENT_INVITE" /\ state = "INIT" =>
                Advance(s, t, "INIT") = SendMessage(Moves(s, t, "CALLING"), t, "request")
           /\ type = "SERVER_INVITE" /\ state = "INIT" =>
                Advance(s, t, "INIT") =
                   SendResponse(Moves(s, t, "PROCEEDING"), t, "SEND_TRYING")
           /\ type = "CLIENT_INVITE" /\ state \in {"CALLING", "PROCEEDING"} =>
                /\ Advance(s, t, "1XX") = Moves(s, t, "PROCEEDING")
                /\ Informs(s, t, "1XX") <=> state = "PROCEEDING"
                /\ Advance(s, t, "2XX") = Moves(s, t, "TERMINATED")
                /\ Informs(s, t, "2XX")
           /\ type = "SERVER_INVITE" /\ state = "PROCEEDING" =>
                /\ Advance(s, t, "INVITE") =
                     SendMessage(Moves(s, t, "PROCEEDING"), t,
                                 Moves(s, t, "PROCEEDING").transaction[t].latest)
                /\ Advance(s, t, "SEND_RINGING") = Moves(s, t, "PROCEEDING")
                /\ Advance(s, t, "SEND_OK") = Moves(s, t, "TERMINATED")
<1>0. \A event : EntriesFor(s, t, event) = LocateEventEntry(type, state, event)
  BY DEF EntriesFor
<1>1. ASSUME type = "CLIENT_INVITE", state = "INIT"
      PROVE  Advance(s, t, "INIT") = SendMessage(Moves(s, t, "CALLING"), t, "request")
  <2> DEFINE acts == <<"SendRequestMessage", "ClientNonInviteAddRetransmitTimer",
                       "AddTimeoutTimer">>
  <2>1. Advance(s, t, "INIT") =
          RunActions(Moves(s, t, "CALLING"), t, {acts[i] : i \in DOMAIN acts})
    BY <1>0, <1>1, Entries, AdvanceByEntry
  <2>2. {acts[i] : i \in DOMAIN acts} =
          {"SendRequestMessage", "ClientNonInviteAddRetransmitTimer", "AddTimeoutTimer"}
    OBVIOUS
  <2> HIDE DEF acts
  <2> QED BY <2>1, <2>2 DEF RunActions
<1>2. ASSUME type = "SERVER_INVITE", state = "INIT"
      PROVE  Advance(s, t, "INIT") =
               SendResponse(Moves(s, t, "PROCEEDING"), t, "SEND_TRYING")
  <2> DEFINE acts == <<"ResponseWith100Trying">>
  <2>1. Advance(s, t, "INIT") =
          RunActions(Moves(s, t, "PROCEEDING"), t, {acts[i] : i \in DOMAIN acts})
    BY <1>0, <1>2, Entries, AdvanceByEntry
  <2>2. {acts[i] : i \in DOMAIN acts} = {"ResponseWith100Trying"}
    OBVIOUS
  <2> HIDE DEF acts
  <2> QED BY <2>1, <2>2 DEF RunActions
<1> DEFINE none == <<>>
<1>3. {none[i] : i \in DOMAIN none} = {}
  OBVIOUS
<1>4. \A q : RunActions(q, t, {}) = q
  BY DEF RunActions
<1>5. ASSUME type = "CLIENT_INVITE", state = "CALLING"
      PROVE  /\ Advance(s, t, "1XX") = Moves(s, t, "PROCEEDING")
             /\ ~Informs(s, t, "1XX")
  <2> DEFINE acts == <<"ResetRetransmits">>
  <2>1. /\ Advance(s, t, "1XX") =
             RunActions(Moves(s, t, "PROCEEDING"), t, {acts[i] : i \in DOMAIN acts})
        /\ "InformTU" \notin {acts[i] : i \in DOMAIN acts} => ~Informs(s, t, "1XX")
    BY <1>0, <1>5, Entries, AdvanceByEntry
  <2>2. {acts[i] : i \in DOMAIN acts} = {"ResetRetransmits"}
    OBVIOUS
  <2> HIDE DEF acts
  <2> QED BY <2>1, <2>2 DEF RunActions
<1>6. ASSUME type = "CLIENT_INVITE", state = "PROCEEDING"
      PROVE  Advance(s, t, "1XX") = Moves(s, t, "PROCEEDING") /\ Informs(s, t, "1XX")
  <2>1. EntriesFor(s, t, "1XX") = {Entry({"1XX"}, "PROCEEDING", <<"InformTU">>)}
    BY <1>0, <1>6, Entries
  <2> QED BY <2>1, AdvanceByInforming
<1>7. ASSUME type = "CLIENT_INVITE", state \in {"CALLING", "PROCEEDING"}
      PROVE  Advance(s, t, "2XX") = Moves(s, t, "TERMINATED") /\ Informs(s, t, "2XX")
  <2>1. EntriesFor(s, t, "2XX") = {Entry({"2XX"}, "TERMINATED", <<"InformTU">>)}
    BY <1>0, <1>7, Entries
  <2> QED BY <2>1, AdvanceByInforming
<1>8. ASSUME type = "SERVER_INVITE", state = "PROCEEDING"
      PROVE  Advance(s, t, "INVITE") =
               SendMessage(Moves(s, t, "PROCEEDING"), t,
                           Moves(s, t, "PROCEEDING").transaction[t].latest)
  <2> DEFINE acts == <<"ResendLatestResponse">>
  <2>1. Advance(s, t, "INVITE") =
          RunActions(Moves(s, t, "PROCEEDING"), t, {acts[i] : i \in DOMAIN acts})
    BY <1>0, <1>8, Entries, AdvanceByEntry
  <2>2. {acts[i] : i \in DOMAIN acts} = {"ResendLatestResponse"}
    OBVIOUS
  <2> HIDE DEF acts
  <2> QED BY <2>1, <2>2 DEF RunActions
<1>9. ASSUME type = "SERVER_INVITE", state = "PROCEEDING"
      PROVE  /\ Advance(s, t, "SEND_RINGING") = Moves(s, t, "PROCEEDING")
             /\ Advance(s, t, "SEND_OK") = Moves(s, t, "TERMINATED")
  <2>1. /\ Advance(s, t, "SEND_RINGING") =
             RunActions(Moves(s, t, "PROCEEDING"), t, {none[i] : i \in DOMAIN none})
        /\ Advance(s, t, "SEND_OK") =
             RunActions(Moves(s, t, "TERMINATED"), t, {none[i] : i \in DOMAIN none})
    BY <1>0, <1>9, Entries, AdvanceByEntry
  <2> HIDE DEF none
  <2> QED BY <1>3, <1>4, <2>1
<1> HIDE DEF none
<1> QED BY <1>1, <1>2, <1>5, <1>6, <1>7, <1>8, <1>9

-----------------------------------------------------------------------------
(* What the operations change *)

\* Sending changes the wire.
LEMMA ChangedBySending ==
    ASSUME NEW s \in Stacks, NEW D, NEW L, NEW T, NEW W, NEW A, NEW N,
           NEW t, NEW what
    PROVE  SendMessage(Changed(s, D, L, T, W, A, N), t, what) =
             Changed(s, D, L, T, W \cup {<<t, what>>}, A, N)
<1> DEFINE v == W \cup {<<t, what>>}
           c == Changed(s, D, L, T, W, A, N)
<1>1. c.wire = W
  BY ChangedFields
<1>2. SendMessage(c, t, what) = [c EXCEPT !.wire = v]
  BY <1>1 DEF SendMessage
<1> HIDE DEF v
<1>3. [c EXCEPT !.wire = v] = Changed(s, D, L, T, v, A, N)
  BY DEF Changed, Stacks
<1> QED BY <1>2, <1>3 DEF v

\* A step of a machine changes its transaction.
LEMMA ChangedByMoving ==
    ASSUME NEW s \in Stacks, NEW D, NEW L, NEW T, NEW W, NEW A, NEW N,
           NEW t, NEW state
    PROVE  Moves(Changed(s, D, L, T, W, A, N), t, state) =
             Changed(s, D, L, [T EXCEPT ![t] = [T[t] EXCEPT !.state = state]], W, A, N)
<1> DEFINE v == [T EXCEPT ![t] = [T[t] EXCEPT !.state = state]]
           c == Changed(s, D, L, T, W, A, N)
<1>1. c.transaction = T
  BY ChangedFields
<1>2. Moves(c, t, state) = [c EXCEPT !.transaction = v]
  BY <1>1 DEF Moves
<1> HIDE DEF v
<1>3. [c EXCEPT !.transaction = v] = Changed(s, D, L, v, W, A, N)
  BY DEF Changed, Stacks
<1> QED BY <1>2, <1>3 DEF v

\* So does a response that is remembered.
LEMMA ChangedByResponse ==
    ASSUME NEW s \in Stacks, NEW D, NEW L, NEW T, NEW W, NEW A, NEW N,
           NEW t, NEW event
    PROVE  Latest(Changed(s, D, L, T, W, A, N), t, event) =
             Changed(s, D, L, [T EXCEPT ![t] = [T[t] EXCEPT !.latest = event]], W, A, N)
<1> DEFINE v == [T EXCEPT ![t] = [T[t] EXCEPT !.latest = event]]
           c == Changed(s, D, L, T, W, A, N)
<1>1. c.transaction = T
  BY ChangedFields
<1>2. Latest(c, t, event) = [c EXCEPT !.transaction = v]
  BY <1>1 DEF Latest
<1> HIDE DEF v
<1>3. [c EXCEPT !.transaction = v] = Changed(s, D, L, v, W, A, N)
  BY DEF Changed, Stacks
<1> QED BY <1>2, <1>3 DEF v

\* A final answer is noted.
LEMMA ChangedByAnswer ==
    ASSUME NEW s \in Stacks, NEW D, NEW L, NEW T, NEW W, NEW A, NEW N, NEW a
    PROVE  Noted(Changed(s, D, L, T, W, A, N), a) =
             Changed(s, D, L, T, W, A \cup {a}, N)
<1> DEFINE v == A \cup {a}
           c == Changed(s, D, L, T, W, A, N)
<1>1. c.answers = A
  BY ChangedFields
<1>2. Noted(c, a) = [c EXCEPT !.answers = v]
  BY <1>1 DEF Noted
<1> HIDE DEF v
<1>3. [c EXCEPT !.answers = v] = Changed(s, D, L, T, W, v, N)
  BY DEF Changed, Stacks
<1> QED BY <1>2, <1>3 DEF v

\* The client is told of a user agent and of its position.
LEMMA ChangedByTelling ==
    ASSUME NEW s \in Stacks, NEW D, NEW L, NEW T, NEW W, NEW A, NEW N,
           NEW t, NEW event
    PROVE  NotifyCm(Changed(s, D, L, T, W, A, N), event, t) =
             Changed(s, D, L, T, W, A,
                     [event |-> event, ua |-> t, position |-> GetUaPosition(s, t)])
<1> DEFINE v == [event |-> event, ua |-> t, position |-> GetUaPosition(s, t)]
           c == Changed(s, D, L, T, W, A, N)
<1>1. c.uas = s.uas
  BY ChangedFields
<1>2. GetUaPosition(c, t) = GetUaPosition(s, t)
  BY <1>1 DEF GetUaPosition
<1>3. NotifyCm(c, event, t) = [c EXCEPT !.told = v]
  BY <1>2 DEF NotifyCm
<1> HIDE DEF v
<1>4. [c EXCEPT !.told = v] = Changed(s, D, L, T, W, A, v)
  BY DEF Changed, Stacks
<1> QED BY <1>3, <1>4 DEF v

\* A transaction that is over is unlisted.
LEMMA ChangedByRemoving ==
    ASSUME NEW s \in Stacks, NEW D, NEW L, NEW T, NEW W, NEW A, NEW N, NEW t
    PROVE  RemoveTerminatedTransaction(Changed(s, D, L, T, W, A, N), t) =
             Changed(s, D, IF T[t].state = "TERMINATED" THEN DelFromList(L, t) ELSE L,
                     T, W, A, N)
<1> DEFINE v == DelFromList(L, t)
           c == Changed(s, D, L, T, W, A, N)
<1>1. c.transaction = T /\ c.transactions = L
  BY ChangedFields
<1>2. RemoveTerminatedTransaction(c, t) =
        IF T[t].state = "TERMINATED" THEN [c EXCEPT !.transactions = v] ELSE c
  BY <1>1 DEF RemoveTerminatedTransaction
<1> HIDE DEF v
<1>3. [c EXCEPT !.transactions = v] = Changed(s, D, v, T, W, A, N)
  BY DEF Changed, Stacks
<1> HIDE DEF c
<1>4. CASE T[t].state = "TERMINATED"
  BY <1>2, <1>3, <1>4 DEF v, c
<1>5. CASE T[t].state # "TERMINATED"
  BY <1>2, <1>5 DEF c
<1> QED BY <1>4, <1>5 DEF c

\* Transaction v is tr, in another state and with another latest response.
StepOf(tr, v, state, latest) ==
    /\ v \in TransactionObjects
    /\ v.type = tr.type /\ v.request = tr.request /\ v.user = tr.user
    /\ v.state = state /\ v.latest = latest

\* Setting the state, or the latest response, is such a step.
LEMMA StepsOf ==
    ASSUME NEW tr \in TransactionObjects, NEW state \in TransactionStates,
           NEW event \in SendEvents
    PROVE  /\ StepOf(tr, [tr EXCEPT !.state = state], state, tr.latest)
           /\ StepOf(tr, [tr EXCEPT !.latest = event], tr.state, event)
BY DEF StepOf, TransactionObjects

\* Two steps are one.
LEMMA TwoSteps ==
    ASSUME NEW tr, NEW v, NEW w, NEW s1, NEW s2, NEW l1, NEW l2,
           StepOf(tr, v, s1, l1), StepOf(v, w, s2, l2)
    PROVE  StepOf(tr, w, s2, l2)
BY DEF StepOf

\* The second of two values of one element is what remains.
LEMMA ReplacedTwice ==
    ASSUME NEW S, NEW list \in Seq(S), NEW t \in 1 .. Len(list), NEW v, NEW w
    PROVE  /\ [list EXCEPT ![t] = v][t] = v
           /\ [[list EXCEPT ![t] = v] EXCEPT ![t] = w] = [list EXCEPT ![t] = w]
<1>1. t \in DOMAIN list
  OBVIOUS
<1> QED BY <1>1

\* The machines of a stack.
LEMMA Machines ==
    ASSUME NEW s \in Stacks
    PROVE  /\ s.transaction \in Seq(TransactionObjects)
           /\ s.dialog \in Seq(DialogObjects)
           /\ s.transactions \in Seq(Nat)
           /\ \A t \in Calls(s) : s.transaction[t] \in TransactionObjects /\ t \in Nat
BY DEF Stacks, Calls

\* A response to an INVITE that waits: it is sent and remembered, and a 200 ends
\* the transaction (Transaction.c:478-541).
LEMMA Responds ==
    ASSUME NEW s \in Stacks, NEW t \in Calls(s),
           s.transaction[t].type = "SERVER_INVITE",
           s.transaction[t].state = "PROCEEDING",
           NEW event \in {"SEND_RINGING", "SEND_OK"}
    PROVE  LET final == event = "SEND_OK" IN
           \E v : /\ StepOf(s.transaction[t], v,
                            IF final THEN "TERMINATED" ELSE "PROCEEDING", event)
                  /\ ResponseWith(s, t, event) =
                       Changed(s, s.dialog,
                               IF final THEN DelFromList(s.transactions, t)
                                        ELSE s.transactions,
                               [s.transaction EXCEPT ![t] = v],
                               s.wire \cup {<<t, event>>},
                               IF final THEN s.answers \cup {<<t, event>>}
                                        ELSE s.answers, s.told)
<1> DEFINE next == IF event = "SEND_OK" THEN "TERMINATED" ELSE "PROCEEDING"
           A  == IF event = "SEND_OK" THEN s.answers \cup {<<t, event>>} ELSE s.answers
           L  == IF event = "SEND_OK" THEN DelFromList(s.transactions, t)
                                      ELSE s.transactions
           W  == s.wire \cup {<<t, event>>}
           v1 == [s.transaction[t] EXCEPT !.latest = event]
           v2 == [v1 EXCEPT !.state = next]
           T1 == [s.transaction EXCEPT ![t] = v1]
           T2 == [s.transaction EXCEPT ![t] = v2]
           q0 == Changed(s, s.dialog, s.transactions, T1, s.wire, s.answers, s.told)
           q1 == Changed(s, s.dialog, s.transactions, T1, W, s.answers, s.told)
           q2 == Changed(s, s.dialog, s.transactions, T1, W, A, s.told)
           q3 == Changed(s, s.dialog, s.transactions, T2, W, A, s.told)
           q4 == Changed(s, s.dialog, L, T2, W, A, s.told)
<1>1. s.transaction \in Seq(TransactionObjects) /\ t \in 1 .. Len(s.transaction)
        /\ s.transaction[t] \in TransactionObjects
  BY Machines DEF Calls
<1>2. event \in SendEvents /\ next \in TransactionStates
  BY DEF SendEvents, TransactionStates
<1>3. StepOf(s.transaction[t], v1, "PROCEEDING", event)
  BY <1>1, <1>2, StepsOf
<1> HIDE DEF v1, next
<1>4. StepOf(v1, v2, next, event)
  BY <1>2, <1>3, StepsOf DEF StepOf
<1>5. StepOf(s.transaction[t], v2, next, event)
  BY <1>3, <1>4, TwoSteps
<1>6. T1[t] = v1 /\ [T1 EXCEPT ![t] = v2] = T2 /\ T2[t] = v2
  BY <1>1, ReplacedTwice
<1>7. Latest(s, t, event) = q0
  <2>1. s = Changed(s, s.dialog, s.transactions, s.transaction, s.wire, s.answers, s.told)
    BY Unchanged
  <2> QED BY <2>1, ChangedByResponse DEF v1
<1> HIDE DEF T1, T2, W, A, L
<1>8. SendMessage(q0, t, event) = q1
  BY ChangedBySending DEF W
<1>9. SendResponse(s, t, event) = q2
  <2>1. Noted(q1, <<t, event>>) =
          Changed(s, s.dialog, s.transactions, T1, W, s.answers \cup {<<t, event>>}, s.told)
    BY ChangedByAnswer
  <2> HIDE DEF q0, q1
  <2>2. CASE event = "SEND_OK"
    BY <1>7, <1>8, <2>1, <2>2 DEF SendResponse, A, Latest, Noted, q2
  <2>3. CASE event = "SEND_RINGING"
    BY <1>7, <1>8, <2>3 DEF SendResponse, A, Latest, q1, q2
  <2> QED BY <2>2, <2>3
<1>10. q2.transaction = T1
  BY ChangedFields
<1>11. q2.transaction[t].type = "SERVER_INVITE" /\ q2.transaction[t].state = "PROCEEDING"
  BY <1>3, <1>6, <1>10 DEF StepOf
<1>12. Moves(q2, t, next) = q3
  <2>1. Moves(q2, t, next) =
          Changed(s, s.dialog, s.transactions, [T1 EXCEPT ![t] = [T1[t] EXCEPT !.state = next]],
                  W, A, s.told)
    BY ChangedByMoving
  <2> QED BY <1>6, <2>1
<1>13. RemoveTerminatedTransaction(q3, t) = q4
  <2>1. RemoveTerminatedTransaction(q3, t) =
          Changed(s, s.dialog, IF T2[t].state = "TERMINATED"
                               THEN DelFromList(s.transactions, t) ELSE s.transactions,
                  T2, W, A, s.told)
    BY ChangedByRemoving
  <2>2. T2[t].state = next
    BY <1>5, <1>6 DEF StepOf
  <2>3. L = IF T2[t].state = "TERMINATED" THEN DelFromList(s.transactions, t)
                                          ELSE s.transactions
    BY <2>2 DEF L, next
  <2> QED BY <2>1, <2>3
<1> HIDE DEF q2, q3, q4
<1>14. Advance(q2, t, event) = q3
  BY <1>11, <1>12, Advances DEF next
<1>15. ResponseWith(s, t, event) = q4
  BY <1>9, <1>13, <1>14 DEF ResponseWith, RunQuietly
<1> QED BY <1>5, <1>15 DEF q4, T2, W, A, L, next

\* A step of a machine, of a stack as it is.
LEMMA MovesCall ==
    ASSUME NEW s \in Stacks, NEW t \in Calls(s), NEW state \in TransactionStates
    PROVE  LET v == [s.transaction[t] EXCEPT !.state = state] IN
           /\ StepOf(s.transaction[t], v, state, s.transaction[t].latest)
           /\ Moves(s, t, state) =
                Changed(s, s.dialog, s.transactions, [s.transaction EXCEPT ![t] = v],
                        s.wire, s.answers, s.told)
           /\ [s.transaction EXCEPT ![t] = v][t] = v
<1> DEFINE v == [s.transaction[t] EXCEPT !.state = state]
<1>1. s.transaction \in Seq(TransactionObjects) /\ t \in 1 .. Len(s.transaction)
        /\ s.transaction[t] \in TransactionObjects
  BY Machines DEF Calls
<1>2. StepOf(s.transaction[t], v, state, s.transaction[t].latest)
  BY <1>1 DEF StepOf, TransactionObjects
<1>3. s = Changed(s, s.dialog, s.transactions, s.transaction, s.wire, s.answers, s.told)
  BY Unchanged
<1>4. Moves(s, t, state) =
        Changed(s, s.dialog, s.transactions, [s.transaction EXCEPT ![t] = v],
                s.wire, s.answers, s.told)
  BY <1>3, ChangedByMoving
<1> HIDE DEF v
<1>5. [s.transaction EXCEPT ![t] = v][t] = v
  BY <1>1
<1> QED BY <1>2, <1>4, <1>5 DEF v

\* A copy of an INVITE that waits is answered as the last time
\* (ResendLatestResponse).
LEMMA Resends ==
    ASSUME NEW s \in Stacks, NEW t \in Calls(s),
           s.transaction[t].type = "SERVER_INVITE",
           s.transaction[t].state = "PROCEEDING"
    PROVE  \E v : /\ StepOf(s.transaction[t], v, "PROCEEDING", s.transaction[t].latest)
                  /\ RunQuietly(s, t, "INVITE") =
                       Changed(s, s.dialog, s.transactions,
                               [s.transaction EXCEPT ![t] = v],
                               s.wire \cup {<<t, s.transaction[t].latest>>},
                               s.answers, s.told)
<1> DEFINE v  == [s.transaction[t] EXCEPT !.state = "PROCEEDING"]
           T  == [s.transaction EXCEPT ![t] = v]
           x  == s.transaction[t].latest
           q0 == Changed(s, s.dialog, s.transactions, T, s.wire, s.answers, s.told)
           q1 == Changed(s, s.dialog, s.transactions, T, s.wire \cup {<<t, x>>},
                         s.answers, s.told)
<1>1. "PROCEEDING" \in TransactionStates
  BY DEF TransactionStates
<1>2. StepOf(s.transaction[t], v, "PROCEEDING", x) /\ Moves(s, t, "PROCEEDING") = q0
        /\ T[t] = v
  BY <1>1, MovesCall
<1> HIDE DEF v, T
<1>3. q0.transaction = T
  BY ChangedFields
<1>4. q0.transaction[t].latest = x
  BY <1>2, <1>3 DEF StepOf
<1>5. SendMessage(q0, t, x) = q1
  BY ChangedBySending
<1>6. RemoveTerminatedTransaction(q1, t) = q1
  <2>1. T[t].state = "PROCEEDING"
    BY <1>2 DEF StepOf
  <2>2. q1.transaction = T
    BY ChangedFields
  <2> QED BY <2>1, <2>2 DEF RemoveTerminatedTransaction
<1> HIDE DEF q0, q1, x
<1>7. Advance(s, t, "INVITE") = q1
  BY <1>2, <1>4, <1>5, Advances
<1>8. RunQuietly(s, t, "INVITE") = q1
  BY <1>6, <1>7 DEF RunQuietly
<1> QED BY <1>2, <1>8 DEF q1, T, x

-----------------------------------------------------------------------------
(* A dialog that changes *)

\* One dialog is replaced.
Redialed(s, d, w) == [s EXCEPT !.dialog[d] = w]

\* It is the field that is another.
LEMMA RedialedAs ==
    ASSUME NEW s \in Stacks, NEW d \in DOMAIN s.dialog, NEW w
    PROVE  Redialed(s, d, w) = [s EXCEPT !.dialog = [s.dialog EXCEPT ![d] = w]]
BY Zenon DEF Redialed

\* What it has now.
LEMMA RedialedAt ==
    ASSUME NEW s \in Stacks, NEW d \in DOMAIN s.dialog, NEW w
    PROVE  Redialed(s, d, w).dialog[d] = w
<1> DEFINE D == [s.dialog EXCEPT ![d] = w]
<1>1. Redialed(s, d, w) = [s EXCEPT !.dialog = D]
  BY RedialedAs
<1>2. D[d] = w
  BY Machines
<1> HIDE DEF D
<1>3. [s EXCEPT !.dialog = D].dialog = D
  BY DEF Stacks
<1> QED BY <1>1, <1>2, <1>3

\* The second of two values of one dialog is what remains.
LEMMA RedialedTwice ==
    ASSUME NEW s \in Stacks, NEW d \in DOMAIN s.dialog, NEW w, NEW u
    PROVE  Redialed(Redialed(s, d, w), d, u) = Redialed(s, d, u)
<1> DEFINE q == Redialed(s, d, w)
           D == [s.dialog EXCEPT ![d] = w]
           E == [s.dialog EXCEPT ![d] = u]
<1>1. Redialed(q, d, u) = [q EXCEPT !.dialog = [q.dialog EXCEPT ![d] = u]]
  BY Zenon DEF Redialed
<1>2. s.dialog \in Seq(DialogObjects)
  BY Machines
<1>3. q = [s EXCEPT !.dialog = D]
  BY RedialedAs
<1>4. [D EXCEPT ![d] = u] = E
  BY <1>2
<1>5. Redialed(s, d, u) = [s EXCEPT !.dialog = E]
  BY RedialedAs
<1> HIDE DEF D, E, q
<1>6. /\ [[s EXCEPT !.dialog = D] EXCEPT !.dialog = E] = [s EXCEPT !.dialog = E]
      /\ [s EXCEPT !.dialog = D].dialog = D
  BY DEF Stacks
<1> QED BY <1>1, <1>3, <1>4, <1>5, <1>6 DEF q

\* The dialog of a call that is accepted, or established, with id as its id.
AcceptedDialog(w, id) == [w EXCEPT !.id = id, !.state = "CONFIRMED", !.session = TRUE]

\* That of a call just made, by its transaction and its id.
CallDialog(w, t, id) == [w EXCEPT !.transaction = t, !.id = id]

\* The first 200 to an INVITE, in DialogOk.
LEMMA OkDialog ==
    ASSUME NEW s \in Stacks, NEW d \in DOMAIN s.dialog, NEW tag
    PROVE  [s EXCEPT !.dialog[d].id.local = tag, !.dialog[d].state = "CONFIRMED",
                     !.dialog[d].session = TRUE] =
             Redialed(s, d, AcceptedDialog(s.dialog[d], [s.dialog[d].id EXCEPT !.local = tag]))
<1> DEFINE w0 == s.dialog[d]
           w1 == [w0 EXCEPT !.id = [w0.id EXCEPT !.local = tag]]
           w2 == [w1 EXCEPT !.state = "CONFIRMED"]
           w3 == [w2 EXCEPT !.session = TRUE]
           q1 == Redialed(s, d, w1)
           q2 == Redialed(s, d, w2)
           q3 == Redialed(s, d, w3)
<1>1. [s EXCEPT !.dialog[d].id.local = tag] = q1
  BY Zenon DEF Redialed
<1>2. w3 = AcceptedDialog(w0, [w0.id EXCEPT !.local = tag])
  BY Zenon DEF AcceptedDialog
<1> HIDE DEF w1
<1>3. [q1 EXCEPT !.dialog[d].state = "CONFIRMED"] = q2
  <2>1. q1.dialog[d] = w1
    BY RedialedAt
  <2>2. [q1 EXCEPT !.dialog[d].state = "CONFIRMED"] = Redialed(q1, d, w2)
    <3> HIDE DEF q1
    <3> QED BY <2>1, Zenon DEF Redialed
  <2> QED BY <2>2, RedialedTwice
<1> HIDE DEF w2
<1>4. [q2 EXCEPT !.dialog[d].session = TRUE] = q3
  <2>1. q2.dialog[d] = w2
    BY RedialedAt
  <2>2. [q2 EXCEPT !.dialog[d].session = TRUE] = Redialed(q2, d, w3)
    <3> HIDE DEF q2
    <3> QED BY <2>1, Zenon DEF Redialed
  <2> QED BY <2>2, RedialedTwice
<1> HIDE DEF q1, q2, w3
<1> QED BY <1>1, <1>2, <1>3, <1>4 DEF q3

\* The 200 to our INVITE, in DialogReceiveOk.
LEMMA EstablishedDialog ==
    ASSUME NEW s \in Stacks, NEW d \in DOMAIN s.dialog, NEW id
    PROVE  [s EXCEPT !.dialog[d].id = id, !.dialog[d].state = "CONFIRMED",
                     !.dialog[d].session = TRUE] =
             Redialed(s, d, AcceptedDialog(s.dialog[d], id))
<1> DEFINE w0 == s.dialog[d]
           w1 == [w0 EXCEPT !.id = id]
           w2 == [w1 EXCEPT !.state = "CONFIRMED"]
           w3 == [w2 EXCEPT !.session = TRUE]
           q1 == Redialed(s, d, w1)
           q2 == Redialed(s, d, w2)
           q3 == Redialed(s, d, w3)
<1>1. [s EXCEPT !.dialog[d].id = id] = q1
  BY Zenon DEF Redialed
<1>2. w3 = AcceptedDialog(w0, id)
  BY Zenon DEF AcceptedDialog
<1> HIDE DEF w1
<1>3. [q1 EXCEPT !.dialog[d].state = "CONFIRMED"] = q2
  <2>1. q1.dialog[d] = w1
    BY RedialedAt
  <2>2. [q1 EXCEPT !.dialog[d].state = "CONFIRMED"] = Redialed(q1, d, w2)
    <3> HIDE DEF q1
    <3> QED BY <2>1, Zenon DEF Redialed
  <2> QED BY <2>2, RedialedTwice
<1> HIDE DEF w2
<1>4. [q2 EXCEPT !.dialog[d].session = TRUE] = q3
  <2>1. q2.dialog[d] = w2
    BY RedialedAt
  <2>2. [q2 EXCEPT !.dialog[d].session = TRUE] = Redialed(q2, d, w3)
    <3> HIDE DEF q2
    <3> QED BY <2>1, Zenon DEF Redialed
  <2> QED BY <2>2, RedialedTwice
<1> HIDE DEF q1, q2, w3
<1> QED BY <1>1, <1>2, <1>3, <1>4 DEF q3

\* A new call in DialogNewTransaction: its transaction, and two parts of its id.
WithTransaction(s, d, t) == [s EXCEPT !.dialog[d].transaction = t]
AsCaller(q, d, tag, call) ==
    [q EXCEPT !.dialog[d].id.local = tag, !.dialog[d].id.call = call]
AsCalled(q, d, tag, call) ==
    [q EXCEPT !.dialog[d].id.remote = tag, !.dialog[d].id.call = call]

\* The parts of its id, for the side of the call it is.
CallerId(id, tag, call) == [[id EXCEPT !.local = tag] EXCEPT !.call = call]
CalledId(id, tag, call) == [[id EXCEPT !.remote = tag] EXCEPT !.call = call]

LEMMA CalledDialog ==
    ASSUME NEW s \in Stacks, NEW d \in DOMAIN s.dialog, NEW t, NEW tag, NEW call
    PROVE  LET q == WithTransaction(s, d, t)
               id == s.dialog[d].id IN
           /\ AsCaller(q, d, tag, call) =
                Redialed(s, d, CallDialog(s.dialog[d], t, CallerId(id, tag, call)))
           /\ AsCalled(q, d, tag, call) =
                Redialed(s, d, CallDialog(s.dialog[d], t, CalledId(id, tag, call)))
<1> DEFINE q  == [s EXCEPT !.dialog[d].transaction = t]
           id == s.dialog[d].id
           w1 == [s.dialog[d] EXCEPT !.transaction = t]
           i1 == [id EXCEPT !.local = tag]
           i2 == [i1 EXCEPT !.call = call]
           j1 == [id EXCEPT !.remote = tag]
           j2 == [j1 EXCEPT !.call = call]
           q1 == Redialed(s, d, w1)
<1>1. q = q1
  BY Zenon DEF Redialed
<1>2. q1.dialog[d] = w1
  BY RedialedAt
<1>3. w1.id = id /\ w1 = [s.dialog[d] EXCEPT !.transaction = t]
  <2>1. s.dialog[d] \in DialogObjects
    BY Machines
  <2> QED BY <2>1 DEF DialogObjects
<1>4. ASSUME NEW i, NEW j
      PROVE  [[w1 EXCEPT !.id = i] EXCEPT !.id = j] = CallDialog(s.dialog[d], t, j)
  <2>1. s.dialog[d] \in DialogObjects
    BY Machines
  <2> QED BY <2>1 DEF DialogObjects, CallDialog
<1>5. \A i : [w1 EXCEPT !.id = i].id = i
  <2>1. s.dialog[d] \in DialogObjects
    BY Machines
  <2> QED BY <2>1 DEF DialogObjects
<1> HIDE DEF w1, q, id
<1>6. [q EXCEPT !.dialog[d].id.local = tag] = Redialed(q1, d, [w1 EXCEPT !.id = i1])
  <2> HIDE DEF q1
  <2> QED BY <1>1, <1>2, <1>3, Zenon DEF Redialed
<1>7. [q EXCEPT !.dialog[d].id.remote = tag] = Redialed(q1, d, [w1 EXCEPT !.id = j1])
  <2> HIDE DEF q1
  <2> QED BY <1>1, <1>2, <1>3, Zenon DEF Redialed
<1>8. ASSUME NEW i
      PROVE  [Redialed(q1, d, [w1 EXCEPT !.id = i]) EXCEPT !.dialog[d].id.call = call] =
               Redialed(s, d, CallDialog(s.dialog[d], t, [i EXCEPT !.call = call]))
  <2> DEFINE w2 == [w1 EXCEPT !.id = i]
             k  == [i EXCEPT !.call = call]
             q2 == Redialed(s, d, w2)
  <2>1. Redialed(q1, d, w2) = q2
    BY RedialedTwice
  <2>2. w2.id = i /\ [w2 EXCEPT !.id = k] = CallDialog(s.dialog[d], t, k)
    BY <1>4, <1>5
  <2> HIDE DEF w2, k
  <2>3. q2.dialog[d] = w2
    BY RedialedAt
  <2>4. [q2 EXCEPT !.dialog[d].id.call = call] = Redialed(q2, d, [w2 EXCEPT !.id = k])
    <3> HIDE DEF q2
    <3> QED BY <2>2, <2>3, Zenon DEF Redialed, k
  <2>5. Redialed(q2, d, [w2 EXCEPT !.id = k]) = Redialed(s, d, [w2 EXCEPT !.id = k])
    BY RedialedTwice
  <2> HIDE DEF q2
  <2> QED BY <2>1, <2>2, <2>4, <2>5 DEF w2, k
<1>9. [q EXCEPT !.dialog[d].id.local = tag, !.dialog[d].id.call = call] =
        Redialed(s, d, CallDialog(s.dialog[d], t, i2))
  BY <1>6, <1>8
<1>10. [q EXCEPT !.dialog[d].id.remote = tag, !.dialog[d].id.call = call] =
        Redialed(s, d, CallDialog(s.dialog[d], t, j2))
  BY <1>7, <1>8
<1> QED BY <1>9, <1>10 DEF q, id, WithTransaction, AsCaller, AsCalled, CallerId, CalledId

\* A change on top of a change.
LEMMA ChangedTwice ==
    ASSUME NEW s \in Stacks, NEW D, NEW L, NEW T, NEW W, NEW A, NEW N,
           NEW D1, NEW L1, NEW T1, NEW W1, NEW A1, NEW N1
    PROVE  Changed(Changed(s, D1, L1, T1, W1, A1, N1), D, L, T, W, A, N) =
             Changed(s, D, L, T, W, A, N)
BY DEF Changed, Stacks

\* Another dialog is a change.
LEMMA ChangedByDialog ==
    ASSUME NEW s \in Stacks, NEW d \in DOMAIN s.dialog, NEW w
    PROVE  Redialed(s, d, w) =
             Changed(s, [s.dialog EXCEPT ![d] = w], s.transactions, s.transaction,
                     s.wire, s.answers, s.told)
<1> DEFINE D == [s.dialog EXCEPT ![d] = w]
<1>1. Redialed(s, d, w) = [s EXCEPT !.dialog = D]
  BY RedialedAs
<1> HIDE DEF D
<1>2. [s EXCEPT !.dialog = D] =
        Changed(s, D, s.transactions, s.transaction, s.wire, s.answers, s.told)
  BY DEF Changed, Stacks
<1> QED BY <1>1, <1>2 DEF D

\* The dialogs of calls are dialogs.
LEMMA DialogTypes ==
    ASSUME NEW w \in DialogObjects, NEW id \in DialogIds
    PROVE  /\ AcceptedDialog(w, id) \in DialogObjects
           /\ AcceptedDialog(w, id).id = id /\ AcceptedDialog(w, id).state = "CONFIRMED"
           /\ AcceptedDialog(w, id).transaction = w.transaction
BY DEF AcceptedDialog, DialogObjects

\* A stack with another dialog and other machines is a stack.
LEMMA StillStack ==
    ASSUME NEW s \in Stacks, NEW d \in DOMAIN s.dialog, NEW w \in DialogObjects
    PROVE  /\ Redialed(s, d, w) \in Stacks
           /\ Redialed(s, d, w).transaction = s.transaction
           /\ Redialed(s, d, w).transactions = s.transactions
           /\ Redialed(s, d, w).wire = s.wire /\ Redialed(s, d, w).answers = s.answers
           /\ Redialed(s, d, w).told = s.told
<1> DEFINE D == [s.dialog EXCEPT ![d] = w]
           r == Changed(s, D, s.transactions, s.transaction, s.wire, s.answers, s.told)
<1>1. D \in Seq(DialogObjects)
  BY Machines
<1>2. Redialed(s, d, w) = r
  BY ChangedByDialog
<1> HIDE DEF D
<1>3. /\ s.transactions \in Seq(Nat) /\ s.transaction \in Seq(TransactionObjects)
      /\ s.wire \in SUBSET (Nat \X Sendings) /\ s.answers \in SUBSET (Nat \X SendEvents)
      /\ s.told \in Notices
  BY DEF Stacks
<1>4. r \in Stacks
  BY <1>1, <1>3, ChangedIsStack
<1>5. /\ r.transaction = s.transaction /\ r.transactions = s.transactions
      /\ r.wire = s.wire /\ r.answers = s.answers /\ r.told = s.told
  BY ChangedFields
<1> HIDE DEF r
<1> QED BY <1>2, <1>4, <1>5

\* A call that waits is accepted (Dialog.c:298-311).
LEMMA OkToCall ==
    ASSUME NEW s \in Stacks, NEW t \in Calls(s), t \in DOMAIN s.dialog,
           InList(s.transactions, t), s.dialog[t].transaction = t,
           s.dialog[t].state = "NON_EXIST",
           s.transaction[t].type = "SERVER_INVITE",
           s.transaction[t].state = "PROCEEDING",
           s.transaction[t].request.to = Nil
    PROVE  \E v, w : /\ StepOf(s.transaction[t], v, "TERMINATED", "SEND_OK")
                     /\ w = AcceptedDialog(s.dialog[t], [s.dialog[t].id EXCEPT !.local = t])
                     /\ DialogOk(s, t) =
                          Changed(s, [s.dialog EXCEPT ![t] = w],
                                  DelFromList(s.transactions, t),
                                  [s.transaction EXCEPT ![t] = v],
                                  s.wire \cup {<<t, "SEND_OK">>},
                                  s.answers \cup {<<t, "SEND_OK">>}, s.told)
<1> DEFINE id == [s.dialog[t].id EXCEPT !.local = t]
           w  == AcceptedDialog(s.dialog[t], id)
           q  == Redialed(s, t, w)
           D  == [s.dialog EXCEPT ![t] = w]
           L  == DelFromList(s.transactions, t)
           W  == s.wire \cup {<<t, "SEND_OK">>}
           A  == s.answers \cup {<<t, "SEND_OK">>}
<1>1. s.dialog[t] \in DialogObjects /\ t \in Nat /\ t # Null
  BY Machines DEF Calls, Null
<1>2. id \in DialogIds
  BY <1>1 DEF DialogObjects, DialogIds, Tags
<1> HIDE DEF id
<1>3. w \in DialogObjects
  BY <1>1, <1>2, DialogTypes
<1>4. [s EXCEPT !.dialog[t].id.local = t, !.dialog[t].state = "CONFIRMED",
                !.dialog[t].session = TRUE] = q
  BY OkDialog DEF id
<1>5. DialogOk(s, t) = ResponseWith(q, t, "SEND_OK")
  <2>1. ToTagOfOk(s, t) = t
    BY DEF ToTagOfOk
  <2>2. TransactionOf(s, t) = t /\ Dereferences(s, t)
    BY DEF TransactionOf, Dereferences
  <2> HIDE DEF q
  <2> QED BY <1>1, <1>4, <2>1, <2>2 DEF DialogOk
<1> HIDE DEF w
<1>6. /\ q \in Stacks /\ q.transaction = s.transaction /\ q.transactions = s.transactions
      /\ q.wire = s.wire /\ q.answers = s.answers /\ q.told = s.told
  BY <1>3, StillStack
<1>7. q = Changed(s, D, s.transactions, s.transaction, s.wire, s.answers, s.told)
  BY ChangedByDialog
<1>8. q.dialog = D
  BY <1>7, ChangedFields
<1> HIDE DEF q, D
<1>9. t \in Calls(q)
  BY <1>6 DEF Calls
<1> HIDE DEF L, W, A
<1>10. PICK v : /\ StepOf(s.transaction[t], v, "TERMINATED", "SEND_OK")
                /\ ResponseWith(q, t, "SEND_OK") =
                     Changed(q, D, L, [s.transaction EXCEPT ![t] = v], W, A, s.told)
  BY <1>6, <1>8, <1>9, Responds DEF L, W, A
<1>11. ResponseWith(q, t, "SEND_OK") =
         Changed(s, D, L, [s.transaction EXCEPT ![t] = v], W, A, s.told)
  BY <1>7, <1>10, ChangedTwice
<1> QED BY <1>5, <1>10, <1>11 DEF D, L, W, A, w, id

\* A response to an INVITE reaches the dialog of its call (Dialog.c:170, :184).
LEMMA Dispatched ==
    ASSUME NEW q, NEW d, d # Null, InList(q.dialogs, d),
           InList(q.transactions, q.dialog[d].transaction),
           q.transaction[q.dialog[d].transaction].request.method = "INVITE", NEW m
    PROVE  /\ OnTransactionEvent(q, d, "1XX", m) = NotifyCm(q, "CALL_REMOTE_RINGING", d)
           /\ OnTransactionEvent(q, d, "2XX", m) = DialogReceiveOk(q, d, m)
<1>1. TransactionOf(q, d) = q.dialog[d].transaction /\ Dereferences(q, d)
  BY DEF TransactionOf, Dereferences
<1>2. \A event : OnTransactionEvent(q, d, event, m) = HandleInviteEvent(q, d, event, m)
  BY <1>1 DEF OnTransactionEvent
<1>3. HandleInviteEvent(q, d, "1XX", m) = DialogReceiveRinging(q, d)
  BY DEF HandleInviteEvent
<1>4. HandleInviteEvent(q, d, "2XX", m) = DialogReceiveOk(q, d, m)
  BY DEF HandleInviteEvent
<1> QED BY <1>2, <1>3, <1>4 DEF DialogReceiveRinging

\* A response that is not final: from the second on the client is told
\* (Transaction.c:478).
LEMMA HearsRinging ==
    ASSUME NEW s \in Stacks, NEW t \in Calls(s), InList(s.dialogs, t),
           InList(s.transactions, t), s.dialog[t].transaction = t,
           s.transaction[t].type = "CLIENT_INVITE",
           s.transaction[t].state \in {"CALLING", "PROCEEDING"},
           s.transaction[t].request.method = "INVITE",
           s.transaction[t].user = t, NEW m
    PROVE  \E v, N :
             /\ StepOf(s.transaction[t], v, "PROCEEDING", s.transaction[t].latest)
             /\ \/ N = s.told
                \/ N = [event |-> "CALL_REMOTE_RINGING", ua |-> t,
                        position |-> GetUaPosition(s, t)]
             /\ RunFsm(s, t, "1XX", m) =
                  Changed(s, s.dialog, s.transactions, [s.transaction EXCEPT ![t] = v],
                          s.wire, s.answers, N)
<1> DEFINE v  == [s.transaction[t] EXCEPT !.state = "PROCEEDING"]
           T  == [s.transaction EXCEPT ![t] = v]
           q  == Changed(s, s.dialog, s.transactions, T, s.wire, s.answers, s.told)
           n  == [event |-> "CALL_REMOTE_RINGING", ua |-> t, position |-> GetUaPosition(s, t)]
           q1 == Changed(s, s.dialog, s.transactions, T, s.wire, s.answers, n)
<1>1. "PROCEEDING" \in TransactionStates /\ t # Null
  BY Machines DEF TransactionStates, Calls, Null
<1>2. StepOf(s.transaction[t], v, "PROCEEDING", s.transaction[t].latest)
        /\ Moves(s, t, "PROCEEDING") = q /\ T[t] = v
  BY <1>1, MovesCall
<1> HIDE DEF v, T
<1>3. /\ q.transaction = T /\ q.dialogs = s.dialogs /\ q.dialog = s.dialog
      /\ q.transactions = s.transactions /\ q1.transaction = T
  BY ChangedFields
<1>4. T[t].state = "PROCEEDING" /\ T[t].request.method = "INVITE"
  BY <1>2 DEF StepOf
<1>5. NotifyCm(q, "CALL_REMOTE_RINGING", t) = q1
  BY ChangedByTelling
<1> HIDE DEF q, q1
<1>6. OnTransactionEvent(q, t, "1XX", m) = q1
  BY <1>1, <1>3, <1>4, <1>5, Dispatched
<1>7. RemoveTerminatedTransaction(q, t) = q /\ RemoveTerminatedTransaction(q1, t) = q1
  BY <1>3, <1>4 DEF RemoveTerminatedTransaction
<1>8. Advance(s, t, "1XX") = q
  BY <1>2, Advances
<1>9. CASE Informs(s, t, "1XX")
  <2>1. RunFsm(s, t, "1XX", m) = q1
    BY <1>6, <1>7, <1>8, <1>9 DEF RunFsm
  <2> QED BY <1>2, <2>1 DEF q1, T, n
<1>10. CASE ~Informs(s, t, "1XX")
  <2>1. RunFsm(s, t, "1XX", m) = q
    BY <1>7, <1>8, <1>10 DEF RunFsm
  <2> QED BY <1>2, <2>1 DEF q, T
<1> QED BY <1>9, <1>10

\* The 200 to our INVITE: the call is established with the tag of the 200, the
\* 200 is acknowledged and the client told (Dialog.c:157-184).
LEMMA HearsOk ==
    ASSUME NEW s \in Stacks, NEW t \in Calls(s), InList(s.dialogs, t), t \in DOMAIN s.dialog,
           InList(s.transactions, t), s.dialog[t].transaction = t,
           s.transaction[t].type = "CLIENT_INVITE",
           s.transaction[t].state \in {"CALLING", "PROCEEDING"},
           s.transaction[t].request.method = "INVITE",
           s.transaction[t].user = t,
           NEW m, m.call \in Tags, m.from \in Tags, m.to \in Tags
    PROVE  \E v, w :
             /\ StepOf(s.transaction[t], v, "TERMINATED", s.transaction[t].latest)
             /\ w = AcceptedDialog(s.dialog[t],
                                   [call |-> m.call, local |-> m.from, remote |-> m.to])
             /\ RunFsm(s, t, "2XX", m) =
                  Changed(s, [s.dialog EXCEPT ![t] = w], DelFromList(s.transactions, t),
                          [s.transaction EXCEPT ![t] = v],
                          s.wire \cup {<<t, "ACK">>}, s.answers,
                          [event |-> "CALL_ESTABLISHED", ua |-> t,
                           position |-> GetUaPosition(s, t)])
<1> DEFINE v  == [s.transaction[t] EXCEPT !.state = "TERMINATED"]
           T  == [s.transaction EXCEPT ![t] = v]
           id == [call |-> m.call, local |-> m.from, remote |-> m.to]
           w  == AcceptedDialog(s.dialog[t], id)
           D  == [s.dialog EXCEPT ![t] = w]
           W  == s.wire \cup {<<t, "ACK">>}
           n  == [event |-> "CALL_ESTABLISHED", ua |-> t, position |-> GetUaPosition(s, t)]
           q  == Changed(s, s.dialog, s.transactions, T, s.wire, s.answers, s.told)
           q1 == Redialed(q, t, w)
           q2 == Changed(s, D, s.transactions, T, W, s.answers, s.told)
           q3 == Changed(s, D, s.transactions, T, W, s.answers, n)
           q4 == Changed(s, D, DelFromList(s.transactions, t), T, W, s.answers, n)
<1>1. "TERMINATED" \in TransactionStates /\ t # Null /\ s.dialog[t] \in DialogObjects
  BY Machines DEF TransactionStates, Calls, Null
<1>2. StepOf(s.transaction[t], v, "TERMINATED", s.transaction[t].latest)
        /\ Moves(s, t, "TERMINATED") = q /\ T[t] = v
  BY <1>1, MovesCall
<1>3. id \in DialogIds
  BY DEF DialogIds
<1> HIDE DEF v, id
<1>4. w \in DialogObjects /\ w.transaction = t
  BY <1>1, <1>3, DialogTypes
<1> HIDE DEF w
<1>5. T \in Seq(TransactionObjects) /\ T[t] = v
  <2>1. v \in TransactionObjects
    BY <1>2 DEF StepOf
  <2>2. s.transaction \in Seq(TransactionObjects) /\ t \in 1 .. Len(s.transaction)
    BY Machines DEF Calls
  <2> QED BY <2>1, <2>2
<1> HIDE DEF T
<1>6. q \in Stacks
  <2>1. /\ s.dialog \in Seq(DialogObjects) /\ s.transactions \in Seq(Nat)
        /\ s.wire \in SUBSET (Nat \X Sendings) /\ s.answers \in SUBSET (Nat \X SendEvents)
        /\ s.told \in Notices
    BY DEF Stacks
  <2> QED BY <1>5, <2>1, ChangedIsStack
<1>7. /\ q.transaction = T /\ q.dialogs = s.dialogs /\ q.dialog = s.dialog
      /\ q.transactions = s.transactions /\ q.wire = s.wire /\ q.answers = s.answers
      /\ q.told = s.told
  BY ChangedFields
<1>8. T[t].state = "TERMINATED" /\ T[t].request.method = "INVITE"
  BY <1>2, <1>5 DEF StepOf
<1>9. [q EXCEPT !.dialog[t].id = id, !.dialog[t].state = "CONFIRMED",
                !.dialog[t].session = TRUE] = q1
  <2> HIDE DEF q
  <2>1. t \in DOMAIN q.dialog /\ q.dialog[t] = s.dialog[t]
    BY <1>7
  <2>2. [q EXCEPT !.dialog[t].id = id, !.dialog[t].state = "CONFIRMED",
                  !.dialog[t].session = TRUE] =
          Redialed(q, t, AcceptedDialog(q.dialog[t], id))
    BY <1>6, <2>1, EstablishedDialog, ZenonT(30)
  <2> QED BY <2>1, <2>2 DEF w
<1>10. q1 = Changed(s, D, s.transactions, T, s.wire, s.answers, s.told)
  <2>1. q1 = Changed(q, D, s.transactions, T, s.wire, s.answers, s.told)
    <3> HIDE DEF q
    <3> QED BY <1>6, <1>7, ChangedByDialog
  <2> HIDE DEF D, q1
  <2> QED BY <2>1, ChangedTwice
<1> HIDE DEF D
<1>11. q1.dialog = D /\ q1.transactions = s.transactions
  <2> HIDE DEF q1
  <2> QED BY <1>10, ChangedFields
<1>12. DialogAck(q1, t) = q2
  <2>1. TransactionOf(q1, t) = t
    BY <1>1, <1>4, <1>11, Machines DEF TransactionOf, D
  <2>2. SendMessage(q1, t, "ACK") = q2
    <3> HIDE DEF q1
    <3> QED BY <1>10, ChangedBySending DEF W
  <2> HIDE DEF q1, q2
  <2> QED BY <2>1, <2>2 DEF DialogAck
<1> HIDE DEF W
<1>13. NotifyCm(q2, "CALL_ESTABLISHED", t) = q3
  BY ChangedByTelling DEF n
<1>14. DialogReceiveOk(q, t, m) = q3
  <2> HIDE DEF q, q1, q2, q3
  <2> QED BY <1>9, <1>12, <1>13 DEF DialogReceiveOk, id
<1>15. RemoveTerminatedTransaction(q3, t) = q4
  <2>1. RemoveTerminatedTransaction(q3, t) =
          Changed(s, D, IF T[t].state = "TERMINATED"
                        THEN DelFromList(s.transactions, t) ELSE s.transactions,
                  T, W, s.answers, n)
    <3> HIDE DEF n
    <3> QED BY ChangedByRemoving
  <2> QED BY <1>8, <2>1
<1> HIDE DEF q, q1, q2, q3, q4
<1>16. OnTransactionEvent(q, t, "2XX", m) = q3
  BY <1>1, <1>7, <1>8, <1>14, Dispatched
<1>17. Advance(s, t, "2XX") = q /\ Informs(s, t, "2XX")
  BY <1>2, Advances
<1>18. RunFsm(s, t, "2XX", m) = q4
  BY <1>15, <1>16, <1>17 DEF RunFsm
<1> QED BY <1>2, <1>18 DEF q4, D, T, W, n, w, id

-----------------------------------------------------------------------------
(* A turn of one phone *)

\* A phone at the start of a turn.
Ready(s) == Well(s) /\ s.wire = {} /\ s.told = NoEvent

\* What r has kept of call t of s.
Kept(s, r, t) ==
    /\ t \in Calls(r)
    /\ r.transaction[t].type = s.transaction[t].type
    /\ r.transaction[t].request = s.transaction[t].request
    /\ Took(s, t) => Took(r, t)
    /\ s.transaction[t].state = "TERMINATED" => r.transaction[t].state = "TERMINATED"

\* What a phone sends is of one of its calls, in the state that has it sent.
Sendable(r, t, what) ==
    /\ t \in Calls(r)
    /\ \/ what \in {"request", "ACK"} /\ r.transaction[t].type = "CLIENT_INVITE"
          /\ (what = "ACK" => r.transaction[t].state = "TERMINATED")
       \/ what \in {"SEND_TRYING", "SEND_RINGING"}
          /\ r.transaction[t].type = "SERVER_INVITE"
       \/ what = "SEND_OK" /\ Took(r, t)

\* A turn has made r of s; pairs are the calls established in it, with the tag.
Turned(s, r, pairs) ==
    /\ Well(r)
    /\ \A t \in Calls(s) : Kept(s, r, t)
    /\ \A sent \in r.wire : Sendable(r, sent[1], sent[2])
    /\ r.told \in Notices /\ Told(r, r.told.event, r.told.ua)
    /\ r.told # NoEvent => r.told.ua \in Calls(r)
    /\ \A k, j \in Numbers : Got(r, k, j) => Got(s, k, j) \/ <<k, j>> \in pairs

\* What Well says of a phone, and of one of its calls.
LEMMA WellParts ==
    ASSUME NEW s, Well(s)
    PROVE  /\ s \in Stacks /\ s.dialog \in Seq(DialogObjects)
           /\ s.transactions \in Seq(Nat) /\ s.transaction \in Seq(TransactionObjects)
           /\ s.wire \in SUBSET (Nat \X Sendings)
           /\ s.answers \in SUBSET (Nat \X SendEvents)
           /\ s.told \in Notices /\ s.fault = "none"
           /\ Calls(s) = DOMAIN s.transaction /\ Calls(s) = DOMAIN s.dialog
           /\ Calls(s) \in SUBSET Numbers /\ Numbers \in SUBSET Nat
           /\ Null \notin Calls(s) /\ Len(s.transaction) \in Nat
<1>1. s \in Stacks /\ Len(s.transaction) <= MaxTransactions /\ Listed(s)
  BY DEF Well
<1>2. /\ s.dialog \in Seq(DialogObjects)
      /\ s.transactions \in Seq(Nat) /\ s.transaction \in Seq(TransactionObjects)
      /\ s.wire \in SUBSET (Nat \X Sendings)
      /\ s.answers \in SUBSET (Nat \X SendEvents)
      /\ s.told \in Notices /\ s.fault = "none"
  BY <1>1 DEF Stacks
<1>3. Len(s.dialog) = Len(s.transaction)
  BY <1>1 DEF Listed
<1>4. Calls(s) = DOMAIN s.transaction /\ Calls(s) = DOMAIN s.dialog
  BY <1>2, <1>3 DEF Calls
<1>5. Calls(s) \in SUBSET Numbers /\ Numbers \in SUBSET Nat /\ Null \notin Calls(s)
        /\ Len(s.transaction) \in Nat
  BY <1>1, <1>2, PhonesAssumption DEF Calls, Numbers, Null
<1> QED BY <1>1, <1>2, <1>4, <1>5

LEMMA WellCall ==
    ASSUME NEW s, Well(s), NEW t \in Calls(s)
    PROVE  /\ s.transaction[t] \in TransactionObjects /\ s.dialog[t] \in DialogObjects
           /\ s.transaction[t].user = t /\ s.dialog[t].transaction = t
           /\ s.transaction[t].state # "TERMINATED" => InList(s.transactions, t)
           /\ InList(s.transactions, t) => s.transaction[t].state # "TERMINATED"
           /\ InList(s.dialogs, t) /\ IsCall(s, t) /\ t # Null /\ t \in Nat
<1>1. Listed(s) /\ IsCall(s, t)
  BY DEF Well
<1>2. s.transaction[t] \in TransactionObjects /\ s.dialog[t] \in DialogObjects
        /\ t # Null /\ t \in Nat
  BY WellParts
<1>3. InList(s.dialogs, t)
  BY PositionOfCall
<1> QED BY <1>1, <1>2, <1>3 DEF Listed

\* What one call is depends on its own parts only.
LEMMA SameCall ==
    ASSUME NEW s, NEW r, NEW t, r.transaction[t] = s.transaction[t],
           r.dialog[t] = s.dialog[t], Took(r, t) <=> Took(s, t)
    PROVE  IsCall(s, t) => IsCall(r, t)
<1>1. Outgoing(s, t) => Outgoing(r, t)
  BY DEF Outgoing
<1>2. \A k : Incoming(s, t, k) => Incoming(r, t, k)
  BY DEF Incoming
<1> QED BY <1>1, <1>2 DEF IsCall

\* The list of transactions after a step of one of them.
Relisted(s, t, state) ==
    IF state = "TERMINATED" THEN DelFromList(s.transactions, t) ELSE s.transactions

\* The stack in which only call t has moved.
OneMoved(s, t, state, v, w, W, A, N) ==
    Changed(s, [s.dialog EXCEPT ![t] = w], Relisted(s, t, state),
            [s.transaction EXCEPT ![t] = v], W, A, N)

LEMMA RelistedLists ==
    ASSUME NEW s, Well(s), NEW t \in Calls(s), InList(s.transactions, t), NEW state
    PROVE  LET L == Relisted(s, t, state) IN
           /\ L \in Seq(Nat) /\ NoTwice(L)
           /\ \A i \in DOMAIN L : L[i] \in Calls(s)
           /\ \A u \in Calls(s) :
                InList(L, u) <=> IF u = t THEN state # "TERMINATED"
                                 ELSE s.transaction[u].state # "TERMINATED"
<1> DEFINE L == Relisted(s, t, state)
<1>1. /\ s.transactions \in Seq(Nat) /\ NoTwice(s.transactions)
      /\ \A i \in DOMAIN s.transactions : s.transactions[i] \in Calls(s)
      /\ \A u \in Calls(s) :
           InList(s.transactions, u) <=> s.transaction[u].state # "TERMINATED"
  BY WellParts DEF Well, Listed
<1>2. CASE state = "TERMINATED"
  <2>1. L = DelFromList(s.transactions, t)
    BY <1>2 DEF Relisted
  <2> HIDE DEF L
  <2>2. /\ L \in Seq(Nat) /\ NoTwice(L)
        /\ \A i \in DOMAIN L : \E j \in DOMAIN s.transactions : L[i] = s.transactions[j]
        /\ \A m : InList(L, m) <=> InList(s.transactions, m) /\ m # t
    BY <1>1, <2>1, Unlisted
  <2> QED BY <1>1, <1>2, <2>2 DEF L
<1>3. CASE state # "TERMINATED"
  <2>1. L = s.transactions
    BY <1>3 DEF Relisted
  <2> HIDE DEF L
  <2> QED BY <1>1, <1>3, <2>1 DEF L
<1> QED BY <1>2, <1>3

\* A turn that moves one call that is not over makes a phone that is well, if
\* the call is still one, what is sent and told is of it, and the tag it got is
\* that of a pair.
LEMMA OneCallTurns ==
    ASSUME NEW s, Ready(s), NEW t \in Calls(s), InList(s.transactions, t),
           NEW state, NEW latest, NEW v, StepOf(s.transaction[t], v, state, latest),
           NEW w \in DialogObjects, w.transaction = t,
           NEW what \in Sendings, NEW W, W \in {{}, {<<t, what>>}},
           NEW A, A \in {s.answers, s.answers \cup {<<t, "SEND_OK">>}},
           NEW N \in Notices, N.event # "none" => N.ua = t, N.event = "none" => N = NoEvent,
           NEW r, r = OneMoved(s, t, state, v, w, W, A, N),
           IsCall(r, t), Sendable(r, t, what), Told(r, N.event, t),
           NEW pairs, \A j \in Numbers : Got(r, t, j) => <<t, j>> \in pairs
    PROVE  Turned(s, r, pairs)
<1> DEFINE D == [s.dialog EXCEPT ![t] = w]
           L == Relisted(s, t, state)
           T == [s.transaction EXCEPT ![t] = v]
<1>1. Well(s) /\ s.wire = {} /\ s.told = NoEvent
  BY DEF Ready
<1>2. /\ s \in Stacks /\ s.dialog \in Seq(DialogObjects)
      /\ s.transaction \in Seq(TransactionObjects)
      /\ s.answers \in SUBSET (Nat \X SendEvents)
      /\ Calls(s) = DOMAIN s.transaction /\ Calls(s) = DOMAIN s.dialog
      /\ Calls(s) \in SUBSET Nat
  BY <1>1, WellParts
<1>3. v.state = state /\ v.type = s.transaction[t].type
        /\ v.request = s.transaction[t].request /\ v.user = t
  BY <1>1, WellCall DEF StepOf
<1>20. v \in TransactionObjects
  BY DEF StepOf
<1>4. /\ D \in Seq(DialogObjects) /\ Len(D) = Len(s.dialog) /\ D[t] = w
      /\ \A u \in Calls(s) : u # t => D[u] = s.dialog[u]
  BY <1>2
<1>5. /\ T \in Seq(TransactionObjects) /\ Len(T) = Len(s.transaction) /\ T[t] = v
      /\ \A u \in Calls(s) : u # t => T[u] = s.transaction[u]
  <2>1. t \in 1 .. Len(s.transaction) /\ Calls(s) = 1 .. Len(s.transaction)
    BY DEF Calls
  <2> QED BY <1>2, <1>20, <2>1, Replaced
<1>6. /\ L \in Seq(Nat) /\ NoTwice(L)
      /\ \A i \in DOMAIN L : L[i] \in Calls(s)
      /\ \A u \in Calls(s) :
           InList(L, u) <=> IF u = t THEN state # "TERMINATED"
                            ELSE s.transaction[u].state # "TERMINATED"
  BY <1>1, RelistedLists
<1>7. W \in SUBSET (Nat \X Sendings) /\ A \in SUBSET (Nat \X SendEvents)
  <2>1. t \in Nat /\ "SEND_OK" \in SendEvents
    BY <1>2 DEF SendEvents
  <2> QED BY <1>2, <2>1
<1> HIDE DEF D, L, T
<1>8. r = Changed(s, D, L, T, W, A, N)
  BY DEF D, L, T, OneMoved
<1>9. r \in Stacks
  <2>1. D \in Seq(DialogObjects) /\ L \in Seq(Nat) /\ T \in Seq(TransactionObjects)
    BY <1>4, <1>5, <1>6
  <2>2. Changed(s, D, L, T, W, A, N) \in Stacks
    BY <1>2, <1>7, <2>1, ChangedIsStack
  <2> QED BY <1>8, <2>2
<1>10. /\ r.dialog = D /\ r.transactions = L /\ r.transaction = T
       /\ r.wire = W /\ r.answers = A /\ r.told = N
       /\ r.uas = s.uas /\ r.account = s.account /\ r.dialogs = s.dialogs
  BY <1>2, <1>8, ChangedFields
<1>11. Calls(r) = Calls(s)
  BY <1>5, <1>10 DEF Calls
<1>12. \A u \in Calls(s) : u # t =>
          /\ r.transaction[u] = s.transaction[u] /\ r.dialog[u] = s.dialog[u]
          /\ Took(r, u) <=> Took(s, u)
  BY <1>4, <1>5, <1>10 DEF Took
<1>13. Took(s, t) => Took(r, t)
  BY <1>10 DEF Took
<1>14. Well(r)
  <2>1. Listed(s) /\ Len(s.transaction) <= MaxTransactions
    BY <1>1 DEF Well
  <2>2. \A u \in Calls(r) : r.transaction[u].user = u /\ r.dialog[u].transaction = u
    <3>1. \A u \in Calls(s) : s.transaction[u].user = u /\ s.dialog[u].transaction = u
      BY <2>1 DEF Listed
    <3>2. r.transaction[t].user = t /\ r.dialog[t].transaction = t
      BY <1>3, <1>4, <1>5, <1>10
    <3> QED BY <1>11, <1>12, <3>1, <3>2
  <2>3. \A u \in Calls(r) :
          InList(r.transactions, u) <=> r.transaction[u].state # "TERMINATED"
    <3>1. r.transaction[t].state = state /\ r.transactions = L
      BY <1>3, <1>5, <1>10
    <3>2. InList(L, t) <=> state # "TERMINATED"
      BY <1>6
    <3>3. \A u \in Calls(s) : u # t =>
            (InList(L, u) <=> r.transaction[u].state # "TERMINATED")
      BY <1>6, <1>12
    <3> QED BY <1>11, <3>1, <3>2, <3>3
  <2>4. \A a \in r.answers : a[1] \in Calls(r)
    BY <1>10, <1>11, <2>1 DEF Listed
  <2>7. Len(r.transaction) = Len(s.transaction) /\ Len(r.dialog) = Len(s.dialog)
    BY <1>4, <1>5, <1>10
  <2>8. /\ Len(r.account) = Len(r.transaction) /\ Len(r.dialog) = Len(r.transaction)
        /\ Lined(r.uas, Len(r.transaction)) /\ Lined(r.dialogs, Len(r.transaction))
    BY <1>10, <2>1, <2>7 DEF Listed
  <2>9. /\ NoTwice(r.transactions)
        /\ \A i \in DOMAIN r.transactions : r.transactions[i] \in Calls(r)
    BY <1>6, <1>10, <1>11
  <2>5. Listed(r)
    BY <2>2, <2>3, <2>4, <2>8, <2>9 DEF Listed
  <2>6. \A u \in Calls(r) : IsCall(r, u)
    <3> SUFFICES ASSUME NEW u \in Calls(r), u # t PROVE IsCall(r, u)
      OBVIOUS
    <3>1. IsCall(s, u)
      BY <1>1, <1>11 DEF Well
    <3> QED BY <1>11, <1>12, <3>1, SameCall
  <2> QED BY <1>5, <1>9, <1>10, <2>1, <2>5, <2>6 DEF Well
<1>15. \A u \in Calls(s) : Kept(s, r, u)
  <2>1. Kept(s, r, t)
    <3>1. s.transaction[t].state # "TERMINATED"
      BY <1>1, WellCall
    <3> QED BY <1>3, <1>5, <1>10, <1>11, <1>13, <3>1 DEF Kept
  <2>2. \A u \in Calls(s) : u # t => Kept(s, r, u)
    BY <1>11, <1>12 DEF Kept
  <2> QED BY <2>1, <2>2
<1>16. \A sent \in r.wire : Sendable(r, sent[1], sent[2])
  BY <1>10
<1>17. r.told \in Notices /\ Told(r, r.told.event, r.told.ua)
  <2>1. CASE N.event = "none"
    BY <1>10, <2>1 DEF Told
  <2>2. CASE N.event # "none"
    BY <1>10, <2>2
  <2> QED BY <2>1, <2>2
<1>18. r.told # NoEvent => r.told.ua \in Calls(r)
  BY <1>10, <1>11
<1>19. \A k, j \in Numbers : Got(r, k, j) => Got(s, k, j) \/ <<k, j>> \in pairs
  <2> SUFFICES ASSUME NEW k \in Numbers, NEW j \in Numbers, Got(r, k, j), k # t
               PROVE  Got(s, k, j)
    OBVIOUS
  <2>1. k \in Calls(s)
    BY <1>11 DEF Got
  <2> QED BY <1>12, <2>1 DEF Got
<1> QED BY <1>14, <1>15, <1>16, <1>17, <1>18, <1>19 DEF Turned

\* The parts of the call that moved.
LEMMA OneCallParts ==
    ASSUME NEW s, Well(s), NEW t \in Calls(s), NEW state, NEW v, NEW w, NEW W, NEW A,
           NEW N, NEW r, r = OneMoved(s, t, state, v, w, W, A, N)
    PROVE  /\ r.transaction[t] = v /\ r.dialog[t] = w /\ r.answers = A
           /\ Calls(r) = Calls(s)
<1> DEFINE D == [s.dialog EXCEPT ![t] = w]
           L == Relisted(s, t, state)
           T == [s.transaction EXCEPT ![t] = v]
<1>1. /\ s \in Stacks /\ s.dialog \in Seq(DialogObjects)
      /\ s.transaction \in Seq(TransactionObjects)
      /\ t \in DOMAIN s.transaction /\ t \in DOMAIN s.dialog
  BY WellParts
<1>2. D[t] = w /\ T[t] = v /\ Len(T) = Len(s.transaction)
  BY <1>1
<1> HIDE DEF D, L, T
<1>3. r = Changed(s, D, L, T, W, A, N)
  BY DEF D, L, T, OneMoved
<1>4. r.dialog = D /\ r.transaction = T /\ r.answers = A
  BY <1>1, <1>3, ChangedFields
<1> QED BY <1>2, <1>4 DEF Calls

\* A call whose dialog stays as it is, and whose transaction stays listed.
LEMMA SameParts ==
    ASSUME NEW s, Well(s), NEW t \in Calls(s)
    PROVE  /\ [s.dialog EXCEPT ![t] = s.dialog[t]] = s.dialog
           /\ Relisted(s, t, "PROCEEDING") = s.transactions
           /\ Relisted(s, t, "TERMINATED") = DelFromList(s.transactions, t)
           /\ NoEvent \in Notices /\ NoEvent.event = "none"
           /\ \A r : Told(r, NoEvent.event, t)
<1>1. s.dialog \in Seq(DialogObjects)
  BY WellParts
<1>2. [s.dialog EXCEPT ![t] = s.dialog[t]] = s.dialog
  BY <1>1
<1>3. NoEvent \in Notices /\ NoEvent.event = "none"
  BY DEF NoEvent, Notices, Null
<1>4. \A r : Told(r, NoEvent.event, t)
  BY <1>3 DEF Told
<1> QED BY <1>2, <1>3, <1>4 DEF Relisted

\* A call that waits for an answer.
Waiting(s, t) ==
    /\ t \in Calls(s) /\ s.transaction[t].type = "SERVER_INVITE"
    /\ s.transaction[t].state = "PROCEEDING"

LEMMA WaitingCall ==
    ASSUME NEW s, Well(s), NEW t, Waiting(s, t)
    PROVE  /\ t \in Calls(s) /\ InList(s.transactions, t)
           /\ s.transaction[t].latest \in {"SEND_TRYING", "SEND_RINGING"}
           /\ s.dialog[t].state = "NON_EXIST" /\ ~Took(s, t)
           /\ \E k \in Numbers :
                /\ s.transaction[t].request = InInvite(k)
                /\ s.dialog[t].id = [call |-> Theirs(k), local |-> Nil, remote |-> Theirs(k)]
<1>1. t \in Calls(s) /\ s.transaction[t].type = "SERVER_INVITE"
        /\ s.transaction[t].state = "PROCEEDING"
  BY DEF Waiting
<1>2. IsCall(s, t) /\ InList(s.transactions, t) /\ s.dialog[t] \in DialogObjects
  BY <1>1, WellCall
<1>3. PICK k \in Numbers : Incoming(s, t, k)
  BY <1>1, <1>2 DEF IsCall, Outgoing
<1>4. s.dialog[t].id \in DialogIds
  BY <1>2 DEF DialogObjects
<1>5. s.dialog[t].id.call = Theirs(k) /\ s.dialog[t].id.remote = Theirs(k)
        /\ s.dialog[t].id.local = Nil
  BY <1>1, <1>3 DEF Incoming
<1>6. s.dialog[t].id = [call |-> Theirs(k), local |-> Nil, remote |-> Theirs(k)]
  BY <1>4, <1>5 DEF DialogIds
<1> QED BY <1>1, <1>2, <1>3, <1>6 DEF Incoming

\* It stays one with another latest response.
LEMMA StillWaiting ==
    ASSUME NEW s, Well(s), NEW t, Waiting(s, t), NEW r,
           NEW latest \in {"SEND_TRYING", "SEND_RINGING"},
           StepOf(s.transaction[t], r.transaction[t], "PROCEEDING", latest),
           r.dialog[t] = s.dialog[t], r.answers = s.answers
    PROVE  IsCall(r, t)
<1>1. PICK k \in Numbers :
        /\ s.transaction[t].request = InInvite(k)
        /\ s.dialog[t].id = [call |-> Theirs(k), local |-> Nil, remote |-> Theirs(k)]
  BY WaitingCall
<1>2. s.dialog[t].state = "NON_EXIST" /\ ~Took(s, t)
  BY WaitingCall
<1>3. /\ r.transaction[t].type = "SERVER_INVITE"
      /\ r.transaction[t].request = InInvite(k)
      /\ r.transaction[t].state = "PROCEEDING" /\ r.transaction[t].latest = latest
  BY <1>1 DEF StepOf, Waiting
<1>4. r.dialog[t].id.call = Theirs(k) /\ r.dialog[t].id.remote = Theirs(k)
        /\ r.dialog[t].id.local = Nil
  BY <1>1
<1>5. ~Took(r, t)
  BY <1>2 DEF Took
<1>6. Incoming(r, t, k)
  BY <1>2, <1>3, <1>4, <1>5 DEF Incoming
<1> QED BY <1>6 DEF IsCall

\* A copy of the INVITE of a call that waits is answered again, and nothing else
\* changes.
LEMMA CopyTurns ==
    ASSUME NEW s, Ready(s), NEW t, Waiting(s, t)
    PROVE  Turned(s, RunQuietly(s, t, "INVITE"), {})
<1> DEFINE x == s.transaction[t].latest
           r == RunQuietly(s, t, "INVITE")
           W == {<<t, x>>}
           w == s.dialog[t]
<1>1. Well(s) /\ s.wire = {} /\ s.told = NoEvent
  BY DEF Ready
<1>2. t \in Calls(s) /\ InList(s.transactions, t) /\ x \in {"SEND_TRYING", "SEND_RINGING"}
        /\ s.transaction[t].type = "SERVER_INVITE"
        /\ s.transaction[t].state = "PROCEEDING"
  BY <1>1, WaitingCall DEF Waiting
<1> HIDE DEF x
<1>3. s \in Stacks /\ w \in DialogObjects /\ w.transaction = t /\ s.dialog[t].transaction = t
  BY <1>1, <1>2, WellParts, WellCall
<1>4. PICK v : /\ StepOf(s.transaction[t], v, "PROCEEDING", x)
               /\ r = Changed(s, s.dialog, s.transactions,
                              [s.transaction EXCEPT ![t] = v],
                              s.wire \cup {<<t, x>>}, s.answers, s.told)
  BY <1>2, <1>3, Resends DEF x
<1> HIDE DEF r
<1>5. s.wire \cup {<<t, x>>} = W
  BY <1>1
<1> HIDE DEF W, w
<1>6. r = OneMoved(s, t, "PROCEEDING", v, w, W, s.answers, NoEvent)
  BY <1>1, <1>2, <1>4, <1>5, SameParts DEF w, OneMoved
<1>7. r.transaction[t] = v /\ r.dialog[t] = w /\ r.answers = s.answers
        /\ Calls(r) = Calls(s)
  BY <1>1, <1>2, <1>6, OneCallParts
<1>8. IsCall(r, t)
  BY <1>1, <1>2, <1>4, <1>7, StillWaiting DEF w
<1>9. r.transaction[t].type = "SERVER_INVITE"
  BY <1>2, <1>4, <1>7 DEF StepOf
<1>10. Sendable(r, t, x)
  BY <1>2, <1>7, <1>9 DEF Sendable
<1>11. \A j \in Numbers : Got(r, t, j) => <<t, j>> \in {}
  BY <1>9 DEF Got
<1>12. x \in Sendings /\ W \in {{}, {<<t, x>>}}
  BY <1>2 DEF Sendings, SendEvents, W
<1>13. NoEvent \in Notices /\ NoEvent.event = "none" /\ Told(r, NoEvent.event, t)
  BY <1>1, <1>2, SameParts
<1>14. Turned(s, r, {})
  BY <1>2, <1>3, <1>4, <1>6, <1>8, <1>10, <1>11, <1>12, <1>13, OneCallTurns, ZenonT(30)
<1> QED BY <1>14 DEF r

\* The position of a call leads to its dialog and to its transaction.
LEMMA CallAtPosition ==
    ASSUME NEW s, Well(s), NEW t \in Calls(s), InList(s.transactions, t)
    PROVE  /\ Ringing(s, t - 1) = ResponseWith(s, t, "SEND_RINGING")
           /\ AcceptCall(s, t - 1) = DialogOk(s, t)
<1>1. GetDialogByUa(s, GetUa(s, t - 1)) = t
  BY PositionOfCall
<1>2. t # Null /\ s.dialog[t].transaction = t
  BY WellCall
<1>3. TransactionOf(s, t) = t /\ Dereferences(s, t)
  BY <1>2 DEF TransactionOf, Dereferences
<1>4. DialogRinging(s, t) = ResponseWith(s, t, "SEND_RINGING")
  BY <1>2, <1>3 DEF DialogRinging
<1> QED BY <1>1, <1>4 DEF Ringing, AcceptCall

\* Ringing answers with a 180.
LEMMA RingingTurns ==
    ASSUME NEW s, Ready(s), NEW t, Waiting(s, t)
    PROVE  Turned(s, Ringing(s, t - 1), {})
<1> DEFINE x == "SEND_RINGING"
           r == Ringing(s, t - 1)
           W == {<<t, x>>}
           w == s.dialog[t]
<1>1. Well(s) /\ s.wire = {} /\ s.told = NoEvent
  BY DEF Ready
<1>2. t \in Calls(s) /\ InList(s.transactions, t)
        /\ s.transaction[t].type = "SERVER_INVITE"
        /\ s.transaction[t].state = "PROCEEDING"
  BY <1>1, WaitingCall DEF Waiting
<1>3. s \in Stacks /\ w \in DialogObjects /\ w.transaction = t
  BY <1>1, <1>2, WellParts, WellCall
<1>15. r = ResponseWith(s, t, x)
  BY <1>1, <1>2, CallAtPosition
<1> HIDE DEF r
<1>4. PICK v : /\ StepOf(s.transaction[t], v, "PROCEEDING", x)
               /\ r = Changed(s, s.dialog, s.transactions,
                              [s.transaction EXCEPT ![t] = v],
                              s.wire \cup {<<t, x>>}, s.answers, s.told)
  BY <1>2, <1>3, <1>15, Responds
<1>12. x \in Sendings /\ W \in {{}, {<<t, x>>}} /\ x \in {"SEND_TRYING", "SEND_RINGING"}
  BY DEF Sendings, SendEvents
<1>16. x \in {"SEND_TRYING", "SEND_RINGING"}
  OBVIOUS
<1> HIDE DEF x
<1>5. s.wire \cup {<<t, x>>} = W
  BY <1>1
<1> HIDE DEF W, w
<1>6. r = OneMoved(s, t, "PROCEEDING", v, w, W, s.answers, NoEvent)
  BY <1>1, <1>2, <1>4, <1>5, SameParts DEF w, OneMoved
<1>7. r.transaction[t] = v /\ r.dialog[t] = w /\ r.answers = s.answers
        /\ Calls(r) = Calls(s)
  BY <1>1, <1>2, <1>6, OneCallParts
<1>8. IsCall(r, t)
  BY <1>1, <1>4, <1>7, <1>16, StillWaiting DEF w
<1>9. r.transaction[t].type = "SERVER_INVITE"
  BY <1>2, <1>4, <1>7 DEF StepOf
<1>10. Sendable(r, t, x)
  BY <1>2, <1>7, <1>9, <1>16 DEF Sendable
<1>11. \A j \in Numbers : Got(r, t, j) => <<t, j>> \in {}
  BY <1>9 DEF Got
<1>13. NoEvent \in Notices /\ NoEvent.event = "none" /\ Told(r, NoEvent.event, t)
  BY <1>1, <1>2, SameParts
<1>14. Turned(s, r, {})
  BY <1>2, <1>3, <1>4, <1>6, <1>8, <1>10, <1>11, <1>12, <1>13, OneCallTurns
<1> QED BY <1>14 DEF r

\* Accepting sends the 200: the call is then over as a transaction, and its
\* dialog has the tag of the 200.
LEMMA AcceptingTurns ==
    ASSUME NEW s, Ready(s), NEW t, Waiting(s, t)
    PROVE  Turned(s, AcceptCall(s, t - 1), {})
<1> DEFINE x  == "SEND_OK"
           r  == AcceptCall(s, t - 1)
           W  == {<<t, x>>}
           A  == s.answers \cup {<<t, x>>}
           id == [s.dialog[t].id EXCEPT !.local = t]
<1>1. Well(s) /\ s.wire = {} /\ s.told = NoEvent
  BY DEF Ready
<1>2. t \in Calls(s) /\ InList(s.transactions, t) /\ s.dialog[t].state = "NON_EXIST"
        /\ s.transaction[t].type = "SERVER_INVITE"
        /\ s.transaction[t].state = "PROCEEDING"
  BY <1>1, WaitingCall DEF Waiting
<1>3. s \in Stacks /\ s.dialog[t] \in DialogObjects /\ s.dialog[t].transaction = t
        /\ t \in DOMAIN s.dialog /\ t \in Nat
  BY <1>1, <1>2, WellParts, WellCall
<1>4. PICK k \in Numbers :
        /\ s.transaction[t].request = InInvite(k)
        /\ s.dialog[t].id = [call |-> Theirs(k), local |-> Nil, remote |-> Theirs(k)]
  BY <1>1, WaitingCall
<1>5. s.transaction[t].request.to = Nil
  BY <1>4 DEF InInvite, Request
<1>6. PICK v, w : /\ StepOf(s.transaction[t], v, "TERMINATED", x)
                  /\ w = AcceptedDialog(s.dialog[t], id)
                  /\ DialogOk(s, t) =
                       Changed(s, [s.dialog EXCEPT ![t] = w],
                               DelFromList(s.transactions, t),
                               [s.transaction EXCEPT ![t] = v],
                               s.wire \cup {<<t, x>>}, A, s.told)
  BY <1>2, <1>3, <1>5, OkToCall
<1>7. id \in DialogIds /\ id.local = t /\ id.call = Theirs(k) /\ id.remote = Theirs(k)
  <2>1. s.dialog[t].id \in DialogIds
    BY <1>3 DEF DialogObjects
  <2>2. id \in DialogIds /\ id.local = t /\ id.call = s.dialog[t].id.call
          /\ id.remote = s.dialog[t].id.remote
    BY <1>3, <2>1 DEF DialogIds, Tags
  <2> QED BY <1>4, <2>2
<1> HIDE DEF id
<1>8. w \in DialogObjects /\ w.id = id /\ w.state = "CONFIRMED" /\ w.transaction = t
  BY <1>3, <1>6, <1>7, DialogTypes
<1>9. r = DialogOk(s, t)
  BY <1>1, <1>2, CallAtPosition
<1> HIDE DEF r
<1>10. s.wire \cup {<<t, x>>} = W
  BY <1>1
<1>11. x \in Sendings /\ W \in {{}, {<<t, x>>}}
         /\ A \in {s.answers, s.answers \cup {<<t, "SEND_OK">>}}
  BY DEF Sendings, SendEvents
<1>12. <<t, "SEND_OK">> \in A
  OBVIOUS
<1> HIDE DEF W, A
<1>13. r = OneMoved(s, t, "TERMINATED", v, w, W, A, NoEvent)
  BY <1>1, <1>2, <1>6, <1>9, <1>10, SameParts DEF OneMoved
<1>14. r.transaction[t] = v /\ r.dialog[t] = w /\ r.answers = A
         /\ Calls(r) = Calls(s)
  BY <1>1, <1>2, <1>13, OneCallParts
<1>15. Took(r, t)
  BY <1>12, <1>14 DEF Took
<1>16. /\ r.transaction[t].type = "SERVER_INVITE" /\ r.transaction[t].state = "TERMINATED"
       /\ r.transaction[t].request = InInvite(k)
  BY <1>2, <1>4, <1>6, <1>14 DEF StepOf
<1>17. IsCall(r, t)
  BY <1>7, <1>8, <1>14, <1>15, <1>16 DEF IsCall, Incoming
<1>18. Sendable(r, t, x)
  BY <1>2, <1>14, <1>15 DEF Sendable
<1>19. \A j \in Numbers : Got(r, t, j) => <<t, j>> \in {}
  BY <1>16 DEF Got
<1>20. NoEvent \in Notices /\ NoEvent.event = "none" /\ Told(r, NoEvent.event, t)
  BY <1>1, <1>2, SameParts
<1>21. Turned(s, r, {})
  BY <1>2, <1>6, <1>8, <1>11, <1>13, <1>17, <1>18, <1>19, <1>20, OneCallTurns
<1> QED BY <1>21 DEF r

\* A call of ours that waits for its answer.
Calling(s, t) ==
    /\ t \in Calls(s) /\ s.transaction[t].type = "CLIENT_INVITE"
    /\ s.transaction[t].state \in {"CALLING", "PROCEEDING"}

LEMMA CallingCall ==
    ASSUME NEW s, Well(s), NEW t, Calling(s, t)
    PROVE  /\ t \in Calls(s) /\ InList(s.transactions, t) /\ Outgoing(s, t)
           /\ s.transaction[t].request = OutInvite(t)
           /\ s.transaction[t].request.method = "INVITE"
           /\ s.dialog[t].id.remote = Nil /\ ~Took(s, t)
<1>1. t \in Calls(s) /\ s.transaction[t].type = "CLIENT_INVITE"
        /\ s.transaction[t].state \in {"CALLING", "PROCEEDING"}
  BY DEF Calling
<1>2. IsCall(s, t) /\ InList(s.transactions, t)
  BY <1>1, WellCall
<1>3. Outgoing(s, t)
  BY <1>1, <1>2 DEF IsCall, Incoming
<1> QED BY <1>1, <1>2, <1>3 DEF Outgoing, OutInvite, Request

\* A response that is not final to a call of ours.
LEMMA ProvisionalTurns ==
    ASSUME NEW s, Ready(s), NEW t, Calling(s, t), NEW m
    PROVE  Turned(s, RunFsm(s, t, "1XX", m), {})
<1> DEFINE r == RunFsm(s, t, "1XX", m)
           W == {}
           x == "request"
           w == s.dialog[t]
           latest == s.transaction[t].latest
           n == [event |-> "CALL_REMOTE_RINGING", ua |-> t, position |-> GetUaPosition(s, t)]
<1>1. Well(s) /\ s.wire = {} /\ s.told = NoEvent
  BY DEF Ready
<1>2. t \in Calls(s) /\ InList(s.transactions, t)
        /\ s.transaction[t].type = "CLIENT_INVITE"
        /\ s.transaction[t].state \in {"CALLING", "PROCEEDING"}
        /\ s.transaction[t].request = OutInvite(t)
        /\ s.transaction[t].request.method = "INVITE"
        /\ s.dialog[t].id.remote = Nil /\ ~Took(s, t) /\ Outgoing(s, t)
  BY <1>1, CallingCall DEF Calling
<1>3. s \in Stacks /\ w \in DialogObjects /\ w.transaction = t /\ InList(s.dialogs, t)
        /\ s.transaction[t].user = t /\ t \in Nat
  BY <1>1, <1>2, WellParts, WellCall
<1>4. PICK v, N :
        /\ StepOf(s.transaction[t], v, "PROCEEDING", s.transaction[t].latest)
        /\ N = s.told \/ N = n
        /\ r = Changed(s, s.dialog, s.transactions, [s.transaction EXCEPT ![t] = v],
                       s.wire, s.answers, N)
  BY <1>2, <1>3, HearsRinging
<1>5. /\ N \in Notices
      /\ N.event # "none" => N.ua = t
      /\ N.event = "none" => N = NoEvent
      /\ N.event # "CALL_INCOMING" /\ N.event # "CALL_ESTABLISHED"
  <2>1. n \in Notices /\ n.event = "CALL_REMOTE_RINGING" /\ n.ua = t
    <3>1. GetUaPosition(s, t) = t - 1
      BY <1>1, <1>2, PositionOfCall
    <3> QED BY <1>3, <3>1 DEF Notices
  <2>2. NoEvent \in Notices /\ NoEvent.event = "none"
    BY <1>1, <1>2, SameParts
  <2> HIDE DEF n
  <2> QED BY <1>1, <1>4, <2>1, <2>2
<1> HIDE DEF r, w, latest, n
<1>6. r = OneMoved(s, t, "PROCEEDING", v, w, W, s.answers, N)
  BY <1>1, <1>2, <1>4, SameParts DEF w, OneMoved
<1>7. r.transaction[t] = v /\ r.dialog[t] = w /\ r.answers = s.answers
        /\ Calls(r) = Calls(s)
  BY <1>1, <1>2, <1>6, OneCallParts
<1>8. /\ r.transaction[t].type = "CLIENT_INVITE" /\ r.transaction[t].state = "PROCEEDING"
      /\ r.transaction[t].request = OutInvite(t)
  BY <1>2, <1>4, <1>7 DEF StepOf
<1>9. IsCall(r, t)
  BY <1>2, <1>7, <1>8 DEF IsCall, Outgoing, Took, w
<1>10. Sendable(r, t, x)
  BY <1>2, <1>7, <1>8 DEF Sendable
<1>11. \A j \in Numbers : Got(r, t, j) => <<t, j>> \in {}
  BY <1>8 DEF Got
<1>12. x \in Sendings /\ W \in {{}, {<<t, x>>}}
  BY DEF Sendings
<1>13. Told(r, N.event, t)
  BY <1>5 DEF Told
<1>16. s.answers \in {s.answers, s.answers \cup {<<t, "SEND_OK">>}}
  OBVIOUS
<1> HIDE DEF W, x
<1>14. StepOf(s.transaction[t], v, "PROCEEDING", latest)
  BY <1>4 DEF latest
<1>15. Turned(s, r, {})
  BY <1>2, <1>3, <1>5, <1>6, <1>9, <1>10, <1>11, <1>12, <1>13, <1>14, <1>16, OneCallTurns
<1> QED BY <1>15 DEF r

\* The 200 of a call of ours, with tag j of the other phone: the call is
\* established with it.
LEMMA OkTurns ==
    ASSUME NEW s, Ready(s), NEW t, Calling(s, t), NEW j \in Numbers
    PROVE  Turned(s, RunFsm(s, t, "2XX", Reply(t, Theirs(j))), {<<t, j>>})
<1> DEFINE m  == Reply(t, Theirs(j))
           r  == RunFsm(s, t, "2XX", m)
           x  == "ACK"
           W  == {<<t, x>>}
           id == [call |-> m.call, local |-> m.from, remote |-> m.to]
           latest == s.transaction[t].latest
           n  == [event |-> "CALL_ESTABLISHED", ua |-> t, position |-> GetUaPosition(s, t)]
<1>1. Well(s) /\ s.wire = {} /\ s.told = NoEvent
  BY DEF Ready
<1>2. t \in Calls(s) /\ InList(s.transactions, t)
        /\ s.transaction[t].type = "CLIENT_INVITE"
        /\ s.transaction[t].state \in {"CALLING", "PROCEEDING"}
        /\ s.transaction[t].request = OutInvite(t)
        /\ s.transaction[t].request.method = "INVITE" /\ ~Took(s, t)
  BY <1>1, CallingCall DEF Calling
<1>3. s \in Stacks /\ s.dialog[t] \in DialogObjects /\ s.dialog[t].transaction = t
        /\ InList(s.dialogs, t) /\ s.transaction[t].user = t /\ t \in Nat
        /\ t \in DOMAIN s.dialog
  BY <1>1, <1>2, WellParts, WellCall
<1>4. Theirs(j) \in Nat /\ \A i \in Numbers : Theirs(i) = Theirs(j) => i = j
  BY PhonesAssumption DEF Theirs, Numbers
<1>5. m.call = t /\ m.from = t /\ m.to = Theirs(j)
  BY DEF Reply, Request
<1>6. m.call \in Tags /\ m.from \in Tags /\ m.to \in Tags
  BY <1>3, <1>4, <1>5 DEF Tags
<1>7. id \in DialogIds /\ id.call = t /\ id.local = t /\ id.remote = Theirs(j)
  BY <1>5, <1>6 DEF DialogIds
<1> HIDE DEF m
<1>8. PICK v, w :
        /\ StepOf(s.transaction[t], v, "TERMINATED", s.transaction[t].latest)
        /\ w = AcceptedDialog(s.dialog[t], id)
        /\ r = Changed(s, [s.dialog EXCEPT ![t] = w], DelFromList(s.transactions, t),
                       [s.transaction EXCEPT ![t] = v], s.wire \cup {<<t, "ACK">>},
                       s.answers, n)
  BY <1>2, <1>3, <1>6, HearsOk
<1>9. n \in Notices /\ n.event = "CALL_ESTABLISHED" /\ n.ua = t
  <2>1. GetUaPosition(s, t) = t - 1
    BY <1>1, <1>2, PositionOfCall
  <2> QED BY <1>3, <2>1 DEF Notices
<1> HIDE DEF r, id, latest, n
<1>10. w \in DialogObjects /\ w.id = id /\ w.transaction = t
  BY <1>3, <1>7, <1>8, DialogTypes
<1>11. s.wire \cup {<<t, "ACK">>} = W
  BY <1>1
<1>12. x \in Sendings /\ W \in {{}, {<<t, x>>}}
         /\ s.answers \in {s.answers, s.answers \cup {<<t, "SEND_OK">>}}
  BY DEF Sendings
<1> HIDE DEF W
<1>13. r = OneMoved(s, t, "TERMINATED", v, w, W, s.answers, n)
  <2>1. r = Changed(s, [s.dialog EXCEPT ![t] = w], DelFromList(s.transactions, t),
                    [s.transaction EXCEPT ![t] = v], W, s.answers, n)
    BY <1>8, <1>11
  <2>2. DelFromList(s.transactions, t) = Relisted(s, t, "TERMINATED")
    BY <1>1, <1>2, SameParts
  <2> QED BY <2>1, <2>2 DEF OneMoved
<1>14. r.transaction[t] = v /\ r.dialog[t] = w /\ r.answers = s.answers
         /\ Calls(r) = Calls(s)
  BY <1>1, <1>2, <1>13, OneCallParts
<1>15. /\ r.transaction[t].type = "CLIENT_INVITE" /\ r.transaction[t].state = "TERMINATED"
       /\ r.transaction[t].request = OutInvite(t)
  BY <1>2, <1>8, <1>14 DEF StepOf
<1>16. IsCall(r, t)
  BY <1>2, <1>7, <1>10, <1>14, <1>15 DEF IsCall, Outgoing, Took
<1>17. Sendable(r, t, x)
  BY <1>2, <1>14, <1>15 DEF Sendable
<1>18. \A i \in Numbers : Got(r, t, i) => <<t, i>> \in {<<t, j>>}
  BY <1>4, <1>7, <1>10, <1>14 DEF Got
<1>19. Told(r, n.event, t)
  BY <1>2, <1>9, <1>14, <1>15 DEF Told
<1>20. StepOf(s.transaction[t], v, "TERMINATED", latest)
  BY <1>8 DEF latest
<1> HIDE DEF x
<1>21. /\ n.event # "none" => n.ua = t
       /\ n.event = "none" => n = NoEvent
  BY <1>9
<1>22. Turned(s, r, {<<t, j>>})
  BY <1>2, <1>9, <1>10, <1>12, <1>13, <1>16, <1>17, <1>18, <1>19, <1>20, <1>21,
     OneCallTurns
<1> QED BY <1>22 DEF r, m

-----------------------------------------------------------------------------
(* A new call *)

\* What two stacks have in common when nothing is sent.
Quiet(s, r) == r \in Stacks /\ r.wire = s.wire /\ r.answers = s.answers /\ r.told = s.told

\* A user agent is added, and a dialog, and a transaction.
UaAdded(s, r, a) ==
    /\ Quiet(s, r)
    /\ r.uas = Append(s.uas, Len(s.account) + 1)
    /\ r.account = Append(s.account, a)
    /\ r.dialogs = s.dialogs /\ r.dialog = s.dialog
    /\ r.transactions = s.transactions /\ r.transaction = s.transaction

BlankDialog == [FreedDialog EXCEPT !.state = "NON_EXIST"]

DialogAdded(s, r) ==
    /\ Quiet(s, r)
    /\ r.dialogs = Append(s.dialogs, Len(s.dialog) + 1)
    /\ r.dialog = Append(s.dialog, BlankDialog)
    /\ r.uas = s.uas /\ r.account = s.account
    /\ r.transactions = s.transactions /\ r.transaction = s.transaction

\* The transaction in the state INIT.
Fresh(m, user, type) ==
    [type |-> type, state |-> "INIT", request |-> m, user |-> user, latest |-> "none"]

TransactionAdded(s, r, fresh) ==
    /\ Quiet(s, r)
    /\ r.transactions = Append(s.transactions, Len(s.transaction) + 1)
    /\ r.transaction = Append(s.transaction, fresh)
    /\ r.uas = s.uas /\ r.account = s.account
    /\ r.dialogs = s.dialogs /\ r.dialog = s.dialog

LEMMA AddedUa ==
    ASSUME NEW s \in Stacks, NEW a \in Nat
    PROVE  UaAdded(s, AddUa(s, a), a)
<1> DEFINE u == Append(s.uas, Len(s.account) + 1)
           b == Append(s.account, a)
           r == [s EXCEPT !.uas = u, !.account = b]
<1>1. s.uas \in Seq(Nat) /\ s.account \in Seq(Nat)
  BY DEF Stacks
<1>2. u \in Seq(Nat) /\ b \in Seq(Nat)
  BY <1>1
<1>3. AddUa(s, a) = r
  BY DEF AddUa, PutInList
<1> HIDE DEF u, b
<1>4. r \in Stacks /\ r.uas = u /\ r.account = b
  BY <1>2 DEF Stacks
<1>5. /\ r.dialogs = s.dialogs /\ r.dialog = s.dialog
      /\ r.transactions = s.transactions /\ r.transaction = s.transaction
      /\ r.wire = s.wire /\ r.answers = s.answers /\ r.told = s.told
  BY DEF Stacks
<1> HIDE DEF r
<1> QED BY <1>3, <1>4, <1>5 DEF u, b, UaAdded, Quiet

LEMMA AddedDialog ==
    ASSUME NEW s \in Stacks
    PROVE  DialogAdded(s, AddDialog(s))
<1>1. BlankDialog \in DialogObjects
  BY DEF BlankDialog, FreedDialog, EmptyDialogId, DialogObjects, DialogIds, Tags, Null
<1> DEFINE u == Append(s.dialogs, Len(s.dialog) + 1)
           b == Append(s.dialog, BlankDialog)
           r == [s EXCEPT !.dialogs = u, !.dialog = b]
<1>2. s.dialogs \in Seq(Nat) /\ s.dialog \in Seq(DialogObjects)
  BY DEF Stacks
<1>3. u \in Seq(Nat) /\ b \in Seq(DialogObjects)
  BY <1>1, <1>2
<1>4. AddDialog(s) = r
  BY DEF AddDialog, PutInList, BlankDialog
<1> HIDE DEF u, b
<1>5. r \in Stacks /\ r.dialogs = u /\ r.dialog = b
  BY <1>3 DEF Stacks
<1>6. /\ r.uas = s.uas /\ r.account = s.account
      /\ r.transactions = s.transactions /\ r.transaction = s.transaction
      /\ r.wire = s.wire /\ r.answers = s.answers /\ r.told = s.told
  BY DEF Stacks
<1> HIDE DEF r
<1> QED BY <1>4, <1>5, <1>6 DEF u, b, DialogAdded, Quiet

LEMMA AddedTransaction ==
    ASSUME NEW s \in Stacks, NEW m \in Requests, NEW user \in Nat,
           NEW type \in TransactionTypes
    PROVE  TransactionAdded(s, PutTransaction(s, m, user, type), Fresh(m, user, type))
<1> DEFINE u == Append(s.transactions, Len(s.transaction) + 1)
           f == Fresh(m, user, type)
           b == Append(s.transaction, f)
           r == [s EXCEPT !.transactions = u, !.transaction = b]
<1>1. f \in TransactionObjects
  BY DEF Fresh, TransactionObjects, TransactionStates
<1>2. s.transactions \in Seq(Nat) /\ s.transaction \in Seq(TransactionObjects)
  BY DEF Stacks
<1>3. PutTransaction(s, m, user, type) = r
  BY DEF PutTransaction, PutInList, Fresh
<1> HIDE DEF f
<1>4. u \in Seq(Nat) /\ b \in Seq(TransactionObjects)
  BY <1>1, <1>2
<1> HIDE DEF u, b
<1>5. r \in Stacks /\ r.transactions = u /\ r.transaction = b
  BY <1>4 DEF Stacks
<1>6. /\ r.uas = s.uas /\ r.account = s.account
      /\ r.dialogs = s.dialogs /\ r.dialog = s.dialog
      /\ r.wire = s.wire /\ r.answers = s.answers /\ r.told = s.told
  BY DEF Stacks
<1> HIDE DEF r
<1> QED BY <1>3, <1>5, <1>6 DEF u, b, f, TransactionAdded, Quiet

\* The three of a new call, and the stack in which its machine is started.
NewNumber(s) == Len(s.transaction) + 1
NewUa(s, a)  == AddDialog(AddUa(s, a))
NewObjects(s, a, m, type) == PutTransaction(NewUa(s, a), m, NewNumber(s), type)

CallAdded(s, q, a, fresh) ==
    /\ Quiet(s, q)
    /\ q.uas = Append(s.uas, NewNumber(s)) /\ q.account = Append(s.account, a)
    /\ q.dialogs = Append(s.dialogs, NewNumber(s))
    /\ q.dialog = Append(s.dialog, BlankDialog)
    /\ q.transactions = Append(s.transactions, NewNumber(s))
    /\ q.transaction = Append(s.transaction, fresh)

LEMMA NewObjectsParts ==
    ASSUME NEW s, Well(s), NEW a \in Nat, NEW m \in Requests, NEW type \in TransactionTypes
    PROVE  /\ CallAdded(s, NewObjects(s, a, m, type), a, Fresh(m, NewNumber(s), type))
           /\ Len(NewUa(s, a).dialog) = NewNumber(s)
           /\ NewUa(s, a).transaction = s.transaction
<1> DEFINE n  == NewNumber(s)
           q1 == AddUa(s, a)
           q2 == NewUa(s, a)
           q3 == NewObjects(s, a, m, type)
<1>1. /\ s \in Stacks /\ Len(s.account) + 1 = n /\ Len(s.dialog) + 1 = n
      /\ Len(s.transaction) + 1 = n /\ n \in Nat /\ s.dialog \in Seq(DialogObjects)
  <2>1. Listed(s) /\ Len(s.transaction) \in Nat
    BY WellParts DEF Well
  <2> QED BY <2>1, WellParts DEF Listed, NewNumber
<1> HIDE DEF n
<1>8. UaAdded(s, q1, a)
  BY <1>1, AddedUa
<1> HIDE DEF q1
<1>2. /\ q1 \in Stacks /\ q1.uas = Append(s.uas, n) /\ q1.account = Append(s.account, a)
      /\ q1.dialogs = s.dialogs /\ q1.dialog = s.dialog
      /\ q1.transactions = s.transactions /\ q1.transaction = s.transaction
      /\ q1.wire = s.wire /\ q1.answers = s.answers /\ q1.told = s.told
  BY <1>1, <1>8 DEF UaAdded, Quiet
<1>3. q2 = AddDialog(q1)
  BY DEF NewUa, q1
<1>4. /\ q2 \in Stacks /\ q2.dialogs = Append(q1.dialogs, Len(q1.dialog) + 1)
      /\ q2.dialog = Append(q1.dialog, BlankDialog)
      /\ q2.uas = q1.uas /\ q2.account = q1.account
      /\ q2.transactions = q1.transactions /\ q2.transaction = q1.transaction
      /\ q2.wire = q1.wire /\ q2.answers = q1.answers /\ q2.told = q1.told
  <2>1. DialogAdded(q1, AddDialog(q1))
    BY <1>2, AddedDialog
  <2> HIDE DEF q2
  <2> QED BY <1>3, <2>1 DEF DialogAdded, Quiet
<1>5. q3 = PutTransaction(q2, m, n, type)
  BY DEF NewObjects, n
<1> HIDE DEF q2, q3
<1>6. /\ q3 \in Stacks /\ q3.transactions = Append(q2.transactions, Len(q2.transaction) + 1)
      /\ q3.transaction = Append(q2.transaction, Fresh(m, n, type))
      /\ q3.uas = q2.uas /\ q3.account = q2.account
      /\ q3.dialogs = q2.dialogs /\ q3.dialog = q2.dialog
      /\ q3.wire = q2.wire /\ q3.answers = q2.answers /\ q3.told = q2.told
  <2>1. TransactionAdded(q2, PutTransaction(q2, m, n, type), Fresh(m, n, type))
    BY <1>1, <1>4, AddedTransaction
  <2> QED BY <1>5, <2>1 DEF TransactionAdded, Quiet
<1>7. Len(q2.dialog) = n
  <2>1. q2.dialog = Append(s.dialog, BlankDialog)
    BY <1>2, <1>4
  <2> QED BY <1>1, <2>1
<1>9. CallAdded(s, q3, a, Fresh(m, n, type))
  BY <1>1, <1>2, <1>4, <1>6 DEF CallAdded, Quiet, n
<1> QED BY <1>2, <1>4, <1>7, <1>9 DEF q2, q3, n

\* The machine of a new INVITE sends the request, or answers with a 100.
LEMMA Starts ==
    ASSUME NEW q \in Stacks, NEW t \in Calls(q), q.transaction[t].state = "INIT"
    PROVE  /\ q.transaction[t].type = "CLIENT_INVITE" =>
                \E v : /\ StepOf(q.transaction[t], v, "CALLING", q.transaction[t].latest)
                       /\ RunQuietly(q, t, "INIT") =
                            Changed(q, q.dialog, q.transactions,
                                    [q.transaction EXCEPT ![t] = v],
                                    q.wire \cup {<<t, "request">>}, q.answers, q.told)
           /\ q.transaction[t].type = "SERVER_INVITE" =>
                \E v : /\ StepOf(q.transaction[t], v, "PROCEEDING", "SEND_TRYING")
                       /\ RunQuietly(q, t, "INIT") =
                            Changed(q, q.dialog, q.transactions,
                                    [q.transaction EXCEPT ![t] = v],
                                    q.wire \cup {<<t, "SEND_TRYING">>}, q.answers, q.told)
<1>1. "CALLING" \in TransactionStates /\ "PROCEEDING" \in TransactionStates
        /\ "SEND_TRYING" \in SendEvents
  BY DEF TransactionStates, SendEvents
<1>2. ASSUME q.transaction[t].type = "CLIENT_INVITE"
      PROVE  \E v : /\ StepOf(q.transaction[t], v, "CALLING", q.transaction[t].latest)
                    /\ RunQuietly(q, t, "INIT") =
                         Changed(q, q.dialog, q.transactions,
                                 [q.transaction EXCEPT ![t] = v],
                                 q.wire \cup {<<t, "request">>}, q.answers, q.told)
  <2> DEFINE v  == [q.transaction[t] EXCEPT !.state = "CALLING"]
             T  == [q.transaction EXCEPT ![t] = v]
             W  == q.wire \cup {<<t, "request">>}
             q1 == Changed(q, q.dialog, q.transactions, T, q.wire, q.answers, q.told)
             q2 == Changed(q, q.dialog, q.transactions, T, W, q.answers, q.told)
  <2>1. StepOf(q.transaction[t], v, "CALLING", q.transaction[t].latest)
          /\ Moves(q, t, "CALLING") = q1 /\ T[t] = v
    BY <1>1, MovesCall
  <2> HIDE DEF v, T
  <2>2. SendMessage(q1, t, "request") = q2
    BY ChangedBySending
  <2> HIDE DEF W
  <2>3. q2.transaction = T
    BY ChangedFields
  <2>4. RemoveTerminatedTransaction(q2, t) = q2
    BY <2>1, <2>3 DEF RemoveTerminatedTransaction, StepOf
  <2> HIDE DEF q1, q2
  <2>5. Advance(q, t, "INIT") = q2
    BY <1>2, <2>1, <2>2, Advances
  <2>6. RunQuietly(q, t, "INIT") = q2
    BY <2>4, <2>5 DEF RunQuietly
  <2> QED BY <2>1, <2>6 DEF q2, T, W
<1>3. ASSUME q.transaction[t].type = "SERVER_INVITE"
      PROVE  \E v : /\ StepOf(q.transaction[t], v, "PROCEEDING", "SEND_TRYING")
                    /\ RunQuietly(q, t, "INIT") =
                         Changed(q, q.dialog, q.transactions,
                                 [q.transaction EXCEPT ![t] = v],
                                 q.wire \cup {<<t, "SEND_TRYING">>}, q.answers, q.told)
  <2> DEFINE v  == [q.transaction[t] EXCEPT !.state = "PROCEEDING"]
             u  == [v EXCEPT !.latest = "SEND_TRYING"]
             T  == [q.transaction EXCEPT ![t] = v]
             U  == [q.transaction EXCEPT ![t] = u]
             W  == q.wire \cup {<<t, "SEND_TRYING">>}
             q1 == Changed(q, q.dialog, q.transactions, T, q.wire, q.answers, q.told)
             q2 == Changed(q, q.dialog, q.transactions, U, q.wire, q.answers, q.told)
             q3 == Changed(q, q.dialog, q.transactions, U, W, q.answers, q.told)
  <2>1. StepOf(q.transaction[t], v, "PROCEEDING", q.transaction[t].latest)
          /\ Moves(q, t, "PROCEEDING") = q1 /\ T[t] = v
    BY <1>1, MovesCall
  <2>2. q.transaction \in Seq(TransactionObjects) /\ t \in 1 .. Len(q.transaction)
    BY Machines DEF Calls
  <2> HIDE DEF v
  <2>3. StepOf(v, u, "PROCEEDING", "SEND_TRYING")
    BY <1>1, <2>1, StepsOf, ZenonT(30) DEF StepOf
  <2>4. StepOf(q.transaction[t], u, "PROCEEDING", "SEND_TRYING")
    BY <2>1, <2>3, TwoSteps
  <2>5. Latest(q1, t, "SEND_TRYING") =
          Changed(q, q.dialog, q.transactions,
                  [T EXCEPT ![t] = [T[t] EXCEPT !.latest = "SEND_TRYING"]],
                  q.wire, q.answers, q.told)
    <3> HIDE DEF T
    <3> QED BY ChangedByResponse
  <2>6. [T EXCEPT ![t] = [T[t] EXCEPT !.latest = "SEND_TRYING"]] = U
    <3>1. [T EXCEPT ![t] = u] = U
      <4> HIDE DEF u
      <4> QED BY <2>2, ReplacedTwice
    <3> QED BY <2>1, <3>1
  <2>12. U[t] = u
    <3> HIDE DEF u
    <3> QED BY <2>2
  <2> HIDE DEF T, U, u
  <2>7. Latest(q1, t, "SEND_TRYING") = q2
    BY <2>5, <2>6
  <2>8. SendMessage(q2, t, "SEND_TRYING") = q3
    BY ChangedBySending
  <2> HIDE DEF W
  <2>9. q3.transaction = U
    BY ChangedFields
  <2>10. RemoveTerminatedTransaction(q3, t) = q3
    BY <2>4, <2>9, <2>12 DEF RemoveTerminatedTransaction, StepOf
  <2> HIDE DEF q1, q2, q3
  <2>11. SendResponse(q1, t, "SEND_TRYING") = q3
    BY <2>7, <2>8 DEF SendResponse, Latest
  <2>13. Advance(q, t, "INIT") = q3
    BY <1>3, <2>1, <2>11, Advances
  <2>14. RunQuietly(q, t, "INIT") = q3
    BY <2>10, <2>13 DEF RunQuietly
  <2> QED BY <2>4, <2>14 DEF q3, U, W
<1> QED BY <1>2, <1>3

\* The stack of a new call, whose machine and dialog have been set up.
NewMoved(q, n, v, w, W, N) ==
    Changed(q, [q.dialog EXCEPT ![n] = w], q.transactions, [q.transaction EXCEPT ![n] = v],
            W, q.answers, N)

\* Lists and objects with one more at the end.
LEMMA LinedMore ==
    ASSUME NEW list \in Seq(Nat), NEW n \in Nat, Lined(list, n)
    PROVE  Lined(Append(list, n + 1), n + 1)
BY DEF Lined

LEMMA ListedMore ==
    ASSUME NEW list \in Seq(Nat), NEW n \in Nat, NEW S, n \notin S, NoTwice(list),
           \A i \in DOMAIN list : list[i] \in S
    PROVE  LET r == Append(list, n) IN
           /\ NoTwice(r) /\ \A i \in DOMAIN r : r[i] \in S \/ r[i] = n
           /\ \A m : InList(r, m) <=> InList(list, m) \/ m = n
<1> DEFINE r == Append(list, n)
           k == Len(list)
<1>1. /\ r[k + 1] = n /\ \A i \in 1 .. k : r[i] = list[i]
      /\ k \in Nat /\ DOMAIN list = 1 .. k /\ DOMAIN r = 1 .. k + 1
  BY Appended
<1> HIDE DEF r, k
<1>2. \A i \in DOMAIN r : i = k + 1 \/ i \in 1 .. k
  BY <1>1
<1>3. k + 1 \in DOMAIN r /\ \A i \in 1 .. k : i \in DOMAIN r
  BY <1>1
<1>4. \A i \in DOMAIN r : r[i] \in S \/ r[i] = n
  BY <1>1, <1>2
<1>5. NoTwice(r)
  BY <1>1, <1>2 DEF NoTwice
<1>6. \A m : InList(r, m) <=> InList(list, m) \/ m = n
  BY <1>1, <1>2, <1>3 DEF InList
<1> QED BY <1>4, <1>5, <1>6 DEF r

\* The parts of a stack with a new call.
NewCallIn(s, r, n, a, v, w) ==
    /\ r.transaction \in Seq(TransactionObjects) /\ r.dialog \in Seq(DialogObjects)
    /\ Len(r.transaction) = n /\ Len(r.dialog) = n
    /\ r.transaction[n] = v /\ r.dialog[n] = w
    /\ \A t \in Calls(s) : r.transaction[t] = s.transaction[t] /\ r.dialog[t] = s.dialog[t]
    /\ r.transactions = Append(s.transactions, n)
    /\ r.uas = Append(s.uas, n) /\ r.account = Append(s.account, a)
    /\ r.dialogs = Append(s.dialogs, n)

\* Its number is the next one.
LEMMA NextNumber ==
    ASSUME NEW s, Well(s)
    PROVE  LET n == NewNumber(s) IN
           /\ n \in Nat /\ n # Null /\ n = Len(s.transaction) + 1 /\ n = Len(s.dialog) + 1
           /\ n = Len(s.account) + 1 /\ Calls(s) = 1 .. n - 1 /\ n \notin Calls(s)
           /\ Lined(s.uas, n - 1) /\ Lined(s.dialogs, n - 1)
<1>1. Listed(s) /\ Len(s.transaction) \in Nat
  BY WellParts DEF Well
<1>2. /\ Len(s.dialog) = Len(s.transaction) /\ Len(s.account) = Len(s.transaction)
      /\ Lined(s.uas, Len(s.transaction)) /\ Lined(s.dialogs, Len(s.transaction))
  BY <1>1 DEF Listed
<1>3. NewNumber(s) = Len(s.transaction) + 1 /\ Len(s.transaction) = NewNumber(s) - 1
        /\ NewNumber(s) \in Nat /\ NewNumber(s) # 0
  BY <1>1 DEF NewNumber
<1>4. Calls(s) = 1 .. NewNumber(s) - 1 /\ NewNumber(s) \notin Calls(s)
  BY <1>1, <1>3 DEF Calls
<1> QED BY <1>2, <1>3, <1>4 DEF Null

LEMMA NewCallParts ==
    ASSUME NEW s, Well(s), NEW q, NEW a, NEW fresh, CallAdded(s, q, a, fresh),
           fresh \in TransactionObjects, NEW v \in TransactionObjects, NEW w \in DialogObjects,
           NEW W, NEW N, NEW r, r = NewMoved(q, NewNumber(s), v, w, W, N)
    PROVE  /\ NewCallIn(s, r, NewNumber(s), a, v, w)
           /\ r.wire = W /\ r.answers = s.answers /\ r.told = N
<1> DEFINE n == NewNumber(s)
           D == [q.dialog EXCEPT ![n] = w]
           T == [q.transaction EXCEPT ![n] = v]
<1>1. /\ s \in Stacks /\ s.transaction \in Seq(TransactionObjects)
      /\ s.dialog \in Seq(DialogObjects)
  BY WellParts
<1>2. n \in Nat /\ n = Len(s.transaction) + 1 /\ n = Len(s.dialog) + 1
        /\ Calls(s) = 1 .. Len(s.transaction)
  BY NextNumber DEF Calls
<1> HIDE DEF n
<1>3. BlankDialog \in DialogObjects
  BY DEF BlankDialog, FreedDialog, EmptyDialogId, DialogObjects, DialogIds, Tags, Null
<1>4. /\ q \in Stacks /\ q.answers = s.answers
      /\ q.uas = Append(s.uas, n) /\ q.account = Append(s.account, a)
      /\ q.dialogs = Append(s.dialogs, n)
      /\ q.dialog = Append(s.dialog, BlankDialog)
      /\ q.transactions = Append(s.transactions, n)
      /\ q.transaction = Append(s.transaction, fresh)
  BY DEF CallAdded, Quiet, n
<1>5. /\ D \in Seq(DialogObjects) /\ Len(D) = n /\ D[n] = w
      /\ \A t \in Calls(s) : D[t] = s.dialog[t]
  <2>1. /\ q.dialog \in Seq(DialogObjects) /\ Len(q.dialog) = n
        /\ \A t \in Calls(s) : q.dialog[t] = s.dialog[t] /\ t # n
    BY <1>1, <1>2, <1>3, <1>4
  <2> QED BY <1>2, <2>1
<1>6. /\ T \in Seq(TransactionObjects) /\ Len(T) = n /\ T[n] = v
      /\ \A t \in Calls(s) : T[t] = s.transaction[t]
  <2>1. /\ q.transaction \in Seq(TransactionObjects) /\ Len(q.transaction) = n
        /\ \A t \in Calls(s) : q.transaction[t] = s.transaction[t] /\ t # n
    BY <1>1, <1>2, <1>4
  <2> QED BY <1>2, <2>1
<1> HIDE DEF D, T
<1>7. r = Changed(q, D, q.transactions, T, W, q.answers, N)
  BY DEF NewMoved, D, T, n
<1>8. /\ r.dialog = D /\ r.transactions = q.transactions /\ r.transaction = T
      /\ r.wire = W /\ r.answers = q.answers /\ r.told = N
      /\ r.uas = q.uas /\ r.account = q.account /\ r.dialogs = q.dialogs
  <2>1. q \in Stacks
    BY <1>4
  <2> QED BY <1>7, <2>1, ChangedFields
<1>9. NewCallIn(s, r, n, a, v, w)
  <2>1. /\ r.transactions = Append(s.transactions, n)
        /\ r.uas = Append(s.uas, n) /\ r.account = Append(s.account, a)
        /\ r.dialogs = Append(s.dialogs, n)
    BY <1>4, <1>8
  <2>2. /\ r.transaction \in Seq(TransactionObjects) /\ r.dialog \in Seq(DialogObjects)
        /\ Len(r.transaction) = n /\ Len(r.dialog) = n
        /\ r.transaction[n] = v /\ r.dialog[n] = w
    BY <1>5, <1>6, <1>8
  <2>3. \A t \in Calls(s) : r.transaction[t] = s.transaction[t] /\ r.dialog[t] = s.dialog[t]
    BY <1>5, <1>6, <1>8
  <2> QED BY <2>1, <2>2, <2>3 DEF NewCallIn
<1>10. r.answers = s.answers
  <2>1. r.answers = q.answers
    BY <1>8
  <2>2. q.answers = s.answers
    BY <1>4
  <2> QED BY <2>1, <2>2
<1>11. r.wire = W /\ r.told = N
  BY <1>8
<1> QED BY <1>9, <1>10, <1>11 DEF n

\* A turn with a new call makes a phone that is well, in the same way.
LEMMA NewCallTurns ==
    ASSUME NEW s, Ready(s), NewNumber(s) <= MaxTransactions,
           NEW q, NEW a \in Nat, NEW fresh, CallAdded(s, q, a, fresh),
           fresh \in TransactionObjects, fresh.user = NewNumber(s),
           NEW state, NEW latest, NEW v, StepOf(fresh, v, state, latest),
           state # "TERMINATED",
           NEW w \in DialogObjects, w.transaction = NewNumber(s),
           NEW what \in Sendings, NEW W, W = {<<NewNumber(s), what>>},
           NEW N \in Notices, N.event # "none" => N.ua = NewNumber(s),
           N.event = "none" => N = NoEvent,
           NEW r, r = NewMoved(q, NewNumber(s), v, w, W, N),
           IsCall(r, NewNumber(s)), Sendable(r, NewNumber(s), what),
           Told(r, N.event, NewNumber(s))
    PROVE  Turned(s, r, {})
<1> DEFINE n == NewNumber(s)
<1>1. Well(s) /\ Listed(s) /\ s \in Stacks
  BY DEF Ready, Well
<1>2. v \in TransactionObjects /\ v.state # "TERMINATED" /\ v.user = n
  BY DEF StepOf
<1>3. NewCallIn(s, r, n, a, v, w) /\ r.wire = W /\ r.answers = s.answers /\ r.told = N
  BY <1>1, <1>2, NewCallParts
<1>4. /\ n \in Nat /\ n # Null /\ n = Len(s.transaction) + 1 /\ n = Len(s.account) + 1
      /\ Calls(s) = 1 .. n - 1 /\ n \notin Calls(s)
      /\ Lined(s.uas, n - 1) /\ Lined(s.dialogs, n - 1)
  BY <1>1, NextNumber
<1>5. W = {<<n, what>>} /\ n <= MaxTransactions /\ w.transaction = n
        /\ IsCall(r, n) /\ Sendable(r, n, what) /\ Told(r, N.event, n)
        /\ (N.event # "none" => N.ua = n)
  OBVIOUS
<1>30. r.wire = {<<n, what>>}
  BY <1>3, <1>5
<1>31. r.answers = s.answers
  BY <1>3
<1>32. r.told = N
  BY <1>3
<1>33. NewCallIn(s, r, n, a, v, w)
  BY <1>3
<1> HIDE DEF n
<1>6. /\ r.transaction \in Seq(TransactionObjects) /\ r.dialog \in Seq(DialogObjects)
      /\ Len(r.transaction) = n /\ Len(r.dialog) = n
  BY <1>33 DEF NewCallIn
<1>7. Calls(r) = 1 .. n
  BY <1>6 DEF Calls
<1>8. \A t \in Calls(r) : t \in Calls(s) \/ t = n
  BY <1>4, <1>7
<1>9. n \in Calls(r) /\ \A t \in Calls(s) : t \in Calls(r) /\ t # n
  <2>1. n \in Nat /\ n # 0 /\ Calls(s) = 1 .. n - 1
    BY <1>4 DEF Null
  <2>2. n \in 1 .. n /\ \A t \in 1 .. n - 1 : t \in 1 .. n /\ t # n
    BY <2>1
  <2> QED BY <1>7, <2>1, <2>2
<1>10. r.transaction[n] = v /\ r.dialog[n] = w
  BY <1>33 DEF NewCallIn
<1>11. \A t \in Calls(s) : r.transaction[t] = s.transaction[t] /\ r.dialog[t] = s.dialog[t]
  BY <1>33 DEF NewCallIn
<1>12. /\ s.transactions \in Seq(Nat) /\ s.uas \in Seq(Nat) /\ s.dialogs \in Seq(Nat)
       /\ s.account \in Seq(Nat) /\ s.answers \in SUBSET (Nat \X SendEvents)
  BY <1>1 DEF Stacks
<1>13. r \in Stacks
  <2> DEFINE D == [q.dialog EXCEPT ![n] = w]
             T == [q.transaction EXCEPT ![n] = v]
  <2>1. q \in Stacks
    BY DEF CallAdded, Quiet
  <2>2. q.transactions \in Seq(Nat) /\ q.answers \in SUBSET (Nat \X SendEvents)
    BY <2>1 DEF Stacks
  <2>3. r = Changed(q, D, q.transactions, T, W, q.answers, N)
    BY DEF NewMoved, n
  <2> HIDE DEF D, T
  <2>4. r.dialog = D /\ r.transaction = T
    BY <2>1, <2>3, ChangedFields
  <2>5. D \in Seq(DialogObjects) /\ T \in Seq(TransactionObjects)
    BY <1>6, <2>4
  <2>6. W \in SUBSET (Nat \X Sendings)
    BY <1>4, <1>5
  <2>7. Changed(q, D, q.transactions, T, W, q.answers, N) \in Stacks
    BY <2>1, <2>2, <2>5, <2>6, ChangedIsStack
  <2> QED BY <2>3, <2>7
<1>14. \A t \in Calls(s) : Took(r, t) <=> Took(s, t)
  BY <1>31 DEF Took
<1>15. \A t \in Calls(s) : Kept(s, r, t)
  BY <1>9, <1>11, <1>14 DEF Kept
<1>16. Listed(r)
  <2>1. Len(r.account) = n
    <3>1. r.account = Append(s.account, a)
      BY <1>33 DEF NewCallIn
    <3> QED BY <1>4, <1>12, <3>1, Appended
  <2>2. Lined(r.uas, n) /\ Lined(r.dialogs, n)
    <3> DEFINE k == n - 1
    <3>1. Lined(s.uas, k) /\ Lined(s.dialogs, k) /\ k \in Nat /\ k + 1 = n
      BY <1>4 DEF Null
    <3> HIDE DEF k
    <3>2. Lined(Append(s.uas, k + 1), k + 1) /\ Lined(Append(s.dialogs, k + 1), k + 1)
      BY <1>12, <3>1, LinedMore
    <3>3. r.uas = Append(s.uas, n)
      BY <1>33 DEF NewCallIn
    <3>4. r.dialogs = Append(s.dialogs, n)
      BY <1>33 DEF NewCallIn
    <3>5. Lined(Append(s.uas, n), n) /\ Lined(Append(s.dialogs, n), n)
      BY <3>1, <3>2, Zenon
    <3>6. Lined(r.uas, n)
      BY <3>3, <3>5, Zenon
    <3>7. Lined(r.dialogs, n)
      BY <3>4, <3>5, Zenon
    <3> QED BY <3>6, <3>7
  <2>3. /\ NoTwice(s.transactions)
        /\ \A i \in DOMAIN s.transactions : s.transactions[i] \in Calls(s)
    BY <1>1 DEF Listed
  <2>4. r.transactions = Append(s.transactions, n)
    BY <1>33 DEF NewCallIn
  <2> DEFINE L == Append(s.transactions, n)
  <2> HIDE DEF L
  <2>5. /\ NoTwice(L) /\ \A i \in DOMAIN L : L[i] \in Calls(s) \/ L[i] = n
        /\ \A m : InList(L, m) <=> InList(s.transactions, m) \/ m = n
    BY <1>4, <1>12, <2>3, ListedMore DEF L
  <2>11. r.transactions = L
    BY <2>4 DEF L
  <2>6. NoTwice(r.transactions) /\ \A i \in DOMAIN r.transactions : r.transactions[i] \in Calls(r)
    BY <1>9, <2>5, <2>11
  <2>7. /\ \A t \in Calls(s) : InList(r.transactions, t) <=> InList(s.transactions, t)
        /\ InList(r.transactions, n)
    BY <1>9, <2>5, <2>11
  <2>8. \A t \in Calls(r) : InList(r.transactions, t) <=> r.transaction[t].state # "TERMINATED"
    <3>1. \A t \in Calls(s) : InList(r.transactions, t) <=> r.transaction[t].state # "TERMINATED"
      BY <1>1, <1>11, <2>7 DEF Listed
    <3>2. r.transaction[n].state # "TERMINATED"
      BY <1>2, <1>10
    <3> QED BY <1>8, <2>7, <3>1, <3>2
  <2>9. \A t \in Calls(r) : r.transaction[t].user = t /\ r.dialog[t].transaction = t
    <3>1. \A t \in Calls(s) : r.transaction[t].user = t /\ r.dialog[t].transaction = t
      BY <1>1, <1>11 DEF Listed
    <3>2. r.transaction[n].user = n /\ r.dialog[n].transaction = n
      BY <1>2, <1>5, <1>10
    <3> QED BY <1>8, <3>1, <3>2
  <2>10. \A b \in r.answers : b[1] \in Calls(r)
    BY <1>1, <1>9, <1>31 DEF Listed
  <2> QED BY <1>6, <2>1, <2>2, <2>6, <2>8, <2>9, <2>10 DEF Listed
<1>17. \A t \in Calls(r) : IsCall(r, t)
  <2>1. \A t \in Calls(s) : IsCall(s, t)
    BY <1>1 DEF Well
  <2>2. \A t \in Calls(s) : IsCall(r, t)
    BY <1>11, <1>14, <2>1, SameCall
  <2> QED BY <1>5, <1>8, <2>2
<1>18. Well(r)
  BY <1>5, <1>6, <1>13, <1>16, <1>17 DEF Well
<1>19. \A sent \in r.wire : Sendable(r, sent[1], sent[2])
  <2> SUFFICES ASSUME NEW sent \in r.wire
               PROVE  Sendable(r, sent[1], sent[2])
    OBVIOUS
  <2>1. sent = <<n, what>>
    BY <1>30
  <2>2. sent[1] = n /\ sent[2] = what
    BY <2>1
  <2> QED BY <1>5, <2>2
<1>20. r.told \in Notices /\ Told(r, r.told.event, r.told.ua)
  <2>1. CASE N.event = "none"
    BY <1>32, <2>1 DEF Told
  <2>2. CASE N.event # "none"
    BY <1>5, <1>32, <2>2
  <2> QED BY <2>1, <2>2
<1>21. r.told # NoEvent => r.told.ua \in Calls(r)
  BY <1>5, <1>9, <1>32
<1>22. \A k, j \in Numbers : Got(r, k, j) => Got(s, k, j)
  <2> SUFFICES ASSUME NEW k \in Numbers, NEW j \in Numbers, Got(r, k, j)
               PROVE  Got(s, k, j)
    OBVIOUS
  <2>1. k # n
    BY <1>2, <1>10 DEF Got
  <2>2. k \in Calls(s)
    BY <1>8, <2>1 DEF Got
  <2> QED BY <1>11, <2>2 DEF Got
<1> QED BY <1>15, <1>18, <1>19, <1>20, <1>21, <1>22 DEF Turned

\* What the machine of a new INVITE does first.
FirstState(type)   == IF type = "CLIENT_INVITE" THEN "CALLING" ELSE "PROCEEDING"
FirstLatest(type)  == IF type = "CLIENT_INVITE" THEN "none" ELSE "SEND_TRYING"
FirstSending(type) == IF type = "CLIENT_INVITE" THEN "request" ELSE "SEND_TRYING"

\* AddTransaction of a new call.
LEMMA CallStarts ==
    ASSUME NEW s, Ready(s), NEW a \in Nat, NEW m \in Requests,
           NEW type \in {"CLIENT_INVITE", "SERVER_INVITE"}
    PROVE  LET n == NewNumber(s)
               q == NewObjects(s, a, m, type) IN
           \E v : /\ StepOf(Fresh(m, n, type), v, FirstState(type), FirstLatest(type))
                  /\ AddTransaction(NewUa(s, a), m, n, type) =
                       Changed(q, q.dialog, q.transactions, [q.transaction EXCEPT ![n] = v],
                               {<<n, FirstSending(type)>>}, q.answers, NoEvent)
<1> DEFINE n == NewNumber(s)
           q == NewObjects(s, a, m, type)
           f == Fresh(m, n, type)
<1>1. Well(s) /\ s.wire = {} /\ s.told = NoEvent /\ s.transaction \in Seq(TransactionObjects)
  BY WellParts DEF Ready
<1>2. type \in TransactionTypes
  BY DEF TransactionTypes, ClientTypes, ServerTypes
<1>3. CallAdded(s, q, a, f) /\ NewUa(s, a).transaction = s.transaction
  BY <1>1, <1>2, NewObjectsParts
<1>4. n \in Nat /\ n # 0 /\ n = Len(s.transaction) + 1
  BY <1>1, NextNumber DEF Null
<1>5. AddTransaction(NewUa(s, a), m, n, type) = RunQuietly(q, n, "INIT")
  BY <1>3 DEF AddTransaction, NewObjects, NewNumber
<1> HIDE DEF q, n
<1>6. f \in TransactionObjects
  BY <1>2, <1>4 DEF Fresh, TransactionObjects, TransactionStates
<1>7. f.state = "INIT" /\ f.type = type /\ f.latest = "none"
  BY DEF Fresh
<1> HIDE DEF f
<1>8. q \in Stacks /\ q.wire = {} /\ q.told = NoEvent
  BY <1>1, <1>3 DEF CallAdded, Quiet
<1>9. q.transaction = Append(s.transaction, f)
  BY <1>3 DEF CallAdded
<1>10. q.transaction[n] = f /\ Len(q.transaction) = n
  BY <1>1, <1>4, <1>6, <1>9, Appended
<1>11. n \in Calls(q)
  BY <1>4, <1>10 DEF Calls
<1>12. CASE type = "CLIENT_INVITE"
  <2>1. PICK v :
          /\ StepOf(f, v, "CALLING", "none")
          /\ RunQuietly(q, n, "INIT") =
               Changed(q, q.dialog, q.transactions, [q.transaction EXCEPT ![n] = v],
                       q.wire \cup {<<n, "request">>}, q.answers, q.told)
    <3>1. q.transaction[n].state = "INIT" /\ q.transaction[n].type = "CLIENT_INVITE"
            /\ q.transaction[n].latest = "none"
      BY <1>7, <1>10, <1>12
    <3> QED BY <1>8, <1>10, <1>11, <3>1, Starts
  <2>2. q.wire \cup {<<n, "request">>} = {<<n, FirstSending(type)>>}
    BY <1>8, <1>12 DEF FirstSending
  <2>3. "CALLING" = FirstState(type) /\ "none" = FirstLatest(type)
    BY <1>12 DEF FirstState, FirstLatest
  <2>4. RunQuietly(q, n, "INIT") =
          Changed(q, q.dialog, q.transactions, [q.transaction EXCEPT ![n] = v],
                  {<<n, FirstSending(type)>>}, q.answers, NoEvent)
    BY <1>8, <2>1, <2>2
  <2> QED BY <1>5, <2>1, <2>3, <2>4 DEF f, q, n
<1>13. CASE type = "SERVER_INVITE"
  <2>1. PICK v :
          /\ StepOf(f, v, "PROCEEDING", "SEND_TRYING")
          /\ RunQuietly(q, n, "INIT") =
               Changed(q, q.dialog, q.transactions, [q.transaction EXCEPT ![n] = v],
                       q.wire \cup {<<n, "SEND_TRYING">>}, q.answers, q.told)
    <3>1. q.transaction[n].state = "INIT" /\ q.transaction[n].type = "SERVER_INVITE"
      BY <1>7, <1>10, <1>13
    <3> QED BY <1>8, <1>10, <1>11, <3>1, Starts
  <2>2. q.wire \cup {<<n, "SEND_TRYING">>} = {<<n, FirstSending(type)>>}
    BY <1>8, <1>13 DEF FirstSending
  <2>3. "PROCEEDING" = FirstState(type) /\ "SEND_TRYING" = FirstLatest(type)
    BY <1>13 DEF FirstState, FirstLatest
  <2>4. RunQuietly(q, n, "INIT") =
          Changed(q, q.dialog, q.transactions, [q.transaction EXCEPT ![n] = v],
                  {<<n, FirstSending(type)>>}, q.answers, NoEvent)
    BY <1>8, <2>1, <2>2
  <2> QED BY <1>5, <2>1, <2>3, <2>4 DEF f, q, n
<1> QED BY <1>12, <1>13

\* The id of a call just made: the two parts that its INVITE decides.
FirstId(type, m) ==
    IF type = "CLIENT_INVITE" THEN CallerId(EmptyDialogId, m.from, m.call)
                              ELSE CalledId(EmptyDialogId, m.from, m.call)

\* What the client is told of it.
FirstTold(type, q, n) ==
    IF type = "CLIENT_INVITE" THEN NoEvent
    ELSE [event |-> "CALL_INCOMING", ua |-> n, position |-> GetUaPosition(q, n)]

\* DialogNewTransaction of a new call (Dialog.c:217).
LEMMA NewCall ==
    ASSUME NEW s, Ready(s), NEW a \in Nat, NEW m \in Requests,
           NEW type \in {"CLIENT_INVITE", "SERVER_INVITE"}
    PROVE  LET n == NewNumber(s)
               q == NewObjects(s, a, m, type)
               w == CallDialog(BlankDialog, n, FirstId(type, m)) IN
           \E v : /\ StepOf(Fresh(m, n, type), v, FirstState(type), FirstLatest(type))
                  /\ DialogNewTransaction(NewUa(s, a), n, m, type) =
                       NewMoved(q, n, v, w, {<<n, FirstSending(type)>>}, FirstTold(type, q, n))
<1> DEFINE n == NewNumber(s)
           q == NewObjects(s, a, m, type)
           f == Fresh(m, n, type)
           w == CallDialog(BlankDialog, n, FirstId(type, m))
           W == {<<n, FirstSending(type)>>}
           D == [q.dialog EXCEPT ![n] = w]
<1>1. Well(s) /\ s.dialog \in Seq(DialogObjects) /\ s.transaction \in Seq(TransactionObjects)
  BY WellParts DEF Ready
<1>2. PICK v :
        /\ StepOf(f, v, FirstState(type), FirstLatest(type))
        /\ AddTransaction(NewUa(s, a), m, n, type) =
             Changed(q, q.dialog, q.transactions, [q.transaction EXCEPT ![n] = v],
                     W, q.answers, NoEvent)
  BY CallStarts
<1> DEFINE T  == [q.transaction EXCEPT ![n] = v]
           s1 == AddTransaction(NewUa(s, a), m, n, type)
           s2 == [s1 EXCEPT !.dialog[n].transaction = Len(s1.transaction)]
<1>23. type \in TransactionTypes
  BY DEF TransactionTypes, ClientTypes, ServerTypes
<1>3. CallAdded(s, q, a, f)
  BY <1>1, <1>23, NewObjectsParts
<1>4. n \in Nat /\ n # 0 /\ n = Len(s.transaction) + 1 /\ n = Len(s.dialog) + 1
  BY <1>1, NextNumber DEF Null
<1>5. f \in TransactionObjects
  BY <1>4, <1>23 DEF Fresh, TransactionObjects, TransactionStates
<1>6. BlankDialog \in DialogObjects /\ BlankDialog.id = EmptyDialogId
  BY DEF BlankDialog, FreedDialog, EmptyDialogId, DialogObjects, DialogIds, Tags, Null
<1>7. v \in TransactionObjects
  BY <1>2 DEF StepOf
<1> HIDE DEF q, n, f, W
<1>8. q \in Stacks
  BY <1>3 DEF CallAdded, Quiet
<1>9. q.transaction = Append(s.transaction, f)
  BY <1>3 DEF CallAdded
<1>10. q.dialog = Append(s.dialog, BlankDialog)
  BY <1>3 DEF CallAdded
<1>11. Len(q.transaction) = n /\ q.transaction \in Seq(TransactionObjects)
  BY <1>1, <1>4, <1>5, <1>9, Appended
<1>12. n \in DOMAIN q.dialog /\ q.dialog[n] = BlankDialog
  BY <1>1, <1>4, <1>6, <1>10, Appended
<1>13. T \in Seq(TransactionObjects) /\ Len(T) = n
  BY <1>4, <1>7, <1>11
<1> HIDE DEF T, s1
<1>14. s1 = Changed(q, q.dialog, q.transactions, T, W, q.answers, NoEvent)
  BY <1>2 DEF s1, T
<1>15. /\ s1.dialog = q.dialog /\ s1.transaction = T /\ s1.wire = W
       /\ s1.answers = q.answers /\ s1.told = NoEvent /\ s1.transactions = q.transactions
  BY <1>8, <1>14, ChangedFields
<1>16. s1 \in Stacks
  <2>1. /\ q.dialog \in Seq(DialogObjects) /\ q.transactions \in Seq(Nat)
        /\ q.answers \in SUBSET (Nat \X SendEvents)
    BY <1>8 DEF Stacks
  <2>2. W \in SUBSET (Nat \X Sendings)
    BY <1>4 DEF W, FirstSending, Sendings, SendEvents
  <2>3. NoEvent \in Notices
    BY DEF NoEvent, Notices, Null
  <2> QED BY <1>8, <1>13, <1>14, <2>1, <2>2, <2>3, ChangedIsStack
<1>17. n \in DOMAIN s1.dialog /\ s1.dialog[n] = BlankDialog /\ Len(s1.transaction) = n
  BY <1>12, <1>13, <1>15
<1> DEFINE c1 == AsCaller(s2, n, m.from, m.call)
           c2 == AsCalled(s2, n, m.from, m.call)
<1> HIDE DEF s2
<1>18. /\ type = "CLIENT_INVITE" => c1 = Redialed(s1, n, w)
       /\ type = "SERVER_INVITE" => c2 = Redialed(s1, n, w)
  <2>1. s2 = WithTransaction(s1, n, n)
    BY <1>17 DEF s2, WithTransaction
  <2>2. /\ c1 = Redialed(s1, n, CallDialog(s1.dialog[n], n,
                                           CallerId(s1.dialog[n].id, m.from, m.call)))
        /\ c2 = Redialed(s1, n, CallDialog(s1.dialog[n], n,
                                           CalledId(s1.dialog[n].id, m.from, m.call)))
    BY <1>16, <1>17, <2>1, CalledDialog
  <2> HIDE DEF c1, c2
  <2>3. s1.dialog[n] = BlankDialog /\ s1.dialog[n].id = EmptyDialogId
    BY <1>6, <1>17
  <2>4. CASE type = "CLIENT_INVITE"
    BY <2>2, <2>3, <2>4 DEF FirstId
  <2>5. CASE type = "SERVER_INVITE"
    BY <2>2, <2>3, <2>5 DEF FirstId
  <2> QED BY <2>4, <2>5
<1> HIDE DEF w, c1, c2
<1>19. Redialed(s1, n, w) = Changed(q, D, q.transactions, T, W, q.answers, NoEvent)
  <2>1. Redialed(s1, n, w) = Changed(s1, D, q.transactions, T, W, q.answers, NoEvent)
    BY <1>15, <1>16, <1>17, ChangedByDialog
  <2> HIDE DEF D
  <2> QED BY <1>8, <1>14, <2>1, ChangedTwice
<1>20. DialogNewTransaction(NewUa(s, a), n, m, type) =
         IF type = "CLIENT_INVITE" THEN c1 ELSE NotifyCm(c2, "CALL_INCOMING", n)
  BY DEF DialogNewTransaction, s1, s2, c1, c2, AsCaller, AsCalled
<1> HIDE DEF D
<1>21. DialogNewTransaction(NewUa(s, a), n, m, type) =
         Changed(q, D, q.transactions, T, W, q.answers, FirstTold(type, q, n))
  <2>1. CASE type = "CLIENT_INVITE"
    BY <1>18, <1>19, <1>20, <2>1 DEF FirstTold
  <2>2. CASE type = "SERVER_INVITE"
    <3>1. NotifyCm(Redialed(s1, n, w), "CALL_INCOMING", n) =
            Changed(q, D, q.transactions, T, W, q.answers,
                    [event |-> "CALL_INCOMING", ua |-> n, position |-> GetUaPosition(q, n)])
      BY <1>8, <1>19, ChangedByTelling
    <3> QED BY <1>18, <1>20, <2>2, <3>1 DEF FirstTold
  <2> QED BY <2>1, <2>2
<1>22. DialogNewTransaction(NewUa(s, a), n, m, type) =
         NewMoved(q, n, v, w, W, FirstTold(type, q, n))
  BY <1>21 DEF NewMoved, D, T
<1> QED BY <1>2, <1>22 DEF n, q, f, w, W

\* The INVITEs are requests.
LEMMA Invites ==
    ASSUME NEW k \in Nat
    PROVE  /\ OutInvite(k) \in Requests /\ InInvite(k) \in Requests
           /\ Theirs(k) \in Nat
<1>1. Theirs(k) \in Nat
  BY PhonesAssumption DEF Theirs
<1> HIDE DEF Theirs
<1> QED BY <1>1 DEF OutInvite, InInvite, Request, Requests, Tags

\* A position is a number, also that of a user agent which is not listed.
LEMMA PositionIsInt ==
    ASSUME NEW s, s.uas \in Seq(Nat), NEW u
    PROVE  GetUaPosition(s, u) \in Int
<1>1. ASSUME InList(s.uas, u)
      PROVE  (CHOOSE i \in DOMAIN s.uas : s.uas[i] = u) \in Nat
  BY <1>1 DEF InList
<1> QED BY <1>1 DEF GetUaPosition

\* The dialog of a new call.
LEMMA FirstDialog ==
    ASSUME NEW n \in Nat, NEW tag \in Tags, NEW call \in Tags
    PROVE  /\ LET w == CallDialog(BlankDialog, n, CallerId(EmptyDialogId, tag, call)) IN
              /\ w \in DialogObjects /\ w.transaction = n /\ w.state = "NON_EXIST"
              /\ w.id.call = call /\ w.id.local = tag /\ w.id.remote = Nil
           /\ LET w == CallDialog(BlankDialog, n, CalledId(EmptyDialogId, tag, call)) IN
              /\ w \in DialogObjects /\ w.transaction = n /\ w.state = "NON_EXIST"
              /\ w.id.call = call /\ w.id.local = Nil /\ w.id.remote = tag
<1> DEFINE e == EmptyDialogId
           i == CallerId(EmptyDialogId, tag, call)
           j == CalledId(EmptyDialogId, tag, call)
<1>1. e \in DialogIds /\ e.local = Nil /\ e.remote = Nil
  BY DEF EmptyDialogId, DialogIds, Tags
<1> HIDE DEF e
<1>2. /\ [e EXCEPT !.local = tag] \in DialogIds /\ [e EXCEPT !.local = tag].local = tag
      /\ [e EXCEPT !.local = tag].remote = Nil
  BY <1>1 DEF DialogIds
<1>3. /\ [e EXCEPT !.remote = tag] \in DialogIds /\ [e EXCEPT !.remote = tag].remote = tag
      /\ [e EXCEPT !.remote = tag].local = Nil
  BY <1>1 DEF DialogIds
<1>4. \A a \in DialogIds : /\ [a EXCEPT !.call = call] \in DialogIds
                           /\ [a EXCEPT !.call = call].call = call
                           /\ [a EXCEPT !.call = call].local = a.local
                           /\ [a EXCEPT !.call = call].remote = a.remote
  BY DEF DialogIds
<1>5. i \in DialogIds /\ i.call = call /\ i.local = tag /\ i.remote = Nil
  BY <1>2, <1>4 DEF CallerId, e
<1>6. j \in DialogIds /\ j.call = call /\ j.local = Nil /\ j.remote = tag
  BY <1>3, <1>4 DEF CalledId, e
<1>7. BlankDialog \in DialogObjects /\ BlankDialog.state = "NON_EXIST"
  BY <1>1 DEF BlankDialog, FreedDialog, Null, DialogObjects, e
<1>8. \A a \in DialogIds :
        LET w == CallDialog(BlankDialog, n, a) IN
        w \in DialogObjects /\ w.transaction = n /\ w.state = "NON_EXIST" /\ w.id = a
  BY <1>7 DEF CallDialog, DialogObjects
<1> HIDE DEF i, j
<1> QED BY <1>5, <1>6, <1>8 DEF i, j

\* A number that no call has was never accepted.
LEMMA NewNotTaken ==
    ASSUME NEW s, Well(s), NEW r, r.answers = s.answers
    PROVE  ~Took(r, NewNumber(s))
<1>1. \A a \in s.answers : a[1] \in Calls(s)
  BY DEF Well, Listed
<1>2. NewNumber(s) \notin Calls(s)
  BY NextNumber
<1> QED BY <1>1, <1>2 DEF Took

\* Calling out sends an INVITE (CallManager.c).
LEMMA CallOutTurns ==
    ASSUME NEW s, Ready(s), NewNumber(s) <= MaxTransactions
    PROVE  Turned(s, CallOut(s), {})
<1> DEFINE n == NewNumber(s)
           m == OutInvite(n)
           type == "CLIENT_INVITE"
           q == NewObjects(s, 1, m, type)
           f == Fresh(m, n, type)
           w == CallDialog(BlankDialog, n, CallerId(EmptyDialogId, n, n))
           r == CallOut(s)
           x == "request"
           W == {<<n, x>>}
<1>1. Well(s)
  BY DEF Ready
<1>2. n \in Nat /\ n # Null /\ n = Len(s.transaction) + 1
  BY <1>1, NextNumber
<1>3. m \in Requests /\ m.from = n /\ m.call = n
  BY <1>2, Invites DEF OutInvite, Request
<1>4. type \in TransactionTypes /\ type \in {"CLIENT_INVITE", "SERVER_INVITE"}
  BY DEF TransactionTypes, ClientTypes, ServerTypes
<1>5. CallAdded(s, q, 1, f) /\ Len(NewUa(s, 1).dialog) = n
        /\ NewUa(s, 1).transaction = s.transaction
  BY <1>1, <1>3, <1>4, NewObjectsParts
<1>6. r = DialogNewTransaction(NewUa(s, 1), n, m, type)
  <2>1. BuildRequest(NewUa(s, 1), "INVITE") = m
    BY <1>2, <1>5 DEF BuildRequest, OutInvite
  <2>2. r = DialogInvite(NewUa(s, 1), Len(NewUa(s, 1).dialog))
    BY DEF CallOut, NewUa
  <2> HIDE DEF m, r, n
  <2> QED BY <1>5, <2>1, <2>2 DEF DialogInvite
<1>7. f \in TransactionObjects /\ f.user = n /\ f.type = type /\ f.request = m
  BY <1>2, <1>3, <1>4 DEF Fresh, TransactionObjects, TransactionStates
<1> HIDE DEF q, f, r, m
<1>8. PICK v : /\ StepOf(f, v, FirstState(type), FirstLatest(type))
               /\ r = NewMoved(q, n, v, CallDialog(BlankDialog, n, FirstId(type, m)),
                               {<<n, FirstSending(type)>>}, FirstTold(type, q, n))
  BY <1>3, <1>4, <1>6, NewCall DEF q, f
<1>9. StepOf(f, v, "CALLING", "none")
  BY <1>8 DEF FirstState, FirstLatest
<1>10. r = NewMoved(q, n, v, w, W, NoEvent)
  BY <1>3, <1>8 DEF FirstId, FirstSending, FirstTold
<1>11. /\ w \in DialogObjects /\ w.transaction = n
       /\ w.id.call = n /\ w.id.local = n /\ w.id.remote = Nil
  BY <1>2, FirstDialog DEF Tags
<1> HIDE DEF w, W
<1>12. v \in TransactionObjects /\ v.type = type /\ v.request = m /\ v.state = "CALLING"
  BY <1>7, <1>9 DEF StepOf
<1>13. NewCallIn(s, r, n, 1, v, w) /\ r.answers = s.answers
  BY <1>1, <1>5, <1>7, <1>10, <1>11, <1>12, NewCallParts
<1>14. r.transaction[n] = v /\ r.dialog[n] = w /\ Len(r.transaction) = n
  BY <1>13 DEF NewCallIn
<1>15. ~Took(r, n)
  BY <1>1, <1>13, NewNotTaken
<1>16. n \in Calls(r)
  BY <1>2, <1>14 DEF Calls, Null
<1>17. IsCall(r, n)
  BY <1>11, <1>12, <1>14, <1>15 DEF IsCall, Outgoing, m
<1>18. Sendable(r, n, x)
  BY <1>12, <1>14, <1>16 DEF Sendable
<1>19. NoEvent \in Notices /\ NoEvent.event = "none" /\ Told(r, NoEvent.event, n)
  BY DEF NoEvent, Notices, Null, Told
<1>20. x \in Sendings /\ "CALLING" # "TERMINATED"
  BY DEF Sendings
<1> HIDE DEF x
<1>21. Turned(s, r, {})
  BY <1>5, <1>7, <1>9, <1>10, <1>11, <1>17, <1>18, <1>19, <1>20, NewCallTurns DEF W
<1> QED BY <1>21 DEF r

\* An INVITE of the other phone that matches nothing makes a call, which waits
\* (Dialog.c:298).
LEMMA CallInTurns ==
    ASSUME NEW s, Ready(s), NewNumber(s) <= MaxTransactions, NEW k \in Numbers
    PROVE  Turned(s, DialogNewTransaction(NewUa(s, 0), NewNumber(s), InInvite(k),
                                          "SERVER_INVITE"), {})
<1> DEFINE n == NewNumber(s)
           m == InInvite(k)
           c == Theirs(k)
           type == "SERVER_INVITE"
           q == NewObjects(s, 0, m, type)
           f == Fresh(m, n, type)
           w == CallDialog(BlankDialog, n, CalledId(EmptyDialogId, c, c))
           r == DialogNewTransaction(NewUa(s, 0), n, m, type)
           x == "SEND_TRYING"
           W == {<<n, x>>}
           N == [event |-> "CALL_INCOMING", ua |-> n, position |-> GetUaPosition(q, n)]
<1>1. Well(s) /\ k \in Nat
  BY WellParts DEF Ready
<1>2. n \in Nat /\ n # Null /\ n = Len(s.transaction) + 1
  BY <1>1, NextNumber
<1>3. m \in Requests /\ m.from = c /\ m.call = c /\ c \in Nat
  BY <1>1, Invites DEF InInvite, Request
<1> HIDE DEF c
<1>4. type \in TransactionTypes /\ type \in {"CLIENT_INVITE", "SERVER_INVITE"}
  BY DEF TransactionTypes, ClientTypes, ServerTypes
<1>5. CallAdded(s, q, 0, f)
  BY <1>1, <1>3, <1>4, NewObjectsParts
<1>7. f \in TransactionObjects /\ f.user = n /\ f.type = type /\ f.request = m
  BY <1>2, <1>3, <1>4 DEF Fresh, TransactionObjects, TransactionStates
<1> HIDE DEF q, f, m
<1>8. PICK v : /\ StepOf(f, v, FirstState(type), FirstLatest(type))
               /\ r = NewMoved(q, n, v, CallDialog(BlankDialog, n, FirstId(type, m)),
                               {<<n, FirstSending(type)>>}, FirstTold(type, q, n))
  BY <1>3, <1>4, NewCall DEF q, f
<1> HIDE DEF r
<1>9. StepOf(f, v, "PROCEEDING", "SEND_TRYING")
  BY <1>8 DEF FirstState, FirstLatest
<1>10. r = NewMoved(q, n, v, w, W, N)
  BY <1>3, <1>8 DEF FirstId, FirstSending, FirstTold
<1>11. /\ w \in DialogObjects /\ w.transaction = n /\ w.state = "NON_EXIST"
       /\ w.id.call = c /\ w.id.local = Nil /\ w.id.remote = c
  BY <1>2, <1>3, FirstDialog DEF Tags
<1>22. N \in Notices /\ N.event = "CALL_INCOMING" /\ N.ua = n
  <2>1. q \in Stacks
    BY <1>5 DEF CallAdded, Quiet
  <2>2. GetUaPosition(q, n) \in Int
    BY <2>1, PositionIsInt DEF Stacks
  <2> QED BY <1>2, <2>2 DEF Notices
<1> HIDE DEF w, W, N
<1>12. /\ v \in TransactionObjects /\ v.type = type /\ v.request = m
       /\ v.state = "PROCEEDING" /\ v.latest = "SEND_TRYING"
  BY <1>7, <1>9 DEF StepOf
<1>13. NewCallIn(s, r, n, 0, v, w) /\ r.answers = s.answers
  BY <1>1, <1>5, <1>7, <1>10, <1>11, <1>12, NewCallParts
<1>14. r.transaction[n] = v /\ r.dialog[n] = w /\ Len(r.transaction) = n
  BY <1>13 DEF NewCallIn
<1>15. ~Took(r, n)
  BY <1>1, <1>13, NewNotTaken
<1>16. n \in Calls(r)
  BY <1>2, <1>14 DEF Calls, Null
<1>17. IsCall(r, n)
  <2>1. Incoming(r, n, k)
    BY <1>11, <1>12, <1>14, <1>15 DEF Incoming, m, c
  <2> QED BY <2>1 DEF IsCall
<1>18. Sendable(r, n, x)
  BY <1>12, <1>14, <1>16 DEF Sendable
<1>19. Told(r, N.event, n)
  BY <1>12, <1>14, <1>16, <1>22 DEF Told
<1>20. x \in Sendings /\ "PROCEEDING" # "TERMINATED"
  BY DEF Sendings, SendEvents
<1>23. /\ N.event # "none" => N.ua = n
       /\ N.event = "none" => N = NoEvent
  BY <1>22
<1> HIDE DEF x
<1>21. Turned(s, r, {})
  BY <1>5, <1>7, <1>9, <1>10, <1>11, <1>17, <1>18, <1>19, <1>20, <1>22, <1>23,
     NewCallTurns DEF W
<1> QED BY <1>21 DEF r, m

-----------------------------------------------------------------------------
(* The messages *)

\* A turn in which nothing happens.
LEMMA NothingTurns ==
    ASSUME NEW s, Ready(s), NEW pairs
    PROVE  Turned(s, s, pairs)
<1>1. Well(s) /\ s.wire = {} /\ s.told = NoEvent
  BY DEF Ready
<1>2. \A t \in Calls(s) : Kept(s, s, t)
  BY DEF Kept
<1>3. s.told \in Notices /\ Told(s, s.told.event, s.told.ua)
  BY <1>1 DEF NoEvent, Notices, Null, Told
<1> QED BY <1>1, <1>2, <1>3 DEF Turned

\* A transaction that is found is a listed call, with that branch and method.
LEMMA MatchedCall ==
    ASSUME NEW s, Well(s), NEW branch, NEW method,
           NEW t, t = GetTransaction(s, branch, method), t # Null
    PROVE  /\ t \in Calls(s) /\ s.transaction[t].state # "TERMINATED"
           /\ s.transaction[t].request.branch = branch
           /\ s.transaction[t].request.method = method
<1> DEFINE S == {u \in DOMAIN s.transaction : TransactionMatched(s, u, branch, method)}
<1>1. s.transactions \in Seq(Nat) /\ Calls(s) = DOMAIN s.transaction
  BY WellParts
<1>2. t = FirstInList(s.transactions, S)
  BY DEF GetTransaction
<1> HIDE DEF S
<1>3. InList(s.transactions, t) /\ t \in S
  BY <1>1, <1>2, FirstFound
<1>4. t \in Calls(s) /\ TransactionMatched(s, t, branch, method)
  BY <1>1, <1>3 DEF S
<1>5. s.transaction[t].state # "TERMINATED"
  BY <1>3, <1>4, WellCall
<1> QED BY <1>4, <1>5 DEF TransactionMatched

\* The names of an INVITE and of the messages that belong to it.
LEMMA NamesOfInvites ==
    ASSUME NEW k
    PROVE  /\ OutInvite(k).branch = <<"here", k>> /\ OutInvite(k).method = "INVITE"
           /\ InInvite(k).branch = <<"there", k>> /\ InInvite(k).method = "INVITE"
BY DEF OutInvite, InInvite, Request

LEMMA NamesOfMessages ==
    ASSUME NEW k, NEW j
    PROVE  /\ Reply(k, j).branch = <<"here", k>> /\ Reply(k, j).method = "INVITE"
           /\ InAck(k, j).branch = <<"there", 0>> /\ InAck(k, j).method = "ACK"
BY DEF Reply, InAck, Request

\* The transaction of an INVITE of the other phone is a call that waits, and that
\* of a response a call of ours that waits.
LEMMA MatchedInvite ==
    ASSUME NEW s, Well(s), NEW t, t # Null
    PROVE  /\ \A k \in Nat : t = GetTransaction(s, <<"there", k>>, "INVITE") => Waiting(s, t)
           /\ \A k \in Nat : t = GetTransaction(s, <<"here", k>>, "INVITE") =>
                t = k /\ Calling(s, t)
<1>1. ASSUME NEW k \in Nat, t = GetTransaction(s, <<"there", k>>, "INVITE")
      PROVE  Waiting(s, t)
  <2>1. /\ t \in Calls(s) /\ s.transaction[t].state # "TERMINATED"
        /\ s.transaction[t].request.branch = <<"there", k>>
    BY <1>1, MatchedCall
  <2>2. IsCall(s, t)
    BY <2>1, WellCall
  <2>3. ~Outgoing(s, t)
    <3>1. s.transaction[t].request # OutInvite(t)
      BY <2>1, NamesOfInvites
    <3> QED BY <3>1 DEF Outgoing
  <2>4. PICK j \in Numbers : Incoming(s, t, j)
    BY <2>2, <2>3 DEF IsCall
  <2> QED BY <2>1, <2>4 DEF Incoming, Waiting
<1>2. ASSUME NEW k \in Nat, t = GetTransaction(s, <<"here", k>>, "INVITE")
      PROVE  t = k /\ Calling(s, t)
  <2>1. /\ t \in Calls(s) /\ s.transaction[t].state # "TERMINATED"
        /\ s.transaction[t].request.branch = <<"here", k>>
    BY <1>2, MatchedCall
  <2>2. IsCall(s, t)
    BY <2>1, WellCall
  <2>3. \A j : ~Incoming(s, t, j)
    <3>1. \A j : s.transaction[t].request # InInvite(j)
      BY <2>1, NamesOfInvites
    <3> QED BY <3>1 DEF Incoming
  <2>4. Outgoing(s, t)
    BY <2>2, <2>3 DEF IsCall
  <2>5. t = k
    <3>1. s.transaction[t].request = OutInvite(t)
      BY <2>4 DEF Outgoing
    <3> QED BY <2>1, <3>1, NamesOfInvites
  <2> QED BY <2>1, <2>4, <2>5 DEF Outgoing, Calling
<1> QED BY <1>1, <1>2

\* A new call is one more transaction.
LEMMA NewCallLength ==
    ASSUME NEW s, Ready(s), NEW a \in Nat, NEW m \in Requests,
           NEW type \in {"CLIENT_INVITE", "SERVER_INVITE"}
    PROVE  Len(DialogNewTransaction(NewUa(s, a), NewNumber(s), m, type).transaction) =
             NewNumber(s)
<1> DEFINE n == NewNumber(s)
           q == NewObjects(s, a, m, type)
           f == Fresh(m, n, type)
           w == CallDialog(BlankDialog, n, FirstId(type, m))
           r == DialogNewTransaction(NewUa(s, a), n, m, type)
           D == [q.dialog EXCEPT ![n] = w]
<1>1. Well(s) /\ s.transaction \in Seq(TransactionObjects) /\ type \in TransactionTypes
  BY WellParts DEF Ready, TransactionTypes, ClientTypes, ServerTypes
<1>2. CallAdded(s, q, a, f) /\ n \in Nat /\ n = Len(s.transaction) + 1
  BY <1>1, NewObjectsParts, NextNumber
<1>3. f \in TransactionObjects
  BY <1>1, <1>2 DEF Fresh, TransactionObjects, TransactionStates
<1> HIDE DEF f
<1> DEFINE W == {<<n, FirstSending(type)>>}
           N == FirstTold(type, q, n)
<1>4. PICK v : /\ StepOf(Fresh(m, n, type), v, FirstState(type), FirstLatest(type))
               /\ r = NewMoved(q, n, v, w, W, N)
  BY NewCall
<1> DEFINE T == [q.transaction EXCEPT ![n] = v]
<1> HIDE DEF q, r, w, n, W, N
<1>5. q \in Stacks
  BY <1>2 DEF CallAdded, Quiet
<1>6. q.transaction = Append(s.transaction, f)
  BY <1>2 DEF CallAdded, n
<1>7. Len(q.transaction) = n /\ q.transaction \in Seq(TransactionObjects)
  BY <1>1, <1>2, <1>3, <1>6, Appended
<1>8. Len(T) = n
  BY <1>7
<1> HIDE DEF T, D
<1>9. r = Changed(q, D, q.transactions, T, W, q.answers, N)
  BY <1>4 DEF NewMoved, D, T
<1>10. r.transaction = T
  BY <1>5, <1>9, ChangedFields
<1> QED BY <1>8, <1>10 DEF r, n

\* Calling out has its bound from the number of transactions.
LEMMA CallOutLength ==
    ASSUME NEW s, Ready(s)
    PROVE  Len(CallOut(s).transaction) = NewNumber(s)
<1> DEFINE n == NewNumber(s)
           m == OutInvite(n)
<1>1. Well(s) /\ n \in Nat /\ n = Len(s.transaction) + 1
  BY NextNumber DEF Ready
<1>2. m \in Requests
  BY <1>1, Invites
<1>3. Len(NewUa(s, 1).dialog) = n /\ NewUa(s, 1).transaction = s.transaction
  <2>1. "CLIENT_INVITE" \in TransactionTypes
    BY DEF TransactionTypes, ClientTypes, ServerTypes
  <2> HIDE DEF m, n
  <2> QED BY <1>1, <1>2, <2>1, NewObjectsParts DEF n
<1>4. BuildRequest(NewUa(s, 1), "INVITE") = m
  BY <1>1, <1>3 DEF BuildRequest, OutInvite
<1>5. CallOut(s) = DialogInvite(NewUa(s, 1), Len(NewUa(s, 1).dialog))
  BY DEF CallOut, NewUa
<1>6. CallOut(s) = DialogNewTransaction(NewUa(s, 1), n, m, "CLIENT_INVITE")
  <2> HIDE DEF m, n
  <2> QED BY <1>3, <1>4, <1>5 DEF DialogInvite
<1> HIDE DEF m
<1> QED BY <1>2, <1>6, NewCallLength

\* An INVITE of the other phone, perhaps not for the first time.
LEMMA InviteTurns ==
    ASSUME NEW s, Ready(s), NEW k \in Numbers, NEW r,
           r = TmHandleRequestMessage(s, InInvite(k)),
           Len(r.transaction) <= MaxTransactions
    PROVE  Turned(s, r, {})
<1> DEFINE m == InInvite(k)
           t == GetTransaction(s, <<"there", k>>, "INVITE")
           n == NewNumber(s)
<1>1. Well(s) /\ k \in Nat /\ m \in Requests /\ n \in Nat
  BY WellParts, Invites, NextNumber DEF Ready
<1>2. MatchRequest(s, m) = t
  BY NamesOfInvites DEF MatchRequest
<1>3. m.method = "INVITE"
  BY NamesOfInvites
<1> HIDE DEF m, t
<1>4. CASE t # Null
  <2>1. Waiting(s, t)
    BY <1>1, <1>4, MatchedInvite DEF t
  <2>2. r = RunQuietly(s, t, "INVITE")
    BY <1>2, <1>3, <1>4 DEF TmHandleRequestMessage, TmRequestInTransaction, m
  <2> QED BY <2>1, <2>2, CopyTurns
<1>5. CASE t = Null
  <2>1. r = HandleInviteEvent(s, Null, "NEW", m)
    BY <1>2, <1>3, <1>5 DEF TmHandleRequestMessage, TmNewTransaction,
       OnTransactionEvent, m
  <2>2. CASE MatchMessage2Dialog(s, m) = Null
    <3>1. Len(NewUa(s, 0).dialog) = n
      <4>1. "SERVER_INVITE" \in TransactionTypes /\ 0 \in Nat
        BY DEF TransactionTypes, ClientTypes, ServerTypes
      <4> HIDE DEF n
      <4> QED BY <1>1, <4>1, NewObjectsParts DEF n
    <3>2. r = DialogNewTransaction(NewUa(s, 0), n, m, "SERVER_INVITE")
      <4>1. r = DialogNewTransaction(NewUa(s, 0), Len(NewUa(s, 0).dialog), m,
                                     "SERVER_INVITE")
        BY <2>1, <2>2 DEF HandleInviteEvent, NewUa
      <4> QED BY <3>1, <4>1
    <3>3. Len(r.transaction) = n
      BY <1>1, <3>2, NewCallLength
    <3> QED BY <3>2, <3>3, CallInTurns DEF m
  <2>3. CASE MatchMessage2Dialog(s, m) # Null
    <3>1. r = s
      BY <2>1, <2>3 DEF HandleInviteEvent
    <3> QED BY <3>1, NothingTurns
  <2> QED BY <2>2, <2>3
<1> QED BY <1>4, <1>5

\* An ACK matches no transaction, and no handler takes it.
LEMMA AckTurns ==
    ASSUME NEW s, Ready(s), NEW k, NEW j
    PROVE  Turned(s, TmHandleRequestMessage(s, InAck(k, j)), {})
<1> DEFINE m == InAck(k, j)
           t == GetTransaction(s, <<"there", 0>>, "ACK")
<1>1. Well(s)
  BY DEF Ready
<1>2. m.branch = <<"there", 0>> /\ m.method = "ACK"
  BY NamesOfMessages
<1> HIDE DEF m
<1>3. MatchRequest(s, m) = t
  BY <1>2 DEF MatchRequest
<1>4. t = Null
  <2> SUFFICES ASSUME t # Null PROVE FALSE
    OBVIOUS
  <2>1. t \in Calls(s) /\ s.transaction[t].request.method = "ACK"
    <3> HIDE DEF t
    <3> QED BY <1>1, MatchedCall DEF t
  <2>2. IsCall(s, t)
    BY <1>1, <2>1, WellCall
  <2> QED BY <2>1, <2>2, NamesOfInvites DEF IsCall, Outgoing, Incoming
<1> HIDE DEF t
<1>5. TmHandleRequestMessage(s, m) = s
  BY <1>2, <1>3, <1>4 DEF TmHandleRequestMessage, TmNewTransaction, OnTransactionEvent
<1> QED BY <1>5, NothingTurns DEF m

\* A response that is not final, perhaps too late.
LEMMA RingingHeard ==
    ASSUME NEW s, Ready(s), NEW k \in Numbers, NEW tag
    PROVE  Turned(s, TmHandleReponseMessage(s, "1XX", Reply(k, tag)), {})
<1> DEFINE m == Reply(k, tag)
           t == GetTransaction(s, <<"here", k>>, "INVITE")
<1>1. Well(s) /\ k \in Nat
  BY WellParts DEF Ready
<1>2. MatchResponse(s, m) = t
  BY NamesOfMessages DEF MatchResponse
<1> HIDE DEF m, t
<1>3. CASE t # Null
  <2>1. Calling(s, t)
    BY <1>1, <1>3, MatchedInvite DEF t
  <2>2. TmHandleReponseMessage(s, "1XX", m) = RunFsm(s, t, "1XX", m)
    BY <1>2, <1>3 DEF TmHandleReponseMessage
  <2> QED BY <2>1, <2>2, ProvisionalTurns DEF m
<1>4. CASE t = Null
  <2>1. TmHandleReponseMessage(s, "1XX", m) = s
    BY <1>2, <1>4 DEF TmHandleReponseMessage
  <2> QED BY <2>1, NothingTurns DEF m
<1> QED BY <1>3, <1>4

\* A 200, perhaps not the first.
LEMMA OkHeard ==
    ASSUME NEW s, Ready(s), NEW k \in Numbers, NEW j \in Numbers
    PROVE  Turned(s, TmHandleReponseMessage(s, "2XX", Reply(k, Theirs(j))), {<<k, j>>})
<1> DEFINE m == Reply(k, Theirs(j))
           t == GetTransaction(s, <<"here", k>>, "INVITE")
<1>1. Well(s) /\ k \in Nat
  BY WellParts DEF Ready
<1>2. MatchResponse(s, m) = t
  BY NamesOfMessages DEF MatchResponse
<1> HIDE DEF m, t
<1>3. CASE t # Null
  <2>1. Calling(s, t) /\ t = k
    BY <1>1, <1>3, MatchedInvite DEF t
  <2>2. TmHandleReponseMessage(s, "2XX", m) = RunFsm(s, k, "2XX", m)
    BY <1>2, <1>3, <2>1 DEF TmHandleReponseMessage
  <2> QED BY <2>1, <2>2, OkTurns DEF m
<1>4. CASE t = Null
  <2>1. TmHandleReponseMessage(s, "2XX", m) = s
    BY <1>2, <1>4 DEF TmHandleReponseMessage
  <2> QED BY <2>1, NothingTurns DEF m
<1> QED BY <1>3, <1>4

\* The client rings and accepts calls that wait, at their positions.
LEMMA WaitingTurns ==
    ASSUME NEW s, Ready(s), NEW t, Waiting(s, t), NEW pos, pos = t - 1
    PROVE  Turned(s, Ringing(s, pos), {}) /\ Turned(s, AcceptCall(s, pos), {})
BY RingingTurns, AcceptingTurns

-----------------------------------------------------------------------------
(* The start of a turn *)

\* What r has from s.
SameObjects(s, r) ==
    /\ r.uas = s.uas /\ r.account = s.account
    /\ r.dialogs = s.dialogs /\ r.dialog = s.dialog
    /\ r.transactions = s.transactions /\ r.transaction = s.transaction
    /\ r.answers = s.answers

LEMMA NewTurnParts ==
    ASSUME NEW s \in Stacks
    PROVE  LET r == NewTurn(s) IN
           r \in Stacks /\ SameObjects(s, r) /\ r.wire = {} /\ r.told = NoEvent
<1> DEFINE r == NewTurn(s)
           W == {}
<1>1. r = Changed(s, s.dialog, s.transactions, s.transaction, W, s.answers, NoEvent)
  BY DEF NewTurn, Changed, Stacks
<1> HIDE DEF r
<1>2. /\ s.dialog \in Seq(DialogObjects) /\ s.transactions \in Seq(Nat)
      /\ s.transaction \in Seq(TransactionObjects)
      /\ s.answers \in SUBSET (Nat \X SendEvents)
  BY DEF Stacks
<1>3. NoEvent \in Notices /\ W \in SUBSET (Nat \X Sendings)
  BY DEF NoEvent, Notices, Null
<1> HIDE DEF W
<1>4. r \in Stacks
  BY <1>1, <1>2, <1>3, ChangedIsStack
<1>5. /\ r.dialog = s.dialog /\ r.transactions = s.transactions
      /\ r.transaction = s.transaction /\ r.answers = s.answers
      /\ r.uas = s.uas /\ r.account = s.account /\ r.dialogs = s.dialogs
      /\ r.wire = W /\ r.told = NoEvent
  BY <1>1, ChangedFields
<1> QED BY <1>4, <1>5 DEF r, W, SameObjects

\* A phone is well, and all that is said of it true, when its objects are so.
LEMMA SameIsWell ==
    ASSUME NEW s, NEW r \in Stacks, SameObjects(s, r)
    PROVE  Well(s) => Well(r)
<1>1. \A t : IsCall(s, t) => IsCall(r, t)
  <2>1. /\ r.dialog = s.dialog /\ r.transaction = s.transaction
        /\ r.answers = s.answers
    BY DEF SameObjects
  <2>2. \A t : Took(s, t) <=> Took(r, t)
    BY <2>1 DEF Took
  <2>3. \A t : Outgoing(s, t) => Outgoing(r, t)
    BY <2>1, <2>2, Zenon DEF Outgoing
  <2>4. \A t, k : Incoming(s, t, k) => Incoming(r, t, k)
    BY <2>1, <2>2, Zenon DEF Incoming
  <2> QED BY <2>3, <2>4, Zenon DEF IsCall
<1>2. Calls(s) = Calls(r)
  BY DEF SameObjects, Calls
<1>3. Listed(s) => Listed(r)
  BY <1>2 DEF SameObjects, Listed
<1> QED BY <1>1, <1>2, <1>3 DEF Well, SameObjects

LEMMA SameIsSo ==
    ASSUME NEW s, NEW r, SameObjects(s, r)
    PROVE  /\ Calls(s) = Calls(r)
           /\ \A k, j : Accepts(s, k, j) <=> Accepts(r, k, j)
           /\ \A k, j : Got(s, k, j) <=> Got(r, k, j)
           /\ \A e, u : Told(s, e, u) <=> Told(r, e, u)
           /\ \A t : Waiting(s, t) <=> Waiting(r, t)
           /\ \A u : GetUaPosition(s, u) = GetUaPosition(r, u)
BY DEF SameObjects, Calls, Accepts, Got, Told, Took, Waiting, GetUaPosition

\* A phone that is well is ready in its next turn.
LEMMA NewTurnIsReady ==
    ASSUME NEW s, Well(s)
    PROVE  Ready(NewTurn(s)) /\ SameObjects(s, NewTurn(s))
<1>1. s \in Stacks
  BY DEF Well
<1> QED BY <1>1, NewTurnParts, SameIsWell DEF Ready

-----------------------------------------------------------------------------
(* What is sent *)

\* A name comes back as the other phone has it.
LEMMA SwappedNames ==
    /\ \A k \in Numbers : Swap(k) = Theirs(k) /\ Swap(Theirs(k)) = k
    /\ Swap(Nil) = Nil /\ Swap(UnkeptTag) = UnkeptTag
<1>1. \A k \in Numbers : k \in Nat /\ Theirs(k) \in Nat /\ k <= MaxTransactions
                         /\ Theirs(k) > MaxTransactions
                         /\ Theirs(k) - MaxTransactions = k
                         /\ k # UnkeptTag /\ Theirs(k) # UnkeptTag
  BY PhonesAssumption DEF Numbers, Theirs, UnkeptTag
<1>2. \A n \in Nat : n # Nil
  BY NilAssumption
<1>3. \A k \in Numbers : Swap(k) = Theirs(k)
  BY <1>1, <1>2, PhonesAssumption DEF Swap, Theirs
<1>4. \A k \in Numbers : Swap(Theirs(k)) = k
  BY <1>1, <1>2, PhonesAssumption DEF Swap
<1> QED BY <1>3, <1>4 DEF Swap

\* The messages as the other phone receives them.
LEMMA SwappedMessages ==
    ASSUME NEW k \in Numbers, NEW j \in Numbers
    PROVE  /\ SwapNames(OutInvite(k)) = InInvite(k)
           /\ SwapNames(Request("ACK", <<"here", 0>>, k, k, Theirs(j))) = InAck(k, j)
           /\ SwapNames([InInvite(k) EXCEPT !.to = UnkeptTag]) = Reply(k, UnkeptTag)
           /\ SwapNames([InInvite(k) EXCEPT !.to = j]) = Reply(k, Theirs(j))
<1>1. \A x : SwapBranch(<<"here", x>>) = <<"there", x>>
             /\ SwapBranch(<<"there", x>>) = <<"here", x>>
  BY DEF SwapBranch
<1>2. \A method, branch, call, from, to :
        SwapNames(Request(method, branch, call, from, to)) =
          Request(method, SwapBranch(branch), Swap(call), Swap(from), Swap(to))
  <2> SUFFICES ASSUME NEW method, NEW branch, NEW call, NEW from, NEW to
               PROVE  SwapNames(Request(method, branch, call, from, to)) =
                        Request(method, SwapBranch(branch), Swap(call), Swap(from), Swap(to))
    OBVIOUS
  <2> DEFINE m0 == Request(method, branch, call, from, to)
             m1 == Request(method, SwapBranch(branch), call, from, to)
             m2 == Request(method, SwapBranch(branch), Swap(call), from, to)
             m3 == Request(method, SwapBranch(branch), Swap(call), Swap(from), to)
             m4 == Request(method, SwapBranch(branch), Swap(call), Swap(from), Swap(to))
  <2>1. m0.branch = branch /\ m1.call = call /\ m2.from = from /\ m3.to = to
    BY DEF Request
  <2>2. \A b : [m0 EXCEPT !.branch = b] = Request(method, b, call, from, to)
    BY DEF Request
  <2>3. \A c : [m1 EXCEPT !.call = c] = Request(method, SwapBranch(branch), c, from, to)
    BY DEF Request
  <2>4. \A c : [m2 EXCEPT !.from = c] =
                 Request(method, SwapBranch(branch), Swap(call), c, to)
    BY DEF Request
  <2>5. \A c : [m3 EXCEPT !.to = c] =
                 Request(method, SwapBranch(branch), Swap(call), Swap(from), c)
    BY DEF Request
  <2>6. SwapNames(m0) =
          [[[[m0 EXCEPT !.branch = SwapBranch(m0.branch)] EXCEPT !.call = Swap(@)]
             EXCEPT !.from = Swap(@)] EXCEPT !.to = Swap(@)]
    BY Zenon DEF SwapNames
  <2> HIDE DEF m0
  <2>7. [m0 EXCEPT !.branch = SwapBranch(m0.branch)] = m1
    BY <2>1, <2>2
  <2> HIDE DEF m1
  <2>8. [m1 EXCEPT !.call = Swap(@)] = m2
    BY <2>1, <2>3
  <2> HIDE DEF m2
  <2>9. [m2 EXCEPT !.from = Swap(@)] = m3
    BY <2>1, <2>4
  <2> HIDE DEF m3
  <2>10. [m3 EXCEPT !.to = Swap(@)] = m4
    BY <2>1, <2>5
  <2> HIDE DEF m4
  <2> QED BY <2>6, <2>7, <2>8, <2>9, <2>10 DEF m0, m4
<1>3. \A to : [InInvite(k) EXCEPT !.to = to] =
                Request("INVITE", <<"there", k>>, Theirs(k), Theirs(k), to)
  BY DEF InInvite, Request
<1> QED BY <1>1, <1>2, <1>3, SwappedNames, SMTT(30) DEF OutInvite, InInvite, InAck, Reply

\* One of them.
SentMessage(s, w) ==
    IF w[2] = "request" THEN Message("request", s.transaction[w[1]].request)
    ELSE IF w[2] = "ACK" THEN Message("request", Ack(s, w[1]))
    ELSE Message(StatusClass(w[2]), ResponseOf(s, w[1], w[2]))

\* Every message a phone sends is explained.
LEMMA SentIsExplained ==
    ASSUME NEW r, Well(r), NEW w, Sendable(r, w[1], w[2]),
           NEW o, \A k, j \in Numbers : Got(r, k, j) => Accepts(o, k, j)
    PROVE  Explained(o, r, SentMessage(r, w))
<1> DEFINE t == w[1]
           what == w[2]
<1>1. t \in Calls(r) /\ t \in Numbers
  <2>1. t \in Calls(r)
    BY DEF Sendable, Took, Well, Listed
  <2> QED BY <2>1, WellParts
<1>2. IsCall(r, t)
  BY <1>1, WellCall
<1> HIDE DEF t, what
<1>3. Sendable(r, t, what)
  BY DEF t, what
<1>4. ASSUME r.transaction[t].type = "CLIENT_INVITE", what = "request"
      PROVE  Explained(o, r, SentMessage(r, w))
  <2>1. r.transaction[t].request = OutInvite(t)
    BY <1>2, <1>4 DEF IsCall, Outgoing, Incoming
  <2>2. SentMessage(r, w) = [kind |-> "request", m |-> InInvite(t)]
    BY <1>1, <1>4, <2>1, SwappedMessages DEF SentMessage, Message, t, what
  <2> QED BY <1>1, <2>2 DEF Explained
<1>5. ASSUME r.transaction[t].type = "CLIENT_INVITE", what = "ACK",
             r.transaction[t].state = "TERMINATED"
      PROVE  Explained(o, r, SentMessage(r, w))
  <2>1. Outgoing(r, t)
    BY <1>2, <1>5 DEF IsCall, Incoming
  <2>2. r.transaction[t].request = OutInvite(t) /\ r.transaction[t].user = t
    BY <1>1, <2>1, WellCall DEF Outgoing
  <2>3. PICK j \in Numbers : r.dialog[t].id.remote = Theirs(j)
    BY <1>5, <2>1 DEF Outgoing
  <2>4. Accepts(o, t, j)
    BY <1>1, <1>5, <2>3 DEF Got
  <2>5. Ack(r, t) = Request("ACK", <<"here", 0>>, t, t, Theirs(j))
    BY <2>2, <2>3 DEF Ack, OutInvite, Request
  <2>6. SentMessage(r, w) = Message("request", Ack(r, t))
    BY <1>5 DEF SentMessage, t, what
  <2>7. SentMessage(r, w) = [kind |-> "request", m |-> InAck(t, j)]
    BY <1>1, <2>5, <2>6, SwappedMessages DEF Message
  <2> QED BY <1>1, <2>4, <2>7 DEF Explained
<1>6. ASSUME r.transaction[t].type = "SERVER_INVITE",
             what \in {"SEND_TRYING", "SEND_RINGING"}
      PROVE  Explained(o, r, SentMessage(r, w))
  <2>1. PICK k \in Numbers : r.transaction[t].request = InInvite(k)
    BY <1>2, <1>6 DEF IsCall, Outgoing, Incoming
  <2>2. ResponseOf(r, t, what) = [InInvite(k) EXCEPT !.to = UnkeptTag]
    BY <1>6, <2>1 DEF ResponseOf
  <2>3. StatusClass(what) = "1XX"
    BY <1>6 DEF StatusClass
  <2>4. SentMessage(r, w) = Message("1XX", ResponseOf(r, t, what))
    BY <1>6, <2>3 DEF SentMessage, t, what
  <2>5. SentMessage(r, w) = [kind |-> "1XX", m |-> Reply(k, UnkeptTag)]
    BY <2>2, <2>4, SwappedMessages DEF Message
  <2> QED BY <2>5 DEF Explained
<1>7. ASSUME what = "SEND_OK", Took(r, t)
      PROVE  Explained(o, r, SentMessage(r, w))
  <2>1. PICK k \in Numbers : r.transaction[t].request = InInvite(k)
    BY <1>2, <1>7 DEF IsCall, Outgoing, Incoming
  <2>2. ToTagOfOk(r, t) = t
    BY <2>1 DEF ToTagOfOk, InInvite, Request
  <2>3. ResponseOf(r, t, what) = [InInvite(k) EXCEPT !.to = t]
    BY <1>7, <2>1, <2>2 DEF ResponseOf
  <2>4. StatusClass(what) = "2XX"
    BY <1>7 DEF StatusClass
  <2>5. SentMessage(r, w) = Message("2XX", ResponseOf(r, t, what))
    BY <1>7, <2>4 DEF SentMessage, t, what
  <2>6. SentMessage(r, w) = [kind |-> "2XX", m |-> Reply(k, Theirs(t))]
    BY <1>1, <2>3, <2>5, SwappedMessages DEF Message
  <2>7. Accepts(r, k, t)
    BY <1>1, <1>7, <2>1 DEF Accepts
  <2> QED BY <1>1, <2>6, <2>7 DEF Explained
<1> QED BY <1>3, <1>4, <1>5, <1>6, <1>7 DEF Sendable

-----------------------------------------------------------------------------
(* A turn of one of the two phones *)

\* There are two.
LEMMA TwoOfThem ==
    ASSUME NEW x \in Phones
    PROVE  /\ Other(x) \in Phones /\ Other(x) # x /\ Other(Other(x)) = x
           /\ \A y \in Phones : y = x \/ y = Other(x)
BY DEF Phones, Other

\* What a turn keeps.
LEMMA TurnKeeps ==
    ASSUME NEW s, NEW r, NEW pairs, Turned(s, r, pairs)
    PROVE  /\ \A k, j : Accepts(s, k, j) => Accepts(r, k, j)
           /\ \A e, u : Told(s, e, u) => Told(r, e, u)
<1>1. \A t \in Calls(s) : Kept(s, r, t)
  BY DEF Turned
<1>2. \A k, j : Accepts(s, k, j) => Accepts(r, k, j)
  BY <1>1 DEF Accepts, Kept
<1>3. \A e, u : Told(s, e, u) => Told(r, e, u)
  BY <1>1 DEF Told, Kept
<1> QED BY <1>2, <1>3

\* Phones p and o after a turn that made r of p.
LEMMA ExplainedBy ==
    ASSUME NEW s, NEW p, NEW d, Explained(s, p, d), NEW r, NEW q,
           \A k, j : Accepts(s, k, j) => Accepts(r, k, j),
           \A k, j : Accepts(p, k, j) => Accepts(q, k, j)
    PROVE  Explained(r, q, d)
BY DEF Explained

\* Such a turn keeps the invariant, when the pairs are calls that the other
\* phone accepted.
LEMMA TurnKeepsInv ==
    ASSUME Inv, NEW x \in Phones, NEW r, NEW pairs, Turned(Turn(x), r, pairs),
           \A k, j \in Numbers : <<k, j>> \in pairs => Accepts(phone[Other(x)], k, j),
           Becomes(x, r)
    PROVE  Inv'
<1> DEFINE y == Other(x)
           p == phone[x]
           o == phone[y]
           s == Turn(x)
           q == NewTurn(r)
<1>1. /\ y \in Phones /\ y # x /\ Other(y) = x
      /\ \A z \in Phones : z = x \/ z = y
  BY TwoOfThem
<1>2. Well(p) /\ Well(o) /\ Linked(o, p) /\ Linked(p, o)
  BY <1>1 DEF Inv
<1>3. s = NewTurn(p)
  BY DEF Turn
<1>4. /\ \A d \in net[x] : Explained(p, o, d)
      /\ \A d \in net[y] : Explained(o, p, d)
  BY <1>1 DEF Inv
<1>5. /\ \A u \in 1 .. MaxUas : Told(p, life[x][u], u)
      /\ \A u \in 1 .. MaxUas : Told(o, life[y][u], u)
  BY <1>1 DEF Inv
<1>6. /\ phone = [z \in Phones |-> phone[z]] /\ net = [z \in Phones |-> net[z]]
      /\ life \in [Phones -> [1 .. MaxUas -> LifeEvents]]
  BY DEF Inv
<1>7. /\ Well(r) /\ r.told \in Notices /\ Told(r, r.told.event, r.told.ua)
      /\ \A sent \in r.wire : Sendable(r, sent[1], sent[2])
      /\ \A k, j \in Numbers : Got(r, k, j) => Got(s, k, j) \/ <<k, j>> \in pairs
  BY DEF Turned
<1>8. SameObjects(p, s)
  BY <1>2, <1>3, NewTurnIsReady
<1>9. Well(q) /\ SameObjects(r, q)
  BY <1>7, NewTurnIsReady DEF Ready
<1>10. r.fault = "none" /\ Len(q.account) <= MaxUas /\ Len(o.account) <= MaxUas
  <2>1. r.fault = "none"
    BY <1>7 DEF Well, Stacks
  <2>2. Len(r.account) <= MaxUas
    BY DEF Becomes
  <2>3. q.account = r.account
    BY <1>9 DEF SameObjects
  <2>4. Len(o.account) <= MaxUas
    BY <1>1 DEF Inv
  <2> QED BY <2>1, <2>2, <2>3, <2>4
<1>11. /\ phone' = [phone EXCEPT ![x] = q]
       /\ net' = [net EXCEPT ![y] = @ \cup Sent(r)]
       /\ life' = IF r.told = NoEvent THEN life
                  ELSE [life EXCEPT ![x][r.told.ua] = r.told.event]
  BY <1>10 DEF Becomes
<1> HIDE DEF y, p, o, s, q
<1>12. phone' = [z \in Phones |-> phone'[z]] /\ phone'[x] = q /\ phone'[y] = o
  BY <1>1, <1>6, <1>11 DEF o
<1>13. net' = [z \in Phones |-> net'[z]] /\ net'[x] = net[x] /\ net'[y] = net[y] \cup Sent(r)
  BY <1>1, <1>6, <1>11
<1>14. \A k, j : Accepts(p, k, j) => Accepts(q, k, j)
  BY <1>8, <1>9, TurnKeeps, SameIsSo DEF s
<1>15. \A e, u : Told(p, e, u) => Told(q, e, u)
  BY <1>8, <1>9, TurnKeeps, SameIsSo DEF s
<1>16. \A k, j \in Numbers : Got(r, k, j) => Accepts(o, k, j)
  <2>1. \A k, j \in Numbers : Got(s, k, j) => Accepts(o, k, j)
    BY <1>2, <1>8, SameIsSo DEF Linked
  <2> QED BY <1>7, <2>1 DEF o, y
<1>17. Linked(o, q)
  BY <1>9, <1>16, SameIsSo DEF Linked
<1>18. Linked(q, o)
  BY <1>2, <1>14 DEF Linked
<1>19. \A d \in net[x] : Explained(q, o, d)
  BY <1>4, <1>14, ExplainedBy
<1>20. \A d \in net[y] : Explained(o, q, d)
  BY <1>4, <1>14, ExplainedBy
<1>21. \A d \in Sent(r) : Explained(o, q, d)
  <2> SUFFICES ASSUME NEW d \in Sent(r) PROVE Explained(o, q, d)
    OBVIOUS
  <2>1. PICK w \in r.wire : d = SentMessage(r, w)
    BY DEF Sent, SentMessage
  <2>2. Sendable(r, w[1], w[2])
    BY <1>7, <2>1
  <2>3. Explained(o, r, d)
    BY <1>7, <1>16, <2>1, <2>2, SentIsExplained
  <2>4. \A k, j : Accepts(r, k, j) => Accepts(q, k, j)
    BY <1>9, SameIsSo
  <2> QED BY <2>3, <2>4, ExplainedBy
<1>22. /\ life' \in [Phones -> [1 .. MaxUas -> LifeEvents]]
       /\ \A u \in 1 .. MaxUas : Told(q, life'[x][u], u)
       /\ life'[y] = life[y]
  <2>1. CASE r.told = NoEvent
    BY <1>5, <1>6, <1>11, <1>15, <2>1
  <2>2. CASE r.told # NoEvent
    <3> DEFINE u == r.told.ua
               e == r.told.event
               f == [life[x] EXCEPT ![u] = e]
    <3>1. e \in LifeEvents /\ Told(q, e, u)
      <4>1. Told(r, e, u) /\ e \in LifeEvents
        BY <1>7 DEF Notices, LifeEvents
      <4> HIDE DEF e, u
      <4> QED BY <1>9, <4>1, SameIsSo
    <3> HIDE DEF u, e
    <3>2. life' = [life EXCEPT ![x] = f]
      BY <1>11, <2>2 DEF u, e
    <3>3. life[x] \in [1 .. MaxUas -> LifeEvents]
      BY <1>6
    <3>4. f \in [1 .. MaxUas -> LifeEvents]
      BY <3>1, <3>3
    <3>5. \A v \in 1 .. MaxUas : (f[v] = e /\ v = u) \/ f[v] = life[x][v]
      BY <3>3
    <3>6. \A v \in 1 .. MaxUas : Told(q, f[v], v)
      <4> HIDE DEF f
      <4> QED BY <1>5, <1>15, <3>1, <3>5
    <3> HIDE DEF f
    <3>7. life'[x] = f /\ life'[y] = life[y]
      BY <1>1, <1>6, <3>2
    <3>8. life' \in [Phones -> [1 .. MaxUas -> LifeEvents]]
      BY <1>6, <3>2, <3>4
    <3> QED BY <3>6, <3>7, <3>8
  <2> QED BY <2>1, <2>2
<1>23. /\ Well(phone'[x]) /\ Len(phone'[x].account) <= MaxUas
       /\ Linked(phone'[y], phone'[x])
       /\ \A d \in net'[x] : Explained(phone'[x], phone'[y], d)
       /\ \A u \in 1 .. MaxUas : Told(phone'[x], life'[x][u], u)
  BY <1>9, <1>10, <1>12, <1>13, <1>17, <1>19, <1>22
<1>24. /\ Well(phone'[y]) /\ Len(phone'[y].account) <= MaxUas
       /\ Linked(phone'[x], phone'[y])
       /\ \A d \in net'[y] : Explained(phone'[y], phone'[x], d)
       /\ \A u \in 1 .. MaxUas : Told(phone'[y], life'[y][u], u)
  BY <1>2, <1>5, <1>10, <1>12, <1>13, <1>18, <1>20, <1>21, <1>22 DEF o
<1>25. \A z \in Phones :
         /\ Well(phone'[z]) /\ Len(phone'[z].account) <= MaxUas
         /\ \A d \in net'[z] : Explained(phone'[z], phone'[Other(z)], d)
         /\ Linked(phone'[Other(z)], phone'[z])
         /\ \A u \in 1 .. MaxUas : Told(phone'[z], life'[z][u], u)
  <2> SUFFICES ASSUME NEW z \in Phones
               PROVE  /\ Well(phone'[z]) /\ Len(phone'[z].account) <= MaxUas
                      /\ \A d \in net'[z] : Explained(phone'[z], phone'[Other(z)], d)
                      /\ Linked(phone'[Other(z)], phone'[z])
                      /\ \A u \in 1 .. MaxUas : Told(phone'[z], life'[z][u], u)
    OBVIOUS
  <2>1. CASE z = x
    BY <1>23, <2>1 DEF y
  <2>2. CASE z = y
    BY <1>1, <1>24, <2>2
  <2> QED BY <1>1, <2>1, <2>2
<1> QED BY <1>12, <1>13, <1>22, <1>25 DEF Inv

-----------------------------------------------------------------------------
(* The invariant *)

LEMMA EmptyIsWell == Well(EmptyStack) /\ Calls(EmptyStack) = {}
<1> DEFINE s == EmptyStack
<1>1. /\ s.uas = <<>> /\ s.account = <<>> /\ s.dialogs = <<>> /\ s.dialog = <<>>
      /\ s.transactions = <<>> /\ s.transaction = <<>> /\ s.answers = {}
  BY DEF EmptyStack
<1>2. Calls(s) = {} /\ Len(s.transaction) = 0
  BY <1>1 DEF Calls
<1>3. s \in Stacks
  BY DEF EmptyStack, Stacks, NoEvent, Notices, Null
<1> HIDE DEF s
<1>4. Listed(s)
  BY <1>1, <1>2 DEF Listed, Lined, NoTwice
<1>5. Well(s)
  BY <1>2, <1>3, <1>4, PhonesAssumption DEF Well
<1> QED BY <1>2, <1>5 DEF s

LEMMA InitIsInv == Init => Inv
<1> SUFFICES ASSUME Init PROVE Inv
  OBVIOUS
<1>1. /\ phone = [x \in Phones |-> EmptyStack] /\ net = [x \in Phones |-> {}]
      /\ life = [x \in Phones |-> [u \in 1 .. MaxUas |-> "none"]]
  BY DEF Init
<1>2. \A x \in Phones : phone[x] = EmptyStack /\ net[x] = {} /\ Other(x) \in Phones
                        /\ \A u \in 1 .. MaxUas : life[x][u] = "none"
  BY <1>1, TwoOfThem
<1>3. life \in [Phones -> [1 .. MaxUas -> LifeEvents]]
  BY <1>1 DEF LifeEvents
<1>4. phone = [x \in Phones |-> phone[x]] /\ net = [x \in Phones |-> net[x]]
  BY <1>1
<1>8. Len(EmptyStack.account) <= MaxUas
  BY PhonesAssumption DEF EmptyStack
<1>5. Linked(EmptyStack, EmptyStack)
  BY EmptyIsWell DEF Linked, Got
<1>6. \A u : Told(EmptyStack, "none", u)
  BY DEF Told
<1>7. \A x \in Phones :
        /\ Well(phone[x]) /\ Len(phone[x].account) <= MaxUas
        /\ Linked(phone[Other(x)], phone[x])
        /\ \A d \in net[x] : Explained(phone[x], phone[Other(x)], d)
        /\ \A u \in 1 .. MaxUas : Told(phone[x], life[x][u], u)
  BY <1>2, <1>5, <1>6, <1>8, EmptyIsWell
<1> QED BY <1>3, <1>4, <1>7 DEF Inv

\* What a handler returns when it is called at the start of a turn.
LEMMA BecomesBounded ==
    ASSUME NEW x, NEW r, Becomes(x, r)
    PROVE  Len(r.transaction) <= MaxTransactions
BY DEF Becomes

\* A message that arrives (TransactionManager.c, Dialog.c).
LEMMA ReceiveKeepsInv ==
    ASSUME Inv, NEW x \in Phones, NEW d \in net[x], Receive(x, d)
    PROVE  Inv'
<1> DEFINE s == Turn(x)
           p == phone[x]
           o == phone[Other(x)]
           r == IF d.kind = "request" THEN TmHandleRequestMessage(s, d.m)
                ELSE TmHandleReponseMessage(s, d.kind, d.m)
           none == {}
<1>1. Well(p) /\ Explained(p, o, d)
  BY DEF Inv
<1>2. Ready(s)
  BY <1>1, NewTurnIsReady DEF Turn
<1>3. Becomes(x, r)
  BY DEF Receive
<1>4. Len(r.transaction) <= MaxTransactions
  BY <1>3, BecomesBounded
<1>5. ASSUME Turned(s, r, none) PROVE Inv'
  BY <1>3, <1>5, TurnKeepsInv
<1> HIDE DEF s, p, o
<1>6. ASSUME NEW k \in Numbers, d = [kind |-> "request", m |-> InInvite(k)]
      PROVE  Inv'
  <2>1. r = TmHandleRequestMessage(s, InInvite(k))
    BY <1>6
  <2> HIDE DEF r
  <2> QED BY <1>2, <1>4, <1>5, <2>1, InviteTurns
<1>7. ASSUME NEW k \in Numbers, NEW j \in Numbers, d = [kind |-> "request", m |-> InAck(k, j)]
      PROVE  Inv'
  <2>1. r = TmHandleRequestMessage(s, InAck(k, j))
    BY <1>7
  <2> HIDE DEF r
  <2> QED BY <1>2, <1>5, <2>1, AckTurns
<1>8. ASSUME NEW k \in Numbers, d = [kind |-> "1XX", m |-> Reply(k, UnkeptTag)]
      PROVE  Inv'
  <2>1. r = TmHandleReponseMessage(s, "1XX", Reply(k, UnkeptTag))
    BY <1>8
  <2> HIDE DEF r
  <2> QED BY <1>2, <1>5, <2>1, RingingHeard
<1>9. ASSUME NEW k \in Numbers, NEW j \in Numbers, Accepts(o, k, j),
             d = [kind |-> "2XX", m |-> Reply(k, Theirs(j))]
      PROVE  Inv'
  <2> DEFINE pairs == {<<k, j>>}
  <2>1. r = TmHandleReponseMessage(s, "2XX", Reply(k, Theirs(j)))
    BY <1>9
  <2> HIDE DEF r
  <2>2. Turned(s, r, pairs)
    BY <1>2, <2>1, OkHeard
  <2>3. \A a, b \in Numbers : <<a, b>> \in pairs => Accepts(phone[Other(x)], a, b)
    BY <1>9 DEF o
  <2> HIDE DEF pairs
  <2> QED BY <1>3, <2>2, <2>3, TurnKeepsInv DEF s
<1> QED BY <1>1, <1>6, <1>7, <1>8, <1>9 DEF Explained

\* A call out (CallManager.c).
LEMMA CallOutKeepsInv ==
    ASSUME Inv, NEW x \in Phones, ClientCallsOut(x)
    PROVE  Inv'
<1> DEFINE s == Turn(x)
           r == CallOut(s)
           none == {}
<1>1. Ready(s)
  BY NewTurnIsReady DEF Turn, Inv
<1>2. Becomes(x, r)
  BY DEF ClientCallsOut
<1>3. Len(r.transaction) <= MaxTransactions
  BY <1>2, BecomesBounded
<1> HIDE DEF s
<1>4. Len(r.transaction) = NewNumber(s)
  BY <1>1, CallOutLength
<1>5. Turned(s, r, none)
  BY <1>1, <1>3, <1>4, CallOutTurns
<1> HIDE DEF r
<1>6. \A k, j \in Numbers : <<k, j>> \in none => Accepts(phone[Other(x)], k, j)
  OBVIOUS
<1> HIDE DEF none
<1> QED BY <1>2, <1>5, <1>6, TurnKeepsInv DEF s

\* A call that waits, for the client of a phone, waits at the phone.
LEMMA WaitsIsWaiting ==
    ASSUME Inv, NEW x \in Phones, NEW u \in 1 .. MaxUas, Waits(x, u)
    PROVE  /\ Waiting(Turn(x), u) /\ Ready(Turn(x))
           /\ GetUaPosition(phone[x], u) = u - 1
<1> DEFINE p == phone[x]
<1>1. Well(p) /\ Told(p, life[x][u], u)
  BY DEF Inv
<1>2. life[x][u] = "CALL_INCOMING"
  BY DEF Waits
<1>3. u \in Calls(p) /\ p.transaction[u].type = "SERVER_INVITE"
  BY <1>1, <1>2 DEF Told
<1>4. p.transaction[u].user = u /\ IsCall(p, u) /\ u \in DOMAIN p.transaction
  BY <1>1, <1>3, WellCall, WellParts
<1>5. ~Took(p, u)
  BY <1>4 DEF Waits, Accepted, Took
<1>6. Waiting(p, u)
  BY <1>3, <1>4, <1>5 DEF IsCall, Outgoing, Incoming, Waiting
<1>7. GetUaPosition(p, u) = u - 1
  BY <1>1, <1>3, PositionOfCall
<1>8. Ready(Turn(x)) /\ SameObjects(p, Turn(x))
  BY <1>1, NewTurnIsReady DEF Turn
<1> HIDE DEF p
<1>9. Waiting(Turn(x), u)
  BY <1>6, <1>8, SameIsSo
<1> QED BY <1>7, <1>8, <1>9 DEF p

\* The client rings or accepts it.
LEMMA AnswerKeepsInv ==
    ASSUME Inv, NEW x \in Phones, NEW u \in 1 .. MaxUas,
           ClientRings(x, u) \/ ClientAccepts(x, u)
    PROVE  Inv'
<1> DEFINE s == Turn(x)
           pos == GetUaPosition(phone[x], u)
           none == {}
<1>1. Waiting(s, u) /\ Ready(s) /\ pos = u - 1
  BY WaitsIsWaiting DEF ClientRings, ClientAccepts
<1>2. Becomes(x, Ringing(s, pos)) \/ Becomes(x, AcceptCall(s, pos))
  BY DEF ClientRings, ClientAccepts
<1>3. \A k, j \in Numbers : <<k, j>> \in none => Accepts(phone[Other(x)], k, j)
  OBVIOUS
<1> HIDE DEF s, pos
<1>4. Turned(s, Ringing(s, pos), none) /\ Turned(s, AcceptCall(s, pos), none)
  BY <1>1, WaitingTurns
<1> HIDE DEF none
<1> QED BY <1>2, <1>3, <1>4, TurnKeepsInv DEF s

LEMMA NextKeepsInv == Inv /\ [Next]_vars => Inv'
<1> SUFFICES ASSUME Inv, [Next]_vars PROVE Inv'
  OBVIOUS
<1>1. CASE UNCHANGED vars
  BY <1>1 DEF vars, Inv, Turn
<1>2. CASE Next
  BY <1>2, ReceiveKeepsInv, CallOutKeepsInv, AnswerKeepsInv DEF Next
<1> QED BY <1>1, <1>2

THEOREM InvHolds == Spec => []Inv
BY InitIsInv, NextKeepsInv, PTL DEF Spec

-----------------------------------------------------------------------------
(* What follows from it *)

\* The kinds, numbers and names of what one phone has and of what is sent to it.
LEMMA TypesFromInv == Inv => TypeOK
<1> SUFFICES ASSUME Inv PROVE TypeOK
  OBVIOUS
<1>1. /\ Nil \notin Nat
      /\ \A k \in Numbers : k \in Nat /\ k \in Names /\ Theirs(k) \in Names
  BY PhonesAssumption, NilAssumption DEF Numbers, Names, Theirs
<1>2. ASSUME NEW x \in Phones, NEW d \in DOMAIN phone[x].dialog
      PROVE  /\ phone[x].dialog[d].id.call \in Names
             /\ {phone[x].dialog[d].id.local, phone[x].dialog[d].id.remote}
                    \subseteq Names \cup {Nil}
  <2> DEFINE p == phone[x]
  <2>1. Well(p)
    BY DEF Inv
  <2> HIDE DEF p
  <2>2. d \in Calls(p) /\ d \in Numbers
    BY <1>2, <2>1, WellParts DEF p
  <2>3. IsCall(p, d)
    BY <2>1, <2>2, WellCall
  <2> QED BY <1>1, <2>2, <2>3 DEF IsCall, Outgoing, Incoming, p
<1>3. ASSUME NEW x \in Phones, NEW d \in net[x]
      PROVE  /\ d.kind \in {"request", "1XX", "2XX"}
             /\ {d.m.call, d.m.from} \subseteq Names
             /\ d.m.to \in Names \cup {Nil, UnkeptTag}
  <2>1. Explained(phone[x], phone[Other(x)], d)
    BY DEF Inv
  <2>2. \A k, j : /\ InInvite(k).call = Theirs(k) /\ InInvite(k).from = Theirs(k)
                  /\ InInvite(k).to = Nil
                  /\ InAck(k, j).call = Theirs(k) /\ InAck(k, j).from = Theirs(k)
                  /\ InAck(k, j).to = j
                  /\ Reply(k, j).call = k /\ Reply(k, j).from = k /\ Reply(k, j).to = j
    BY DEF InInvite, InAck, Reply, Request
  <2> HIDE DEF Theirs
  <2>3. CASE \E k \in Numbers : d = [kind |-> "request", m |-> InInvite(k)]
    BY <1>1, <2>2, <2>3
  <2>4. CASE \E k, j \in Numbers : d = [kind |-> "request", m |-> InAck(k, j)]
    BY <1>1, <2>2, <2>4
  <2>5. CASE \E k \in Numbers : d = [kind |-> "1XX", m |-> Reply(k, UnkeptTag)]
    BY <1>1, <2>2, <2>5
  <2>6. CASE \E k, j \in Numbers : d = [kind |-> "2XX", m |-> Reply(k, Theirs(j))]
    BY <1>1, <2>2, <2>6
  <2> QED BY <2>1, <2>3, <2>4, <2>5, <2>6 DEF Explained
<1>4. \A x \in Phones : phone[x].fault \in {"none"} \cup Deaths
  BY WellParts DEF Inv
<1>5. life \in [Phones -> [1 .. MaxUas ->
                 {"none", "CALL_INCOMING", "CALL_REMOTE_RINGING", "CALL_ESTABLISHED"}]]
  BY DEF Inv, LifeEvents
<1> QED BY <1>2, <1>3, <1>4, <1>5 DEF TypeOK

\* The call that was accepted with a tag is the only dialog with the id of its
\* caller.
LEMMA AcceptedIsOne ==
    ASSUME NEW o, Well(o), NEW k \in Numbers, NEW j \in Numbers, Accepts(o, k, j)
    PROVE  LET id == [call |-> Theirs(k), local |-> j, remote |-> Theirs(k)] IN
           /\ j \in Accepted(o) /\ o.transaction[j].user = j
           /\ o.dialog[j].state = "CONFIRMED"
           /\ \A f \in DOMAIN o.dialog : f = j <=> o.dialog[f].id = id
<1> DEFINE id == [call |-> Theirs(k), local |-> j, remote |-> Theirs(k)]
<1>1. j \in Calls(o) /\ o.transaction[j].request = InInvite(k) /\ Took(o, j)
  BY DEF Accepts
<1>2. IsCall(o, j) /\ o.transaction[j].user = j /\ o.dialog[j] \in DialogObjects
  BY <1>1, WellCall
<1>3. PICK i \in Numbers : Incoming(o, j, i)
  BY <1>1, <1>2 DEF IsCall, Outgoing
<1>4. i = k
  <2>1. o.transaction[j].request = InInvite(i)
    BY <1>3 DEF Incoming
  <2>2. /\ o.transaction[j].request.branch = <<"there", i>>
        /\ o.transaction[j].request.branch = <<"there", k>>
    <3>1. InInvite(i).branch = <<"there", i>> /\ InInvite(k).branch = <<"there", k>>
      BY NamesOfInvites
    <3> QED BY <1>1, <2>1, <3>1
  <2>3. <<"there", i>> = <<"there", k>>
    BY <2>2
  <2> QED BY <2>3
<1>5. /\ o.dialog[j].id.call = Theirs(k) /\ o.dialog[j].id.remote = Theirs(k)
      /\ o.dialog[j].id.local = j /\ o.dialog[j].state = "CONFIRMED"
  BY <1>1, <1>3, <1>4 DEF Incoming
<1>6. o.dialog[j].id = id
  <2>1. o.dialog[j].id \in DialogIds
    BY <1>2 DEF DialogObjects
  <2> QED BY <1>5, <2>1 DEF DialogIds
<1>7. j \in Accepted(o)
  BY <1>1, WellParts DEF Accepted, Took
<1>8. ASSUME NEW f \in DOMAIN o.dialog, o.dialog[f].id = id PROVE f = j
  <2>1. f \in Calls(o) /\ f \in Numbers
    BY WellParts
  <2>2. IsCall(o, f)
    BY <2>1, WellCall
  <2>3. o.dialog[f].id.call = Theirs(k) /\ o.dialog[f].id.local = j
    BY <1>8
  <2>4. f # Theirs(k) /\ j # Nil
    BY <2>1, PhonesAssumption, NilAssumption DEF Numbers, Theirs
  <2> QED BY <2>2, <2>3, <2>4 DEF IsCall, Outgoing, Incoming
<1> QED BY <1>2, <1>5, <1>6, <1>7, <1>8

LEMMA MirroredFromInv == Inv => Mirrored
<1> SUFFICES ASSUME Inv, NEW x \in Phones, NEW d \in DOMAIN phone[x].dialog,
                    life[x][d] = "CALL_ESTABLISHED"
             PROVE  LET s == phone[Other(x)] IN
                    \E t \in Accepted(s) :
                        LET e == s.transaction[t].user IN
                        /\ s.dialog[e].state = "CONFIRMED"
                        /\ \A f \in DOMAIN s.dialog :
                             f = e <=> s.dialog[f].id = Mirror(phone[x].dialog[d].id)
  BY DEF Mirrored
<1> DEFINE p == phone[x]
           o == phone[Other(x)]
<1>1. Well(p) /\ Well(o) /\ Linked(o, p) /\ Len(p.account) <= MaxUas
  BY TwoOfThem DEF Inv
<1>2. d \in Calls(p) /\ d \in Numbers /\ p.dialog[d] \in DialogObjects
  BY <1>1, WellParts, WellCall
<1>3. d \in 1 .. MaxUas
  <2>1. Len(p.account) = Len(p.transaction) /\ Len(p.transaction) \in Nat
    BY <1>1, WellParts DEF Well, Listed
  <2> QED BY <1>1, <1>2, <2>1, PhonesAssumption DEF Calls
<1>4. Told(p, "CALL_ESTABLISHED", d)
  BY <1>3 DEF Inv
<1>5. p.transaction[d].type = "CLIENT_INVITE" /\ p.transaction[d].state = "TERMINATED"
  BY <1>4 DEF Told
<1>6. Outgoing(p, d)
  <2>1. IsCall(p, d)
    BY <1>1, <1>2, WellCall
  <2> QED BY <1>5, <2>1 DEF IsCall, Incoming
<1>7. PICK j \in Numbers : p.dialog[d].id.remote = Theirs(j)
  BY <1>5, <1>6 DEF Outgoing
<1>8. Accepts(o, d, j)
  BY <1>1, <1>2, <1>5, <1>7 DEF Linked, Got
<1>9. Mirror(p.dialog[d].id) = [call |-> Theirs(d), local |-> j, remote |-> Theirs(d)]
  BY <1>2, <1>6, <1>7, SwappedNames DEF Mirror, Outgoing
<1> HIDE DEF p, o
<1>10. /\ j \in Accepted(o) /\ o.transaction[j].user = j
       /\ o.dialog[j].state = "CONFIRMED"
       /\ \A f \in DOMAIN o.dialog : f = j <=> o.dialog[f].id = Mirror(p.dialog[d].id)
  BY <1>1, <1>2, <1>8, <1>9, AcceptedIsOne
<1> QED BY <1>10 DEF p, o

LEMMA AcksFromInv == Inv => AcksFindTheirDialog
<1> SUFFICES ASSUME Inv, NEW x \in Phones, NEW d \in net[x], d.m.method = "ACK"
             PROVE  \E t \in Accepted(phone[x]) :
                      phone[x].transaction[t].user = MatchMessage2Dialog(phone[x], d.m)
  BY DEF AcksFindTheirDialog
<1> DEFINE p == phone[x]
<1>1. Well(p) /\ Explained(p, phone[Other(x)], d)
  BY DEF Inv
<1>2. PICK k, j \in Numbers : Accepts(p, k, j) /\ d.m = InAck(k, j)
  BY <1>1, NamesOfInvites, NamesOfMessages DEF Explained
<1> HIDE DEF p
<1> DEFINE id == [call |-> Theirs(k), local |-> j, remote |-> Theirs(k)]
           S == {f \in DOMAIN p.dialog : DialogIdMatched(p.dialog[f].id, id)}
<1>3. /\ j \in Accepted(p) /\ p.transaction[j].user = j
      /\ \A f \in DOMAIN p.dialog : f = j <=> p.dialog[f].id = id
  BY <1>1, <1>2, AcceptedIsOne
<1>4. j \in Calls(p)
  BY <1>2 DEF Accepts
<1>5. j \in DOMAIN p.dialog /\ j # Null /\ InList(p.dialogs, j) /\ p.dialogs \in Seq(Nat)
  <2>1. j \in DOMAIN p.dialog /\ j # Null
    BY <1>1, <1>4, WellParts
  <2>2. p.dialogs \in Seq(Nat)
    BY <1>1 DEF Well, Stacks
  <2> QED BY <1>1, <1>4, <2>1, <2>2, WellCall
<1>6. S = {j}
  BY <1>3, <1>5 DEF DialogIdMatched
<1>7. MatchMessage2Dialog(p, d.m) = FirstInList(p.dialogs, S)
  BY <1>2 DEF MatchMessage2Dialog, GetDialogById, InAck, Request
<1> HIDE DEF S
<1>8. MatchMessage2Dialog(p, d.m) = j
  <2> DEFINE n == FirstInList(p.dialogs, S)
  <2>1. n # Null => n \in S
    BY <1>5, FirstFound
  <2>2. n # Null
    BY <1>5, <1>6, FirstFound
  <2> HIDE DEF n
  <2>3. n = j
    BY <1>6, <2>1, <2>2
  <2> QED BY <1>7, <2>3 DEF n
<1> QED BY <1>3, <1>8 DEF p

\* Every name on the network was made by one of the two phones, and the phones
\* are what a stack process is, whatever is lost, repeated or comes out of order
\* (TransactionManager.c, Dialog.c, MessageBuilder.c).
THEOREM TypeCorrect == Spec => []TypeOK
BY InvHolds, TypesFromInv, PTL

\* Nothing one phone sends kills the other: no handler of Transaction.c or
\* Dialog.c asserts, dangles or reads past a table in a phone whose calls were
\* all made by phones like it, with any number of calls, of copies and of losses.
THEOREM PhonesLive == Spec => []NobodyDies
<1>1. Inv => NobodyDies
  BY WellParts DEF Inv, NobodyDies
<1> QED BY <1>1, InvHolds, PTL

\* An established call has its two ends: exactly one dialog of the other phone
\* has the mirrored id, and it was accepted there (Dialog.c:157-179, :298-311).
THEOREM CallsAreMirrored == Spec => []Mirrored
BY InvHolds, MirroredFromInv, PTL

\* An ACK belongs to the dialog whose 200 it acknowledges, and to no other copy
\* of the same INVITE (Dialog.c:157-167, MessageBuilder.c:188-206).
THEOREM AcksFind == Spec => []AcksFindTheirDialog
BY InvHolds, AcksFromInv, PTL
=============================================================================
