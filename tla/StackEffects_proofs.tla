------------------------ MODULE StackEffects_proofs -------------------------
(***************************************************************************)
(* What the operations of StackObjects, StackDialogs and StackHandlers do  *)
(* to a stack, in terms a proof can use without expanding them: first that *)
(* none of them forgets a death of the process; then, for a stack of the   *)
(* right type and an operation the process survives, which fields change   *)
(* and how. Nothing is assumed here of the stack but its type: an argument *)
(* that needs to know which stacks can be reached is in StackMoves_proofs. *)
(***************************************************************************)
EXTENDS SipStack, Induction_proofs, TLAPS

-----------------------------------------------------------------------------
(* No death of the process is forgotten *)

Running(s) == "fault" \in DOMAIN s /\ s.fault \in {"none"} \cup Deaths

\* r is what became of s, and no death was forgotten on the way.
Follows(s, r) == Running(r) /\ (r.fault = "none" => s.fault = "none")

\* Two handlers one after the other.
LEMMA FollowsTransitively ==
    ASSUME NEW s, NEW q, NEW r, Follows(s, q), Follows(q, r)
    PROVE  Follows(s, r)
BY DEF Follows

\* A death is a death.
LEMMA DieFollows ==
    ASSUME NEW s, Running(s), NEW how \in Deaths
    PROVE  Follows(s, Die(s, how)) /\ Die(s, how).fault # "none"
BY DEF Follows, Running, Die, Deaths

\* Sending never dies.
LEMMA SendMessageFollows ==
    ASSUME NEW s, Running(s), NEW t, NEW what
    PROVE  Follows(s, SendMessage(s, t, what))
BY DEF Follows, Running, SendMessage

\* Nor does answering.
LEMMA SendResponseFollows ==
    ASSUME NEW s, Running(s), NEW t, NEW event
    PROVE  Follows(s, SendResponse(s, t, event))
BY DEF Follows, Running, SendMessage, SendResponse

\* Nor do the actions of an entry.
LEMMA RunActionsFollows ==
    ASSUME NEW s, Running(s), NEW t, NEW ran
    PROVE  Follows(s, RunActions(s, t, ran))
BY SendMessageFollows, SendResponseFollows DEF Follows, RunActions

\* An event without an entry is an assertion (RunFsm, Transaction.c:772).
LEMMA AdvanceFollows ==
    ASSUME NEW s, Running(s), NEW t, NEW event
    PROVE  Follows(s, Advance(s, t, event))
<1>1. CASE EntriesFor(s, t, event) = {}
  BY <1>1, DieFollows DEF Advance, Deaths
<1>2. CASE EntriesFor(s, t, event) # {}
  <2> DEFINE entry == CHOOSE e \in EntriesFor(s, t, event) : TRUE
             q == [s EXCEPT !.transaction[t].state = entry.nextState]
  <2>1. Follows(s, q)
    BY DEF Follows, Running
  <2>2. Follows(q, RunActions(q, t, InvokeActions(entry.actions, TRUE)))
    <3> HIDE DEF q
    <3> QED BY <2>1, RunActionsFollows DEF Follows
  <2>3. Advance(s, t, event) = RunActions(q, t, InvokeActions(entry.actions, TRUE))
    BY <1>2 DEF Advance
  <2> QED BY <2>1, <2>2, <2>3, FollowsTransitively
<1> QED BY <1>1, <1>2

\* Destroying a transaction never dies.
LEMMA RemoveTerminatedTransactionFollows ==
    ASSUME NEW s, Running(s), NEW t
    PROVE  Follows(s, RemoveTerminatedTransaction(s, t))
BY DEF Follows, Running, RemoveTerminatedTransaction

\* An event the user is not told of.
LEMMA RunQuietlyFollows ==
    ASSUME NEW s, Running(s), NEW t, NEW event
    PROVE  Follows(s, RunQuietly(s, t, event))
<1>1. Follows(s, Advance(s, t, event))
  BY AdvanceFollows
<1> DEFINE q == Advance(s, t, event)
<1>2. Follows(q, RemoveTerminatedTransaction(q, t))
  BY <1>1, RemoveTerminatedTransactionFollows DEF Follows
<1> QED BY <1>1, <1>2, FollowsTransitively DEF RunQuietly

\* A transaction that is made and started.
LEMMA AddTransactionFollows ==
    ASSUME NEW s, Running(s), NEW m, NEW user, NEW type
    PROVE  Follows(s, AddTransaction(s, m, user, type))
<1> DEFINE q == PutTransaction(s, m, user, type)
<1>1. Follows(s, q)
  BY DEF Follows, Running, PutTransaction
<1>2. Follows(q, RunQuietly(q, Len(s.transaction) + 1, "INIT"))
  BY <1>1, RunQuietlyFollows DEF Follows
<1> QED BY <1>1, <1>2, FollowsTransitively DEF AddTransaction

\* A response of our own.
LEMMA ResponseWithFollows ==
    ASSUME NEW s, Running(s), NEW t, NEW event
    PROVE  Follows(s, ResponseWith(s, t, event))
<1> DEFINE q == SendResponse(s, t, event)
<1>1. Follows(s, q)
  BY SendResponseFollows
<1>2. Follows(q, RunQuietly(q, t, event))
  BY <1>1, RunQuietlyFollows DEF Follows
<1> QED BY <1>1, <1>2, FollowsTransitively DEF ResponseWith

\* Telling the client never dies.
LEMMA NotifyCmFollows ==
    ASSUME NEW s, Running(s), NEW event, NEW ua
    PROVE  Follows(s, NotifyCm(s, event, ua))
BY DEF Follows, Running, NotifyCm

\* Nor does making a user agent with its dialog.
LEMMA AddUserAgentFollows ==
    ASSUME NEW s, Running(s), NEW account
    PROVE  Follows(s, AddDialog(AddUa(s, account)))
BY DEF Follows, Running, AddDialog, AddUa

\* Nor does destroying one.
LEMMA RemoveUaFollows ==
    ASSUME NEW s, Running(s), NEW ua
    PROVE  Follows(s, RemoveUa(s, ua))
BY DEF Follows, Running, RemoveUa, DestroyUserAgent, DestroyDialogList

\* A transaction for a dialog.
LEMMA DialogNewTransactionFollows ==
    ASSUME NEW s, Running(s), NEW d, NEW m, NEW type
    PROVE  Follows(s, DialogNewTransaction(s, d, m, type))
<1> DEFINE s1 == AddTransaction(s, m, d, type)
           s2 == [s1 EXCEPT !.dialog[d].transaction = Len(s1.transaction)]
           out == [s2 EXCEPT !.dialog[d].id.local = m.from,
                             !.dialog[d].id.call = m.call]
           in  == [s2 EXCEPT !.dialog[d].id.remote = m.from,
                             !.dialog[d].id.call = m.call]
           r == DialogNewTransaction(s, d, m, type)
<1>1. Follows(s, s1)
  BY AddTransactionFollows
<1> HIDE DEF s1
<1>2. Follows(s1, s2)
  BY <1>1 DEF Follows, Running
<1> HIDE DEF s2
<1>3. Follows(s2, out) /\ Follows(s2, in)
  BY <1>2 DEF Follows, Running
<1> HIDE DEF out, in
<1>4. Follows(in, NotifyCm(in, "CALL_INCOMING", d))
  BY <1>3, NotifyCmFollows DEF Follows
<1>5. r = out \/ r = NotifyCm(in, "CALL_INCOMING", d) \/ r = s2
  BY DEF DialogNewTransaction, s1, s2, in, out
<1> QED BY <1>1, <1>2, <1>3, <1>4, <1>5, FollowsTransitively

\* DialogOk dies at a NULL dialog, or at a transaction that is gone.
LEMMA DialogOkFollows ==
    ASSUME NEW s, Running(s), NEW d
    PROVE  Follows(s, DialogOk(s, d))
<1>1. CASE d = Null \/ ~Dereferences(s, d)
  BY <1>1, DieFollows DEF DialogOk, Deaths
<1>2. CASE d # Null /\ Dereferences(s, d)
  <2> DEFINE t == TransactionOf(s, d)
             accepted == [s EXCEPT !.dialog[d].id.local = ToTagOfOk(s, t),
                                   !.dialog[d].state = "CONFIRMED",
                                   !.dialog[d].session = TRUE]
             ended == [s EXCEPT !.dialog[d].state = "TERMINATED"]
  <2>1. Follows(s, accepted) /\ Follows(s, ended) /\ Follows(s, s)
    BY DEF Follows, Running
  <2>2. \E q : Follows(s, q) /\ DialogOk(s, d) = ResponseWith(q, t, "SEND_OK")
    BY <1>2, <2>1 DEF DialogOk
  <2> QED BY <2>2, ResponseWithFollows, FollowsTransitively DEF Follows
<1> QED BY <1>1, <1>2

\* The 200 of our INVITE.
LEMMA DialogReceiveOkFollows ==
    ASSUME NEW s, Running(s), NEW d, NEW m
    PROVE  Follows(s, DialogReceiveOk(s, d, m))
<1> DEFINE s1 == [s EXCEPT !.dialog[d].id = [call |-> m.call, local |-> m.from,
                                             remote |-> m.to],
                           !.dialog[d].state = "CONFIRMED",
                           !.dialog[d].session = TRUE]
<1>1. Follows(s, s1)
  BY DEF Follows, Running
<1>2. DialogReceiveOk(s, d, m) = NotifyCm(DialogAck(s1, d), "CALL_ESTABLISHED", d)
  BY DEF DialogReceiveOk
<1> HIDE DEF s1
<1>3. Follows(s1, DialogAck(s1, d))
  BY <1>1, SendMessageFollows DEF Follows, DialogAck
<1>4. Follows(DialogAck(s1, d), NotifyCm(DialogAck(s1, d), "CALL_ESTABLISHED", d))
  BY <1>3, NotifyCmFollows DEF Follows
<1> QED BY <1>1, <1>2, <1>3, <1>4, FollowsTransitively

\* The answers of the registrar.
LEMMA HandleRegisterEventFollows ==
    ASSUME NEW s, Running(s), NEW d, NEW event, NEW m
    PROVE  Follows(s, HandleRegisterEvent(s, d, event, m))
<1>1. Follows(s, UaSetBinded(s, d)) /\ Follows(s, UaSetUnbinded(s, d)) /\ Follows(s, s)
  BY DEF Follows, Running, UaSetBinded, UaSetUnbinded
<1>2. Follows(s, DialogNewTransaction(s, d, BuildAuthorizationMessage(s, m),
                                      "CLIENT_NON_INVITE"))
  BY DialogNewTransactionFollows
<1>3. Follows(s, Die(s, "ASSERTED"))
  BY DieFollows DEF Deaths
<1> QED BY <1>1, <1>2, <1>3 DEF HandleRegisterEvent

\* A user agent that is made with its first transaction.
LEMMA NewCallFollows ==
    ASSUME NEW s, Running(s), NEW account, NEW d, NEW m, NEW type
    PROVE  Follows(s, DialogNewTransaction(AddDialog(AddUa(s, account)), d, m, type))
BY AddUserAgentFollows, DialogNewTransactionFollows, FollowsTransitively DEF Follows

\* What a dialog does with an INVITE, and with the answers to one.
LEMMA HandleInviteEventFollows ==
    ASSUME NEW s, Running(s), NEW d, NEW event, NEW m
    PROVE  Follows(s, HandleInviteEvent(s, d, event, m))
<1>1. Follows(s, s)
  BY DEF Follows
<1> QED BY <1>1, DialogReceiveOkFollows, NotifyCmFollows, NewCallFollows
        DEF HandleInviteEvent, DialogReceiveRinging

\* A CANCEL is answered within the dialog.
LEMMA DialogReceiveCancelFollows ==
    ASSUME NEW s, Running(s), NEW d, NEW m
    PROVE  Follows(s, DialogReceiveCancel(s, d, m))
BY DialogNewTransactionFollows, DialogOkFollows, FollowsTransitively
   DEF Follows, DialogReceiveCancel

\* A BYE is answered, told, and the user agent destroyed.
LEMMA DialogReceiveByeFollows ==
    ASSUME NEW s, Running(s), NEW d, NEW m
    PROVE  Follows(s, DialogReceiveBye(s, d, m))
<1> DEFINE s2 == DialogOk(DialogNewTransaction(s, d, m, "SERVER_NON_INVITE"), d)
<1>1. Follows(s, s2)
  BY DialogReceiveCancelFollows DEF DialogReceiveCancel
<1>2. DialogReceiveBye(s, d, m) = RemoveUa(NotifyCm(s2, "CALL_FINISHED", d), d)
  BY DEF DialogReceiveBye
<1> HIDE DEF s2
<1>3. Follows(s2, NotifyCm(s2, "CALL_FINISHED", d))
  BY <1>1, NotifyCmFollows DEF Follows
<1>4. Follows(NotifyCm(s2, "CALL_FINISHED", d), DialogReceiveBye(s, d, m))
  BY <1>2, <1>3, RemoveUaFollows DEF Follows
<1> QED BY <1>1, <1>3, <1>4, FollowsTransitively

\* Whatever a user is told.
LEMMA OnTransactionEventFollows ==
    ASSUME NEW s, Running(s), NEW d, NEW event, NEW m
    PROVE  Follows(s, OnTransactionEvent(s, d, event, m))
<1>1. Follows(s, s) /\ Follows(s, Die(s, "DANGLED"))
  BY DieFollows DEF Follows, Deaths
<1>2. Follows(s, HandleByeEvent(s, m)) /\ Follows(s, HandleCancelEvent(s, m))
  BY <1>1, DialogReceiveByeFollows, DialogReceiveCancelFollows
     DEF HandleByeEvent, HandleCancelEvent
<1> QED BY <1>1, <1>2, HandleRegisterEventFollows, HandleInviteEventFollows
        DEF OnTransactionEvent

\* An event whose user is told of it.
LEMMA RunFsmFollows ==
    ASSUME NEW s, Running(s), NEW t, NEW event, NEW m
    PROVE  Follows(s, RunFsm(s, t, event, m))
<1> DEFINE s1 == Advance(s, t, event)
           told == OnTransactionEvent(s1, s.transaction[t].user, event, m)
<1>1. Follows(s, s1)
  BY AdvanceFollows
<1>2. Follows(s1, told)
  BY <1>1, OnTransactionEventFollows DEF Follows
<1>3. RunFsm(s, t, event, m) \in {RemoveTerminatedTransaction(s1, t),
                                  RemoveTerminatedTransaction(told, t)}
  BY DEF RunFsm
<1> HIDE DEF s1, told
<1> QED BY <1>1, <1>2, <1>3, RemoveTerminatedTransactionFollows,
           FollowsTransitively DEF Follows

\* The CANCEL of a transaction tells its user twice (TransactionManager.c:159).
LEMMA TmCancelFollows ==
    ASSUME NEW s, Running(s), NEW t, NEW m
    PROVE  Follows(s, TmCancel(s, t, m))
<1> DEFINE told == OnTransactionEvent(s, s.transaction[t].user, "CANCEL", m)
           over == ResponseWith(told, t, "SEND_REQUEST_TERMINATED")
<1>1. Follows(s, told)
  BY OnTransactionEventFollows
<1>2. Follows(told, over)
  BY <1>1, ResponseWithFollows DEF Follows
<1>3. TmCancel(s, t, m) = OnTransactionEvent(over, Null, "NEW", m)
  BY DEF TmCancel, TmNewTransaction
<1>4. Follows(over, TmCancel(s, t, m))
  BY <1>2, <1>3, OnTransactionEventFollows DEF Follows
<1> QED BY <1>1, <1>2, <1>4, FollowsTransitively

\* The handlers of the two sockets.
LEMMA HandlersFollow ==
    ASSUME NEW s, Running(s), NEW m, NEW code, NEW position, NEW account, NEW known
    PROVE  /\ Follows(s, TmHandleRequestMessage(s, m))
           /\ Follows(s, TmHandleReponseMessage(s, code, m))
           /\ Follows(s, AcceptCall(s, position))
           /\ Follows(s, Ringing(s, position))
           /\ Follows(s, CallOut(s))
           /\ Follows(s, EndCall(s, known))
           /\ Follows(s, AccountAddBinding(s, account))
           /\ Follows(s, AccountRemoveBinding(s, account))
<1>1. Follows(s, s)
  BY DEF Follows
<1>2. Follows(s, TmHandleRequestMessage(s, m))
  BY <1>1, OnTransactionEventFollows, RunQuietlyFollows, TmCancelFollows
     DEF TmHandleRequestMessage, TmRequestInTransaction, TmNewTransaction
<1>3. Follows(s, TmHandleReponseMessage(s, code, m))
  BY <1>1, RunFsmFollows DEF TmHandleReponseMessage
<1>4. Follows(s, AcceptCall(s, position))
  BY DialogOkFollows DEF AcceptCall
<1>5. Follows(s, Ringing(s, position))
  BY DieFollows, ResponseWithFollows DEF Ringing, DialogRinging, Deaths
<1>6. Follows(s, CallOut(s))
  BY NewCallFollows DEF CallOut, DialogInvite
<1>7. Follows(s, EndCall(s, known))
  <2> DEFINE d  == GetDialog(s, 0)
             s1 == DialogNewTransaction(s, d, BuildRequest(s, "BYE"),
                                        "CLIENT_NON_INVITE")
  <2>1. Follows(s, s1)
    BY DialogNewTransactionFollows
  <2> HIDE DEF s1
  <2>2. Follows(s1, [s1 EXCEPT !.dialog[d].state = "TERMINATED"])
    BY <2>1 DEF Follows, Running
  <2>3. EndCall(s, known) \in {Die(s, "NO_DIALOG"), Die(s, "ASSERTED"),
                               [s1 EXCEPT !.dialog[d].state = "TERMINATED"]}
    BY DEF EndCall, DialogTerminate, s1
  <2> QED BY <2>1, <2>2, <2>3, DieFollows, FollowsTransitively DEF Deaths
<1>8. Follows(s, AccountAddBinding(s, account)) /\ Follows(s, AccountRemoveBinding(s, account))
  BY NewCallFollows DEF AccountAddBinding, AccountRemoveBinding
<1> QED BY <1>2, <1>3, <1>4, <1>5, <1>6, <1>7, <1>8

-----------------------------------------------------------------------------
(* The type of a stack *)

Tags == Calls \cup Nat \cup {Nil, PeerTag}
BranchNames == (Calls \X Branches) \cup ({"here", "bye"} \X Nat)
Methods == {"INVITE", "BYE", "CANCEL", "REGISTER"}
Requests == [method : Methods, branch : BranchNames, call : Tags, from : Tags,
             to : Tags, expires : {Nil, 0, Lifetime}]

DialogIds == [call : Tags, local : Tags, remote : Tags]
DialogObjects == [id : DialogIds, state : DialogStates, transaction : Nat,
                  session : BOOLEAN]
TransactionObjects ==
    [type : TransactionTypes, state : TransactionStates, request : Requests,
     user : Nat, latest : {"none"} \cup SendEvents]

Notices == [event : {"none"} \cup Life!Events, ua : Nat, position : Int]
Sendings == {"request", "ACK", "none"} \cup SendEvents

Stacks ==
    [uas : Seq(Nat), account : Seq(Nat),
     dialogs : Seq(Nat), dialog : Seq(DialogObjects),
     transactions : Seq(Nat), transaction : Seq(TransactionObjects),
     binded : [0 .. Accounts -> BOOLEAN],
     wire : SUBSET (Nat \X Sendings), answers : SUBSET (Nat \X SendEvents),
     told : Notices, fault : {"none"} \cup Deaths]

SameAgents(s, r) ==
    r.uas = s.uas /\ r.account = s.account /\ r.dialogs = s.dialogs
        /\ r.dialog = s.dialog
\* Only dialog d may differ.
SameDialogsBut(s, r, d) ==
    /\ r.uas = s.uas /\ r.account = s.account /\ r.dialogs = s.dialogs
    /\ Len(r.dialog) = Len(s.dialog)
    /\ \A e \in DOMAIN s.dialog : e # d => r.dialog[e] = s.dialog[e]

SameMachines(s, r) ==
    r.transactions = s.transactions /\ r.transaction = s.transaction
        /\ r.answers = s.answers
SameRest(s, r) == r.told = s.told /\ r.binded = s.binded /\ r.fault = s.fault

-----------------------------------------------------------------------------
(* Setting one field *)

\* What is sent touches nothing else.
LEMMA SetWire ==
    ASSUME NEW s \in Stacks, NEW w \in SUBSET (Nat \X Sendings)
    PROVE  LET r == [s EXCEPT !.wire = w] IN
           r \in Stacks /\ SameAgents(s, r) /\ SameMachines(s, r) /\ SameRest(s, r)
BY DEF Stacks, SameAgents, SameMachines, SameRest

\* A final answer that is noted touches nothing else.
LEMMA SetAnswers ==
    ASSUME NEW s \in Stacks, NEW w \in SUBSET (Nat \X SendEvents)
    PROVE  LET r == [s EXCEPT !.answers = w] IN
           /\ r \in Stacks /\ SameAgents(s, r) /\ SameRest(s, r)
           /\ r.transactions = s.transactions /\ r.transaction = s.transaction
           /\ r.answers = w
BY DEF Stacks, SameAgents, SameRest

\* Nor does what the client is told.
LEMMA SetTold ==
    ASSUME NEW s \in Stacks, NEW w \in Notices
    PROVE  LET r == [s EXCEPT !.told = w] IN
           /\ r \in Stacks /\ SameAgents(s, r) /\ SameMachines(s, r)
           /\ r.binded = s.binded /\ r.fault = s.fault /\ r.told = w
BY DEF Stacks, SameAgents, SameMachines

\* One dialog is changed, and no other.
LEMMA SetDialog ==
    ASSUME NEW s \in Stacks, NEW d \in DOMAIN s.dialog, NEW v \in DialogObjects
    PROVE  LET r == [s EXCEPT !.dialog = [s.dialog EXCEPT ![d] = v]] IN
           /\ r \in Stacks /\ SameMachines(s, r) /\ SameRest(s, r)
           /\ SameDialogsBut(s, r, d) /\ r.dialog[d] = v
<1> DEFINE q == [s.dialog EXCEPT ![d] = v]
           r == [s EXCEPT !.dialog = q]
<1>1. s.dialog \in Seq(DialogObjects)
  BY DEF Stacks
<1>2. /\ q \in Seq(DialogObjects) /\ Len(q) = Len(s.dialog) /\ q[d] = v
      /\ \A e \in DOMAIN s.dialog : e # d => q[e] = s.dialog[e]
  BY <1>1
<1> HIDE DEF q
<1>3. r \in Stacks
  BY <1>2 DEF Stacks
<1>4. /\ SameMachines(s, r) /\ SameRest(s, r) /\ r.uas = s.uas
      /\ r.account = s.account /\ r.dialogs = s.dialogs /\ r.dialog = q
  BY DEF Stacks, SameMachines, SameRest
<1> QED BY <1>2, <1>3, <1>4 DEF q, SameDialogsBut

\* One transaction is changed, and no other.
LEMMA SetTransaction ==
    ASSUME NEW s \in Stacks, NEW t \in DOMAIN s.transaction,
           NEW v \in TransactionObjects
    PROVE  LET r == [s EXCEPT !.transaction = [s.transaction EXCEPT ![t] = v]] IN
           /\ r \in Stacks /\ SameAgents(s, r) /\ SameRest(s, r)
           /\ r.transactions = s.transactions /\ r.answers = s.answers
           /\ Len(r.transaction) = Len(s.transaction)
           /\ r.transaction[t] = v
           /\ \A u \in DOMAIN s.transaction : u # t => r.transaction[u] = s.transaction[u]
<1> DEFINE q == [s.transaction EXCEPT ![t] = v]
           r == [s EXCEPT !.transaction = q]
<1>1. s.transaction \in Seq(TransactionObjects)
  BY DEF Stacks
<1>2. /\ q \in Seq(TransactionObjects) /\ Len(q) = Len(s.transaction) /\ q[t] = v
      /\ \A u \in DOMAIN s.transaction : u # t => q[u] = s.transaction[u]
  BY <1>1
<1> HIDE DEF q
<1>3. r \in Stacks
  BY <1>2 DEF Stacks
<1>4. /\ SameAgents(s, r) /\ SameRest(s, r) /\ r.transactions = s.transactions
      /\ r.answers = s.answers /\ r.transaction = q
  BY DEF Stacks, SameAgents, SameRest
<1> QED BY <1>2, <1>3, <1>4 DEF q

-----------------------------------------------------------------------------
(* Lists *)

\* What is put into a list is in it, behind what was there.
LEMMA PutInListEffect ==
    ASSUME NEW list \in Seq(Nat), NEW n \in Nat
    PROVE  /\ PutInList(list, n) \in Seq(Nat)
           /\ \A m : InList(PutInList(list, n), m) <=> InList(list, m) \/ m = n
           /\ NoTwice(list) /\ ~InList(list, n) => NoTwice(PutInList(list, n))
<1>1. /\ PutInList(list, n) \in Seq(Nat)
      /\ DOMAIN list = 1 .. Len(list) /\ Len(list) \in Nat
      /\ DOMAIN PutInList(list, n) = 1 .. Len(list) + 1
      /\ \A i \in 1 .. Len(list) : PutInList(list, n)[i] = list[i]
      /\ PutInList(list, n)[Len(list) + 1] = n
  BY DEF PutInList
<1> QED BY <1>1, SMTT(30) DEF InList, NoTwice

\* A list without repetitions loses the element that is removed, and only that.
LEMMA DelFromListEffect ==
    ASSUME NEW list \in Seq(Nat), NEW n
    PROVE  /\ DelFromList(list, n) \in Seq(Nat)
           /\ \A m : InList(DelFromList(list, n), m) => InList(list, m)
           /\ NoTwice(list) =>
                /\ NoTwice(DelFromList(list, n))
                /\ \A m : InList(DelFromList(list, n), m) <=> InList(list, m) /\ m # n
<1>1. CASE ~InList(list, n)
  BY <1>1 DEF DelFromList, InList
<1>2. CASE InList(list, n)
  <2> DEFINE at == CHOOSE i \in DOMAIN list : list[i] = n
             r  == DelFromList(list, n)
  <2>1. at \in DOMAIN list /\ list[at] = n
    BY <1>2 DEF InList
  <2>2. r = Without(list, at)
    BY <1>2 DEF DelFromList, Without
  <2> HIDE DEF at, r
  <2>3. /\ r \in Seq(Nat)
        /\ \A j \in DOMAIN r : \E i \in DOMAIN list : r[j] = list[i]
        /\ \A i \in DOMAIN list : i # at => \E j \in DOMAIN r : r[j] = list[i]
        /\ NoTwice(list) =>
             NoTwice(r) /\ \A j \in DOMAIN r : r[j] # list[at]
    BY <2>1, <2>2, WithoutElement
  <2> QED BY <2>1, <2>3 DEF InList, r
<1> QED BY <1>1, <1>2

\* The first element in a set is NULL when there is none, and else one of them.
LEMMA FirstInListEffect ==
    ASSUME NEW list \in Seq(Nat), NEW S
    PROVE  /\ FirstInList(list, S) # Null =>
                InList(list, FirstInList(list, S)) /\ FirstInList(list, S) \in S
           /\ \A n \in S : InList(list, n) /\ Null \notin S => FirstInList(list, S) # Null
<1> DEFINE found == {i \in DOMAIN list : list[i] \in S}
           first == CHOOSE i \in found : \A j \in found : i <= j
<1>1. CASE found = {}
  BY <1>1 DEF FirstInList, InList
<1>2. CASE found # {}
  <2>1. found \in SUBSET Nat
    OBVIOUS
  <2>2. \E i \in found : \A j \in found : i <= j
    <3> HIDE DEF found
    <3> QED BY <1>2, <2>1, LeastElement
  <2>3. first \in found
    BY <2>2
  <2>4. FirstInList(list, S) = list[first]
    BY <1>2 DEF FirstInList
  <2> HIDE DEF first
  <2> QED BY <2>3, <2>4 DEF InList
<1> QED BY <1>1, <1>2

\* The position of a listed user agent counts from 0 and leads back to it.
LEMMA PositionOfListed ==
    ASSUME NEW s \in Stacks, NEW ua, InList(s.uas, ua)
    PROVE  GetUaPosition(s, ua) \in Nat /\ GetUa(s, GetUaPosition(s, ua)) = ua
<1> DEFINE at == CHOOSE i \in DOMAIN s.uas : s.uas[i] = ua
<1>1. at \in DOMAIN s.uas /\ s.uas[at] = ua
  BY DEF InList
<1>2. GetUaPosition(s, ua) = at - 1
  BY DEF GetUaPosition
<1> HIDE DEF at
<1>3. s.uas \in Seq(Nat)
  BY DEF Stacks
<1>4. at \in Nat /\ at >= 1
  BY <1>1, <1>3
<1> QED BY <1>1, <1>2, <1>4 DEF GetUa

\* The position of a user agent is a number, -1 when it is not listed.
LEMMA PositionIsInteger ==
    ASSUME NEW s \in Stacks, NEW ua
    PROVE  GetUaPosition(s, ua) \in Int
BY PositionOfListed DEF GetUaPosition

-----------------------------------------------------------------------------
(* The tables, for the events of the program as it is built *)

\* Every entry of the tables leads to a state (Transaction.c:405-:667).
LEMMA EntriesTyped ==
    ASSUME NEW type \in TransactionTypes, NEW state,
           NEW e \in LocateFsmState(type, state)
    PROVE  e.nextState \in TransactionStates
BY DEF LocateFsmState, Fsm, TransactionTypes, ClientTypes, ServerTypes,
       TransactionStates, Entry, Goto,
       ClientNonInviteTransactionFsm, ClientInviteTransactionFsm,
       ServerInviteTransactionFsm, ServerNonInviteTransactionFsm,
       ClientInitState, ClientNonInviteTryingState, ClientNonInviteProceedingState,
       ClientNonInviteCompletedState, ClientInviteCallingState,
       ClientInviteProceedingState, ClientInviteCompletedState,
       ServerInviteInitState, ServerInviteProceedingState, ServerInviteCompletedState,
       ServerInviteConfirmedState, ServerNonInviteInitState, ServerNonInviteTryingState,
       ServerNonInviteProceedingState, ServerNonInviteCompletedState

\* The state a transaction is started into.
FirstState(type) ==
    CASE type = "CLIENT_INVITE" -> "CALLING"
      [] type = "SERVER_INVITE" -> "PROCEEDING"
      [] OTHER -> "TRYING"

\* A transaction of each type starts in one state.
LEMMA InitEntries ==
    ASSUME NEW type \in TransactionTypes,
           NEW e \in LocateEventEntry(type, "INIT", "INIT")
    PROVE  e.nextState = FirstState(type)
BY DEF LocateEventEntry, LocateFsmState, Fsm, TransactionTypes, ClientTypes,
       ServerTypes, FirstState, Entry, Goto,
       ClientNonInviteTransactionFsm, ClientInviteTransactionFsm,
       ServerInviteTransactionFsm, ServerNonInviteTransactionFsm,
       ClientInitState, ServerInviteInitState, ServerNonInviteInitState

\* What the tables of the servers have for the events of a handler: a 200 ends an
\* INVITE and completes a request of another method, and nothing follows either.
LEMMA ServerEntries ==
    ASSUME NEW type \in ServerTypes, NEW state,
           NEW event \in {"INVITE", "SEND_OK", "SEND_RINGING",
                          "SEND_REQUEST_TERMINATED"},
           NEW e \in LocateEventEntry(type, state, event)
    PROVE  /\ type = "SERVER_INVITE" /\ state = "PROCEEDING" =>
                e.nextState = IF event \in {"INVITE", "SEND_RINGING"}
                              THEN "PROCEEDING" ELSE "TERMINATED"
           /\ type = "SERVER_NON_INVITE" /\ event = "SEND_OK" =>
                e.nextState = "COMPLETED"
           /\ state # "TERMINATED"
           /\ type = "SERVER_NON_INVITE" => state # "COMPLETED"
BY DEF LocateEventEntry, LocateFsmState, Fsm, ServerTypes, Entry, Goto,
       ServerInviteTransactionFsm, ServerNonInviteTransactionFsm,
       ServerInviteInitState, ServerInviteProceedingState, ServerInviteCompletedState,
       ServerInviteConfirmedState, ServerNonInviteInitState, ServerNonInviteTryingState,
       ServerNonInviteProceedingState, ServerNonInviteCompletedState

\* What the tables of the clients have for a response: a user is told of 1XX and
\* 2XX, and of 4XX unless it rejects an INVITE, and of none after the last one.
LEMMA ClientEntries ==
    ASSUME NEW type \in ClientTypes, NEW state, NEW code \in ResponseEvents,
           NEW e \in LocateEventEntry(type, state, code)
    PROVE  /\ state \in {"CALLING", "TRYING", "PROCEEDING", "COMPLETED"}
           /\ code = "1XX" => e.nextState = "PROCEEDING" /\ state # "COMPLETED"
           /\ code # "1XX" => e.nextState \in {"COMPLETED", "TERMINATED"}
           /\ e.nextState = "TERMINATED" => type = "CLIENT_INVITE" /\ code = "2XX"
           /\ code = "2XX" /\ type = "CLIENT_INVITE" => e.nextState = "TERMINATED"
           /\ type = "CLIENT_NON_INVITE" => state # "COMPLETED"
           /\ code = "2XX" => state # "COMPLETED"
           /\ (\E i \in DOMAIN e.actions : e.actions[i] = "InformTU") =>
                /\ state # "COMPLETED"
                /\ code \in {"1XX", "2XX"} \/ (code = "4XX" /\ type = "CLIENT_NON_INVITE")
BY DEF LocateEventEntry, LocateFsmState, Fsm, ClientTypes, Entry, Goto,
       ResponseEvents, FinalEvents, RejectEvents, ProvisionalEvent,
       ClientNonInviteTransactionFsm, ClientInviteTransactionFsm,
       ClientInitState, ClientNonInviteTryingState, ClientNonInviteProceedingState,
       ClientNonInviteCompletedState, ClientInviteCallingState,
       ClientInviteProceedingState, ClientInviteCompletedState

\* No table of a client has an entry for a response of our own.
LEMMA ClientNeverResponds ==
    ASSUME NEW type \in ClientTypes, NEW state, NEW event \in SendEvents
    PROVE  LocateEventEntry(type, state, event) = {}
BY DEF LocateEventEntry, LocateFsmState, Fsm, ClientTypes, Entry, Goto,
       SendEvents, RejectEvents,
       ClientNonInviteTransactionFsm, ClientInviteTransactionFsm,
       ClientInitState, ClientNonInviteTryingState, ClientNonInviteProceedingState,
       ClientNonInviteCompletedState, ClientInviteCallingState,
       ClientInviteProceedingState, ClientInviteCompletedState

-----------------------------------------------------------------------------
(* Sending, and a step of a machine *)

\* Transaction u was made the same way.
SameMaking(s, r, u) ==
    /\ r.transaction[u].type = s.transaction[u].type
    /\ r.transaction[u].request = s.transaction[u].request
    /\ r.transaction[u].user = s.transaction[u].user

\* Only the state of t, and the response it repeats, may differ.
Stepped(s, r, t, next) ==
    /\ Len(r.transaction) = Len(s.transaction)
    /\ \A u \in DOMAIN s.transaction :
         /\ SameMaking(s, r, u)
         /\ r.transaction[u].state = IF u = t THEN next ELSE s.transaction[u].state

\* Sending is only seen on the wire.
LEMMA SendMessageEffect ==
    ASSUME NEW s \in Stacks, NEW t \in Nat, NEW what \in Sendings
    PROVE  LET r == SendMessage(s, t, what) IN
           r \in Stacks /\ SameAgents(s, r) /\ SameMachines(s, r) /\ SameRest(s, r)
<1>1. s.wire \cup {<<t, what>>} \in SUBSET (Nat \X Sendings)
  BY DEF Stacks
<1> QED BY <1>1, SetWire DEF SendMessage

\* The transactions that were made.
LEMMA TransactionDomain ==
    ASSUME NEW s \in Stacks
    PROVE  /\ DOMAIN s.transaction = 1 .. Len(s.transaction)
           /\ Len(s.transaction) \in Nat
           /\ \A t \in DOMAIN s.transaction :
                t \in Nat /\ s.transaction[t] \in TransactionObjects
BY DEF Stacks

\* The dialogs that were made.
LEMMA DialogDomain ==
    ASSUME NEW s \in Stacks
    PROVE  /\ DOMAIN s.dialog = 1 .. Len(s.dialog)
           /\ Len(s.dialog) \in Nat
           /\ \A d \in DOMAIN s.dialog :
                d \in Nat /\ s.dialog[d] \in DialogObjects
BY DEF Stacks

\* A stack has dialogs, and they have ids.
LEMMA Fields ==
    ASSUME NEW s \in Stacks
    PROVE  /\ "dialog" \in DOMAIN s
           /\ \A d \in DOMAIN s.dialog : "id" \in DOMAIN s.dialog[d]
<1>1. "dialog" \in DOMAIN s
  BY DEF Stacks
<1>2. \A v \in DialogObjects : "id" \in DOMAIN v
  BY DEF DialogObjects
<1> QED BY <1>1, <1>2, DialogDomain

\* A response is repeated from then on; a final one is an answer.
LEMMA SendResponseEffect ==
    ASSUME NEW s \in Stacks, NEW t \in DOMAIN s.transaction, NEW event \in SendEvents
    PROVE  LET r == SendResponse(s, t, event) IN
           /\ r \in Stacks /\ SameAgents(s, r) /\ SameRest(s, r)
           /\ r.transactions = s.transactions
           /\ Stepped(s, r, t, s.transaction[t].state)
           /\ r.answers = IF event \in {"SEND_OK", "SEND_REQUEST_TERMINATED"}
                          THEN s.answers \cup {<<t, event>>} ELSE s.answers
<1> DEFINE v  == [s.transaction[t] EXCEPT !.latest = event]
           q  == [s EXCEPT !.transaction = [s.transaction EXCEPT ![t] = v]]
           q2 == SendMessage(q, t, event)
           q3 == [q2 EXCEPT !.answers = q2.answers \cup {<<t, event>>}]
<1>1. t \in Nat /\ event \in Sendings /\ s.transaction[t] \in TransactionObjects
  BY TransactionDomain DEF Sendings
<1>2. /\ v \in TransactionObjects /\ v.type = s.transaction[t].type
      /\ v.request = s.transaction[t].request /\ v.user = s.transaction[t].user
      /\ v.state = s.transaction[t].state
  BY <1>1 DEF TransactionObjects
<1> HIDE DEF v
<1>3. /\ q \in Stacks /\ SameAgents(s, q) /\ SameRest(s, q)
      /\ q.transactions = s.transactions /\ q.answers = s.answers
      /\ Len(q.transaction) = Len(s.transaction) /\ q.transaction[t] = v
      /\ \A u \in DOMAIN s.transaction : u # t => q.transaction[u] = s.transaction[u]
  BY <1>2, SetTransaction
<1>4. Stepped(s, q, t, s.transaction[t].state)
  BY <1>2, <1>3 DEF Stepped, SameMaking
<1>5. SendResponse(s, t, event) =
        IF event \in {"SEND_OK", "SEND_REQUEST_TERMINATED"} THEN q3 ELSE q2
  BY DEF SendResponse, v
<1> HIDE DEF q
<1>6. q2 \in Stacks /\ SameAgents(q, q2) /\ SameMachines(q, q2) /\ SameRest(q, q2)
  BY <1>1, <1>3, SendMessageEffect
<1> HIDE DEF q2
<1>7. q2.answers \cup {<<t, event>>} \in SUBSET (Nat \X SendEvents)
  BY <1>1, <1>6 DEF Stacks
<1>8. /\ q3 \in Stacks /\ SameAgents(q2, q3) /\ SameRest(q2, q3)
      /\ q3.transactions = q2.transactions /\ q3.transaction = q2.transaction
      /\ q3.answers = q2.answers \cup {<<t, event>>}
  BY <1>6, <1>7, SetAnswers
<1> HIDE DEF q3
<1>9. /\ SameAgents(s, q2) /\ SameRest(s, q2) /\ q2.transactions = s.transactions
      /\ Stepped(s, q2, t, s.transaction[t].state) /\ q2.answers = s.answers
  BY <1>3, <1>4, <1>6 DEF SameAgents, SameMachines, SameRest, Stepped, SameMaking
<1>10. /\ SameAgents(s, q3) /\ SameRest(s, q3) /\ q3.transactions = s.transactions
       /\ Stepped(s, q3, t, s.transaction[t].state)
  BY <1>8, <1>9 DEF SameAgents, SameRest, Stepped, SameMaking
<1> QED BY <1>5, <1>6, <1>8, <1>9, <1>10

\* The actions of an entry change no list and no state.
LEMMA RunActionsEffect ==
    ASSUME NEW s \in Stacks, NEW t \in DOMAIN s.transaction, NEW ran
    PROVE  LET r == RunActions(s, t, ran) IN
           /\ r \in Stacks /\ SameAgents(s, r) /\ SameRest(s, r)
           /\ r.transactions = s.transactions /\ r.answers = s.answers
           /\ Stepped(s, r, t, s.transaction[t].state)
<1>1. t \in Nat /\ s.transaction[t].latest \in Sendings
  BY TransactionDomain DEF TransactionObjects, Sendings
<1>2. "request" \in Sendings /\ "ACK" \in Sendings /\ "SEND_TRYING" \in SendEvents
  BY DEF Sendings, SendEvents
<1>3. \A what \in Sendings :
        LET r == SendMessage(s, t, what) IN
           /\ r \in Stacks /\ SameAgents(s, r) /\ SameRest(s, r)
           /\ r.transactions = s.transactions /\ r.answers = s.answers
           /\ Stepped(s, r, t, s.transaction[t].state)
  BY <1>1, SendMessageEffect DEF SameMachines, Stepped, SameMaking
<1>4. LET r == SendResponse(s, t, "SEND_TRYING") IN
           /\ r \in Stacks /\ SameAgents(s, r) /\ SameRest(s, r)
           /\ r.transactions = s.transactions /\ r.answers = s.answers
           /\ Stepped(s, r, t, s.transaction[t].state)
  BY <1>2, SendResponseEffect
<1>5. SameAgents(s, s) /\ SameRest(s, s) /\ Stepped(s, s, t, s.transaction[t].state)
  BY DEF SameAgents, SameRest, Stepped, SameMaking
<1>6. RunActions(s, t, ran) \in
        {SendMessage(s, t, "request"), SendMessage(s, t, "ACK"),
         SendMessage(s, t, s.transaction[t].latest),
         SendResponse(s, t, "SEND_TRYING"), s}
  BY DEF RunActions
<1> QED BY <1>1, <1>2, <1>3, <1>4, <1>5, <1>6

\* An event the process survives has an entry, whose state is the next.
LEMMA AdvanceEffect ==
    ASSUME NEW s \in Stacks, NEW t \in DOMAIN s.transaction, NEW event,
           Advance(s, t, event).fault = "none"
    PROVE  LET r == Advance(s, t, event) IN
           \E e \in EntriesFor(s, t, event) :
             /\ r \in Stacks /\ SameAgents(s, r) /\ SameRest(s, r)
             /\ r.transactions = s.transactions /\ r.answers = s.answers
             /\ Stepped(s, r, t, e.nextState)
<1>0. Running(s)
  BY DEF Running, Stacks
<1>1. EntriesFor(s, t, event) # {}
  BY <1>0, DieFollows DEF Advance, Deaths
<1> DEFINE e == CHOOSE x \in EntriesFor(s, t, event) : TRUE
           v == [s.transaction[t] EXCEPT !.state = e.nextState]
           q == [s EXCEPT !.transaction = [s.transaction EXCEPT ![t] = v]]
           r == RunActions(q, t, InvokeActions(e.actions, TRUE))
<1>2. e \in EntriesFor(s, t, event)
  BY <1>1
<1>3. Advance(s, t, event) = r
  BY <1>1 DEF Advance
<1> HIDE DEF e
<1>4. s.transaction[t] \in TransactionObjects
  BY TransactionDomain
<1>5. e.nextState \in TransactionStates
  BY <1>2, <1>4, EntriesTyped DEF EntriesFor, LocateEventEntry, TransactionObjects
<1>6. /\ v \in TransactionObjects /\ v.type = s.transaction[t].type
      /\ v.request = s.transaction[t].request /\ v.user = s.transaction[t].user
      /\ v.state = e.nextState
  BY <1>4, <1>5 DEF TransactionObjects
<1> HIDE DEF v
<1>7. /\ q \in Stacks /\ SameAgents(s, q) /\ SameRest(s, q)
      /\ q.transactions = s.transactions /\ q.answers = s.answers
      /\ Len(q.transaction) = Len(s.transaction) /\ q.transaction[t] = v
      /\ \A u \in DOMAIN s.transaction : u # t => q.transaction[u] = s.transaction[u]
  BY <1>6, SetTransaction
<1>8. Stepped(s, q, t, e.nextState) /\ t \in DOMAIN q.transaction
  BY <1>6, <1>7, TransactionDomain DEF Stepped, SameMaking
<1> HIDE DEF q
<1>9. /\ r \in Stacks /\ SameAgents(q, r) /\ SameRest(q, r)
      /\ r.transactions = q.transactions /\ r.answers = q.answers
      /\ Stepped(q, r, t, q.transaction[t].state)
  BY <1>7, <1>8, RunActionsEffect
<1> HIDE DEF r
<1>10. SameAgents(s, r) /\ SameRest(s, r) /\ r.transactions = s.transactions
         /\ r.answers = s.answers
  BY <1>7, <1>9 DEF SameAgents, SameRest
<1>11. Stepped(s, r, t, e.nextState)
  BY <1>7, <1>8, <1>9, TransactionDomain DEF Stepped, SameMaking
<1> QED BY <1>2, <1>3, <1>9, <1>10, <1>11

\* A transaction that is over is unlisted; nothing else changes.
LEMMA RemoveTerminatedTransactionEffect ==
    ASSUME NEW s \in Stacks, NEW t
    PROVE  LET r == RemoveTerminatedTransaction(s, t) IN
           /\ r \in Stacks /\ SameAgents(s, r) /\ SameRest(s, r)
           /\ r.transaction = s.transaction /\ r.answers = s.answers
           /\ r.transactions = IF s.transaction[t].state = "TERMINATED"
                               THEN DelFromList(s.transactions, t)
                               ELSE s.transactions
<1>1. DelFromList(s.transactions, t) \in Seq(Nat)
  BY DelFromListEffect DEF Stacks
<1> DEFINE r == [s EXCEPT !.transactions = DelFromList(s.transactions, t)]
<1>2. r \in Stacks
  BY <1>1 DEF Stacks
<1>3. /\ SameAgents(s, r) /\ SameRest(s, r)
      /\ r.transaction = s.transaction /\ r.answers = s.answers
      /\ r.transactions = DelFromList(s.transactions, t)
  BY DEF Stacks, SameAgents, SameRest
<1>4. RemoveTerminatedTransaction(s, t) =
        IF s.transaction[t].state = "TERMINATED" THEN r ELSE s
  BY DEF RemoveTerminatedTransaction
<1> HIDE DEF r
<1> QED BY <1>2, <1>3, <1>4 DEF SameAgents, SameRest

\* The same, and what is terminated is unlisted.
LEMMA RunQuietlyEffect ==
    ASSUME NEW s \in Stacks, NEW t \in DOMAIN s.transaction, NEW event,
           RunQuietly(s, t, event).fault = "none"
    PROVE  LET r == RunQuietly(s, t, event) IN
           \E e \in EntriesFor(s, t, event) :
             /\ r \in Stacks /\ SameAgents(s, r) /\ SameRest(s, r)
             /\ r.answers = s.answers
             /\ Stepped(s, r, t, e.nextState)
             /\ r.transactions = IF e.nextState = "TERMINATED"
                                 THEN DelFromList(s.transactions, t)
                                 ELSE s.transactions
<1> DEFINE q == Advance(s, t, event)
           r == RemoveTerminatedTransaction(q, t)
<1>1. RunQuietly(s, t, event) = r
  BY DEF RunQuietly
<1>2. Running(s)
  BY DEF Running, Stacks
<1>3. Follows(s, q)
  BY <1>2, AdvanceFollows
<1>4. q.fault = "none"
  BY <1>1, <1>3, RemoveTerminatedTransactionFollows DEF Follows
<1>5. PICK e \in EntriesFor(s, t, event) :
        /\ q \in Stacks /\ SameAgents(s, q) /\ SameRest(s, q)
        /\ q.transactions = s.transactions /\ q.answers = s.answers
        /\ Stepped(s, q, t, e.nextState)
  BY <1>4, AdvanceEffect
<1> HIDE DEF q
<1>6. /\ r \in Stacks /\ SameAgents(q, r) /\ SameRest(q, r)
      /\ r.transaction = q.transaction /\ r.answers = q.answers
      /\ r.transactions = IF q.transaction[t].state = "TERMINATED"
                          THEN DelFromList(q.transactions, t)
                          ELSE q.transactions
  BY <1>5, RemoveTerminatedTransactionEffect
<1> HIDE DEF r
<1>7. q.transaction[t].state = e.nextState
  BY <1>5 DEF Stepped
<1>8. Stepped(s, r, t, e.nextState)
  BY <1>5, <1>6 DEF Stepped, SameMaking
<1>9. SameAgents(s, r) /\ SameRest(s, r)
  BY <1>5, <1>6 DEF SameAgents, SameRest
<1> QED BY <1>1, <1>5, <1>6, <1>7, <1>8, <1>9

\* A transaction was made behind those that were there, and is in this state.
Appended(s, r, m, user, type, state) ==
    LET k == Len(s.transaction) + 1 IN
    /\ Len(r.transaction) = k
    /\ \A u \in DOMAIN s.transaction :
         SameMaking(s, r, u) /\ r.transaction[u].state = s.transaction[u].state
    /\ r.transaction[k].type = type
    /\ r.transaction[k].request = m
    /\ r.transaction[k].user = user
    /\ r.transaction[k].state = state

\* It was made and started.
Started(s, r, m, user, type) == Appended(s, r, m, user, type, FirstState(type))

\* A transaction is put at the end of the list, started.
LEMMA AddTransactionEffect ==
    ASSUME NEW s \in Stacks, NEW m \in Requests, NEW user \in Nat,
           NEW type \in TransactionTypes,
           AddTransaction(s, m, user, type).fault = "none"
    PROVE  LET r == AddTransaction(s, m, user, type) IN
           /\ r \in Stacks /\ SameAgents(s, r) /\ SameRest(s, r)
           /\ r.answers = s.answers
           /\ r.transactions = PutInList(s.transactions, Len(s.transaction) + 1)
           /\ Started(s, r, m, user, type)
<1> DEFINE k == Len(s.transaction) + 1
           v == [type |-> type, state |-> "INIT", request |-> m, user |-> user,
                 latest |-> "none"]
           q == PutTransaction(s, m, user, type)
           r == RunQuietly(q, k, "INIT")
<1>1. v \in TransactionObjects
  BY DEF TransactionObjects, TransactionStates
<1>2. k \in Nat /\ s.transaction \in Seq(TransactionObjects)
  BY DEF Stacks
<1>3. PutInList(s.transactions, k) \in Seq(Nat)
  BY <1>2, PutInListEffect DEF Stacks
<1>4. q = [s EXCEPT !.transactions = PutInList(s.transactions, k),
                    !.transaction = Append(s.transaction, v)]
  BY DEF PutTransaction
<1>5. r = AddTransaction(s, m, user, type)
  BY DEF AddTransaction
<1>6. /\ Append(s.transaction, v) \in Seq(TransactionObjects)
      /\ Len(Append(s.transaction, v)) = k
      /\ \A u \in DOMAIN s.transaction : Append(s.transaction, v)[u] = s.transaction[u]
      /\ Append(s.transaction, v)[k] = v
  BY <1>1, <1>2
<1>7. /\ v.type = type /\ v.state = "INIT" /\ v.request = m /\ v.user = user
  OBVIOUS
<1> HIDE DEF v, k
<1>8. q \in Stacks
  BY <1>3, <1>4, <1>6 DEF Stacks
<1>9. /\ SameAgents(s, q) /\ SameRest(s, q) /\ q.answers = s.answers
      /\ q.transactions = PutInList(s.transactions, k)
      /\ q.transaction = Append(s.transaction, v)
  BY <1>4 DEF Stacks, SameAgents, SameRest
<1> HIDE DEF q
<1>10. k \in DOMAIN q.transaction
  BY <1>2, <1>6, <1>9 DEF k
<1>11. PICK e \in EntriesFor(q, k, "INIT") :
             /\ r \in Stacks /\ SameAgents(q, r) /\ SameRest(q, r)
             /\ r.answers = q.answers
             /\ Stepped(q, r, k, e.nextState)
             /\ r.transactions = IF e.nextState = "TERMINATED"
                                 THEN DelFromList(q.transactions, k)
                                 ELSE q.transactions
  BY <1>5, <1>8, <1>10, RunQuietlyEffect
<1> HIDE DEF r
<1>12. e.nextState = FirstState(type)
  BY <1>6, <1>7, <1>9, <1>11, InitEntries DEF EntriesFor
<1>13. r.transactions = q.transactions
  BY <1>11, <1>12 DEF FirstState
<1>14. Started(s, r, m, user, type)
  <2>1. \A u \in DOMAIN s.transaction : u # k /\ u \in DOMAIN q.transaction
    BY <1>2, <1>6, <1>9 DEF k
  <2> QED BY <2>1, <1>6, <1>7, <1>9, <1>10, <1>11, <1>12
          DEF Stepped, SameMaking, Started, Appended, k
<1>15. SameAgents(s, r) /\ SameRest(s, r)
  BY <1>9, <1>11 DEF SameAgents, SameRest
<1> QED BY <1>5, <1>9, <1>11, <1>13, <1>14, <1>15 DEF k

\* What a response of our own does, when the process survives it.
LEMMA ResponseWithEffect ==
    ASSUME NEW s \in Stacks, NEW t \in DOMAIN s.transaction,
           NEW event \in {"SEND_OK", "SEND_RINGING", "SEND_REQUEST_TERMINATED"},
           ResponseWith(s, t, event).fault = "none"
    PROVE  LET r == ResponseWith(s, t, event) IN
           \E e \in EntriesFor(s, t, event) :
             /\ r \in Stacks /\ SameAgents(s, r) /\ SameRest(s, r)
             /\ r.answers = IF event = "SEND_RINGING" THEN s.answers
                            ELSE s.answers \cup {<<t, event>>}
             /\ Stepped(s, r, t, e.nextState)
             /\ r.transactions = IF e.nextState = "TERMINATED"
                                 THEN DelFromList(s.transactions, t)
                                 ELSE s.transactions
<1> DEFINE q == SendResponse(s, t, event)
           r == RunQuietly(q, t, event)
<1>1. ResponseWith(s, t, event) = r
  BY DEF ResponseWith
<1>2. event \in SendEvents
  BY DEF SendEvents
<1>3. /\ q \in Stacks /\ SameAgents(s, q) /\ SameRest(s, q)
      /\ q.transactions = s.transactions
      /\ Stepped(s, q, t, s.transaction[t].state)
      /\ q.answers = IF event = "SEND_RINGING" THEN s.answers
                     ELSE s.answers \cup {<<t, event>>}
  BY <1>2, SendResponseEffect
<1> HIDE DEF q
<1>4. t \in DOMAIN q.transaction
  BY <1>3, TransactionDomain DEF Stepped
<1>5. PICK e \in EntriesFor(q, t, event) :
             /\ r \in Stacks /\ SameAgents(q, r) /\ SameRest(q, r)
             /\ r.answers = q.answers
             /\ Stepped(q, r, t, e.nextState)
             /\ r.transactions = IF e.nextState = "TERMINATED"
                                 THEN DelFromList(q.transactions, t)
                                 ELSE q.transactions
  BY <1>1, <1>3, <1>4, RunQuietlyEffect
<1> HIDE DEF r
<1>6. e \in EntriesFor(s, t, event)
  BY <1>3, <1>5 DEF EntriesFor, Stepped, SameMaking
<1>7. Stepped(s, r, t, e.nextState)
  BY <1>3, <1>5, TransactionDomain DEF Stepped, SameMaking
<1>8. SameAgents(s, r) /\ SameRest(s, r)
  BY <1>3, <1>5 DEF SameAgents, SameRest
<1> QED BY <1>1, <1>3, <1>5, <1>6, <1>7, <1>8

-----------------------------------------------------------------------------
(* Dialogs *)

\* The client is told the position the user agent has in that moment.
LEMMA NotifyCmEffect ==
    ASSUME NEW s \in Stacks, NEW event \in Life!Events, NEW ua \in Nat
    PROVE  LET r == NotifyCm(s, event, ua) IN
           /\ r \in Stacks /\ SameAgents(s, r) /\ SameMachines(s, r)
           /\ r.binded = s.binded /\ r.fault = s.fault
           /\ r.told = [event |-> event, ua |-> ua, position |-> GetUaPosition(s, ua)]
<1> DEFINE v == [event |-> event, ua |-> ua, position |-> GetUaPosition(s, ua)]
<1>1. v \in Notices
  BY PositionIsInteger DEF Notices
<1>2. NotifyCm(s, event, ua) = [s EXCEPT !.told = v]
  BY DEF NotifyCm
<1> HIDE DEF v
<1>3. LET r == [s EXCEPT !.told = v] IN
           /\ r \in Stacks /\ SameAgents(s, r) /\ SameMachines(s, r)
           /\ r.binded = s.binded /\ r.fault = s.fault /\ r.told = v
  BY <1>1, SetTold
<1> QED BY <1>2, <1>3 DEF v

\* The id of a dialog when a transaction of this type was made for it.
IdAfter(type, m, id) ==
    CASE type = "CLIENT_INVITE" -> [id EXCEPT !.local = m.from, !.call = m.call]
      [] type = "SERVER_INVITE" -> [id EXCEPT !.remote = m.from, !.call = m.call]
      [] OTHER -> id

\* A new transaction of a dialog, and what the client is told of it.
LEMMA DialogNewTransactionEffect ==
    ASSUME NEW s \in Stacks, NEW d \in DOMAIN s.dialog, NEW m \in Requests,
           NEW type \in TransactionTypes,
           DialogNewTransaction(s, d, m, type).fault = "none"
    PROVE  LET r == DialogNewTransaction(s, d, m, type)
               k == Len(s.transaction) + 1 IN
           /\ r \in Stacks /\ SameDialogsBut(s, r, d)
           /\ r.dialog[d].id = IdAfter(type, m, s.dialog[d].id)
           /\ r.dialog[d].state = s.dialog[d].state
           /\ r.dialog[d].transaction = k
           /\ r.answers = s.answers
           /\ r.transactions = PutInList(s.transactions, k)
           /\ Started(s, r, m, d, type)
           /\ r.binded = s.binded /\ r.fault = s.fault
           /\ r.told = IF type = "SERVER_INVITE"
                       THEN [event |-> "CALL_INCOMING", ua |-> d,
                             position |-> GetUaPosition(s, d)]
                       ELSE s.told
<1> DEFINE k   == Len(s.transaction) + 1
           s1  == AddTransaction(s, m, d, type)
           w   == [s1.dialog[d] EXCEPT !.transaction = k]
           s2  == [s1 EXCEPT !.dialog = [s1.dialog EXCEPT ![d] = w]]
           wo  == [s2.dialog[d] EXCEPT !.id.local = m.from, !.id.call = m.call]
           out == [s2 EXCEPT !.dialog = [s2.dialog EXCEPT ![d] = wo]]
           wi  == [s2.dialog[d] EXCEPT !.id.remote = m.from, !.id.call = m.call]
           in  == [s2 EXCEPT !.dialog = [s2.dialog EXCEPT ![d] = wi]]
           r   == DialogNewTransaction(s, d, m, type)
<1>1. d \in Nat /\ Running(s) /\ m.from \in Tags /\ m.call \in Tags
  BY DialogDomain DEF Running, Stacks, Requests
<1>2. Follows(s, s1)
  BY <1>1, AddTransactionFollows
<1>3. r = CASE type = "CLIENT_INVITE" ->
                 LET t2 == [s1 EXCEPT !.dialog[d].transaction = Len(s1.transaction)]
                 IN  [t2 EXCEPT !.dialog[d].id.local = m.from, !.dialog[d].id.call = m.call]
            [] type = "SERVER_INVITE" ->
                 LET t2 == [s1 EXCEPT !.dialog[d].transaction = Len(s1.transaction)]
                 IN  NotifyCm([t2 EXCEPT !.dialog[d].id.remote = m.from,
                                         !.dialog[d].id.call = m.call],
                              "CALL_INCOMING", d)
            [] OTHER -> [s1 EXCEPT !.dialog[d].transaction = Len(s1.transaction)]
  BY DEF DialogNewTransaction
<1> HIDE DEF s1
<1>4. s1.fault = "none"
  <2> DEFINE t2 == [s1 EXCEPT !.dialog[d].transaction = Len(s1.transaction)]
             to == [t2 EXCEPT !.dialog[d].id.local = m.from, !.dialog[d].id.call = m.call]
             ti == [t2 EXCEPT !.dialog[d].id.remote = m.from, !.dialog[d].id.call = m.call]
  <2>1. t2.fault = s1.fault /\ to.fault = s1.fault
          /\ NotifyCm(ti, "CALL_INCOMING", d).fault = s1.fault
    BY <1>2 DEF Follows, Running, NotifyCm
  <2>2. r \in {t2, to, NotifyCm(ti, "CALL_INCOMING", d)}
    BY <1>3
  <2> HIDE DEF t2, to, ti, r
  <2>3. r.fault = "none"
    BY DEF r
  <2> QED BY <2>1, <2>2, <2>3
<1>5. /\ s1 \in Stacks /\ SameAgents(s, s1) /\ SameRest(s, s1)
      /\ s1.answers = s.answers
      /\ s1.transactions = PutInList(s.transactions, k)
      /\ Started(s, s1, m, d, type)
  BY <1>1, <1>4, AddTransactionEffect DEF s1
<1>6. d \in DOMAIN s1.dialog /\ s1.dialog[d] = s.dialog[d] /\ Len(s1.transaction) = k
        /\ s.dialog[d] \in DialogObjects
  BY <1>5, DialogDomain DEF SameAgents, Started, Appended
<1>7. k \in Nat
  BY TransactionDomain
<1> HIDE DEF k
<1>8. /\ w \in DialogObjects /\ w.id = s.dialog[d].id /\ w.state = s.dialog[d].state
      /\ w.transaction = k
  BY <1>6, <1>7 DEF DialogObjects
<1>9. s2 = [s1 EXCEPT !.dialog[d].transaction = Len(s1.transaction)]
  BY <1>6
<1> HIDE DEF w
<1>10. /\ s2 \in Stacks /\ SameMachines(s1, s2) /\ SameRest(s1, s2)
       /\ SameDialogsBut(s1, s2, d) /\ s2.dialog[d] = w /\ d \in DOMAIN s2.dialog
  BY <1>5, <1>6, <1>8, SetDialog, DialogDomain DEF SameDialogsBut
<1> HIDE DEF s2
<1>. "dialog" \in DOMAIN s2 /\ "id" \in DOMAIN s2.dialog[d]
  BY <1>10, Fields
<1>11. out = [s2 EXCEPT !.dialog[d].id.local = m.from, !.dialog[d].id.call = m.call]
  BY <1>10
<1>12. in = [s2 EXCEPT !.dialog[d].id.remote = m.from, !.dialog[d].id.call = m.call]
  BY <1>10
<1>13. r = CASE type = "CLIENT_INVITE" -> out
             [] type = "SERVER_INVITE" -> NotifyCm(in, "CALL_INCOMING", d)
             [] OTHER -> s2
  BY <1>3, <1>9, <1>11, <1>12
<1>14. /\ wo \in DialogObjects /\ wo.state = s.dialog[d].state /\ wo.transaction = k
       /\ wo.id = [s.dialog[d].id EXCEPT !.local = m.from, !.call = m.call]
       /\ wi \in DialogObjects /\ wi.state = s.dialog[d].state /\ wi.transaction = k
       /\ wi.id = [s.dialog[d].id EXCEPT !.remote = m.from, !.call = m.call]
  BY <1>1, <1>8, <1>10 DEF DialogObjects, DialogIds
<1> HIDE DEF wo, wi
<1>15. /\ out \in Stacks /\ SameMachines(s2, out) /\ SameRest(s2, out)
       /\ SameDialogsBut(s2, out, d) /\ out.dialog[d] = wo
       /\ in \in Stacks /\ SameMachines(s2, in) /\ SameRest(s2, in)
       /\ SameDialogsBut(s2, in, d) /\ in.dialog[d] = wi
  BY <1>10, <1>14, SetDialog
<1> HIDE DEF out, in, r
<1>16. /\ SameDialogsBut(s, s2, d) /\ SameMachines(s1, s2) /\ SameRest(s, s2)
       /\ SameDialogsBut(s, out, d) /\ SameMachines(s1, out) /\ SameRest(s, out)
       /\ SameDialogsBut(s, in, d) /\ SameMachines(s1, in) /\ SameRest(s, in)
  <2>1. DOMAIN s1.dialog = DOMAIN s.dialog /\ DOMAIN s2.dialog = DOMAIN s.dialog
    BY <1>5, <1>10, DialogDomain DEF SameAgents, SameDialogsBut
  <2>2. SameDialogsBut(s, s2, d) /\ SameDialogsBut(s, out, d) /\ SameDialogsBut(s, in, d)
    BY <2>1, <1>5, <1>10, <1>15 DEF SameAgents, SameDialogsBut
  <2>3. SameMachines(s1, s2) /\ SameMachines(s1, out) /\ SameMachines(s1, in)
    BY <1>10, <1>15 DEF SameMachines
  <2>4. SameRest(s, s2) /\ SameRest(s, out) /\ SameRest(s, in)
    BY <1>5, <1>10, <1>15 DEF SameRest
  <2> QED BY <2>2, <2>3, <2>4
<1>17. \A q \in Stacks : SameMachines(s1, q) =>
         /\ q.answers = s.answers /\ q.transactions = PutInList(s.transactions, k)
         /\ Started(s, q, m, d, type)
  BY <1>5 DEF SameMachines, Started, Appended, SameMaking
<1>18. CASE type = "CLIENT_INVITE"
  <2>1. r = out
    BY <1>13, <1>18
  <2> QED BY <2>1, <1>14, <1>15, <1>16, <1>17, <1>18 DEF SameRest, IdAfter, k, r
<1>19. CASE type = "SERVER_INVITE"
  <2>1. r = NotifyCm(in, "CALL_INCOMING", d)
    BY <1>13, <1>19
  <2>2. "CALL_INCOMING" \in Life!Events
    BY DEF Life!Events
  <2>3. /\ r \in Stacks /\ SameAgents(in, r) /\ SameMachines(in, r)
        /\ r.binded = in.binded /\ r.fault = in.fault
        /\ r.told = [event |-> "CALL_INCOMING", ua |-> d, position |-> GetUaPosition(in, d)]
    BY <1>1, <1>15, <2>1, <2>2, NotifyCmEffect
  <2>4. GetUaPosition(in, d) = GetUaPosition(s, d)
    BY <1>16 DEF GetUaPosition, SameDialogsBut
  <2>5. SameDialogsBut(s, r, d) /\ r.dialog[d] = wi /\ SameMachines(s1, r)
    BY <2>3, <1>15, <1>16 DEF SameDialogsBut, SameAgents, SameMachines
  <2> QED BY <2>3, <2>4, <2>5, <1>14, <1>16, <1>17, <1>19 DEF SameRest, IdAfter, k, r
<1>20. CASE type \notin {"CLIENT_INVITE", "SERVER_INVITE"}
  <2>1. r = s2
    BY <1>13, <1>20
  <2> QED BY <2>1, <1>8, <1>10, <1>16, <1>17, <1>20 DEF SameRest, IdAfter, k, r
<1> QED BY <1>18, <1>19, <1>20

-----------------------------------------------------------------------------
(* User agents and the handlers of dialogs *)

Fresh(s) == Len(s.dialog) + 1

\* A user agent and its dialog are listed, the dialog without an id.
LEMMA AddUserAgentEffect ==
    ASSUME NEW s \in Stacks, Len(s.account) = Len(s.dialog), NEW account \in Nat
    PROVE  LET r == AddDialog(AddUa(s, account)) IN
           /\ r \in Stacks /\ SameMachines(s, r) /\ SameRest(s, r)
           /\ r.uas = PutInList(s.uas, Fresh(s))
           /\ r.account = Append(s.account, account)
           /\ r.dialogs = PutInList(s.dialogs, Fresh(s))
           /\ Len(r.dialog) = Fresh(s)
           /\ \A e \in DOMAIN s.dialog : r.dialog[e] = s.dialog[e]
           /\ r.dialog[Fresh(s)].id = EmptyDialogId
           /\ r.dialog[Fresh(s)].state = "NON_EXIST"
<1> DEFINE n == Fresh(s)
           q == [s EXCEPT !.uas = PutInList(s.uas, n),
                          !.account = Append(s.account, account)]
           v == [FreedDialog EXCEPT !.state = "NON_EXIST"]
           r == [q EXCEPT !.dialogs = PutInList(s.dialogs, n),
                          !.dialog = Append(s.dialog, v)]
<1>1. /\ n \in Nat /\ s.uas \in Seq(Nat) /\ s.dialogs \in Seq(Nat)
      /\ s.account \in Seq(Nat) /\ s.dialog \in Seq(DialogObjects)
  BY DialogDomain DEF Fresh, Stacks
<1>2. /\ v \in DialogObjects /\ v.id = EmptyDialogId /\ v.state = "NON_EXIST"
  BY DEF DialogObjects, DialogIds, FreedDialog, EmptyDialogId, Tags, DialogStates, Null
<1> HIDE DEF v
<1>3. PutInList(s.uas, n) \in Seq(Nat) /\ PutInList(s.dialogs, n) \in Seq(Nat)
  BY <1>1, PutInListEffect
<1>4. /\ Append(s.account, account) \in Seq(Nat)
      /\ Append(s.dialog, v) \in Seq(DialogObjects)
      /\ Len(Append(s.dialog, v)) = n /\ Append(s.dialog, v)[n] = v
      /\ \A e \in DOMAIN s.dialog : Append(s.dialog, v)[e] = s.dialog[e]
  BY <1>1, <1>2 DEF Fresh
<1>5. AddUa(s, account) = q
  BY DEF AddUa, Fresh
<1>6. q.dialogs = s.dialogs /\ q.dialog = s.dialog
  BY DEF Stacks
<1>7. AddDialog(AddUa(s, account)) = r
  BY <1>5, <1>6 DEF AddDialog, Fresh, v
<1> HIDE DEF n
<1>8. q \in Stacks
  BY <1>3, <1>4 DEF Stacks
<1>9. /\ SameMachines(s, q) /\ SameRest(s, q) /\ q.uas = PutInList(s.uas, n)
      /\ q.account = Append(s.account, account)
  BY DEF Stacks, SameMachines, SameRest
<1> HIDE DEF q
<1>10. r \in Stacks
  BY <1>3, <1>4, <1>8 DEF Stacks
<1>11. /\ SameMachines(q, r) /\ SameRest(q, r) /\ r.uas = q.uas /\ r.account = q.account
       /\ r.dialogs = PutInList(s.dialogs, n) /\ r.dialog = Append(s.dialog, v)
  BY <1>8 DEF Stacks, SameMachines, SameRest
<1> HIDE DEF r
<1> QED BY <1>2, <1>4, <1>7, <1>9, <1>10, <1>11 DEF SameMachines, SameRest, n

\* A user agent was made, with a dialog and its first transaction.
AgentMade(s, r, account, m, type) ==
    LET n == Fresh(s)
        k == Len(s.transaction) + 1 IN
    /\ r \in Stacks
    /\ r.uas = PutInList(s.uas, n)
    /\ r.account = Append(s.account, account)
    /\ r.dialogs = PutInList(s.dialogs, n)
    /\ Len(r.dialog) = n
    /\ \A e \in DOMAIN s.dialog : r.dialog[e] = s.dialog[e]
    /\ r.dialog[n].id = IdAfter(type, m, EmptyDialogId)
    /\ r.dialog[n].state = "NON_EXIST"
    /\ r.dialog[n].transaction = k
    /\ r.answers = s.answers
    /\ r.transactions = PutInList(s.transactions, k)
    /\ Started(s, r, m, n, type)
    /\ r.binded = s.binded /\ r.fault = s.fault

\* A user agent is made with a dialog and the first transaction of that.
LEMMA NewAgentEffect ==
    ASSUME NEW s \in Stacks, Len(s.account) = Len(s.dialog), NEW account \in Nat,
           NEW m \in Requests, NEW type \in TransactionTypes,
           DialogNewTransaction(AddDialog(AddUa(s, account)), Fresh(s), m, type).fault
              = "none"
    PROVE  LET r == DialogNewTransaction(AddDialog(AddUa(s, account)), Fresh(s), m, type)
           IN  /\ AgentMade(s, r, account, m, type)
               /\ type # "SERVER_INVITE" => r.told = s.told
               /\ type = "SERVER_INVITE" =>
                    /\ r.told.event = "CALL_INCOMING" /\ r.told.ua = Fresh(s)
                    /\ r.told.position \in Nat
                    /\ GetUa(r, r.told.position) = Fresh(s)
<1> DEFINE n == Fresh(s)
           k == Len(s.transaction) + 1
           q == AddDialog(AddUa(s, account))
           r == DialogNewTransaction(q, n, m, type)
<1>1. /\ q \in Stacks /\ SameMachines(s, q) /\ SameRest(s, q)
      /\ q.uas = PutInList(s.uas, n) /\ q.account = Append(s.account, account)
      /\ q.dialogs = PutInList(s.dialogs, n) /\ Len(q.dialog) = n
      /\ \A e \in DOMAIN s.dialog : q.dialog[e] = s.dialog[e]
      /\ q.dialog[n].id = EmptyDialogId /\ q.dialog[n].state = "NON_EXIST"
  BY AddUserAgentEffect
<1> HIDE DEF q
<1>2. /\ n \in Nat /\ n \in DOMAIN q.dialog
      /\ \A e \in DOMAIN s.dialog : e # n /\ e \in DOMAIN q.dialog
  BY <1>1, DialogDomain DEF Fresh
<1>3. Len(q.transaction) + 1 = k
  BY <1>1 DEF SameMachines
<1> HIDE DEF n, k
<1>4. /\ r \in Stacks /\ SameDialogsBut(q, r, n)
      /\ r.dialog[n].id = IdAfter(type, m, q.dialog[n].id)
      /\ r.dialog[n].state = q.dialog[n].state
      /\ r.dialog[n].transaction = k
      /\ r.answers = q.answers
      /\ r.transactions = PutInList(q.transactions, k)
      /\ Started(q, r, m, n, type)
      /\ r.binded = q.binded /\ r.fault = q.fault
      /\ r.told = IF type = "SERVER_INVITE"
                  THEN [event |-> "CALL_INCOMING", ua |-> n,
                        position |-> GetUaPosition(q, n)]
                  ELSE q.told
  BY <1>1, <1>2, <1>3, DialogNewTransactionEffect DEF q, n
<1> HIDE DEF r
<1>5. Started(s, r, m, n, type)
  BY <1>1, <1>4 DEF Started, Appended, SameMachines, SameMaking
<1>6. InList(q.uas, n)
  BY <1>1, <1>2, PutInListEffect DEF Stacks
<1>7. GetUaPosition(q, n) \in Nat /\ GetUa(r, GetUaPosition(q, n)) = n
  <2>1. GetUaPosition(q, n) \in Nat /\ GetUa(q, GetUaPosition(q, n)) = n
    BY <1>1, <1>6, PositionOfListed
  <2>2. r.uas = q.uas
    BY <1>4 DEF SameDialogsBut
  <2> QED BY <2>1, <2>2 DEF GetUa
<1>8. AgentMade(s, r, account, m, type)
  BY <1>1, <1>2, <1>4, <1>5 DEF AgentMade, SameDialogsBut, SameMachines, SameRest, n, k
<1>9. q.told = s.told
  BY <1>1 DEF SameRest
<1> QED BY <1>4, <1>7, <1>8, <1>9 DEF r, q, n

\* What a dialog becomes when it sends a 200 to its latest transaction.
AfterOk(s, d, v) ==
    LET t == TransactionOf(s, d) IN
    /\ v.transaction = t
    /\ CASE s.dialog[d].state = "NON_EXIST" ->
              /\ v.state = "CONFIRMED"
              /\ v.id = [s.dialog[d].id EXCEPT !.local = ToTagOfOk(s, t)]
         [] s.dialog[d].state = "CONFIRMED" ->
              v.state \in {"CONFIRMED", "TERMINATED"} /\ v.id = s.dialog[d].id
         [] OTHER -> v.state = s.dialog[d].state /\ v.id = s.dialog[d].id

\* A 200 is sent by a dialog whose latest transaction is listed and whose machine
\* has an entry for it; otherwise the process does not survive.
LEMMA DialogOkEffect ==
    ASSUME NEW s \in Stacks, NEW d \in DOMAIN s.dialog \cup {Null},
           InList(s.transactions, TransactionOf(s, d)) =>
              TransactionOf(s, d) \in DOMAIN s.transaction,
           DialogOk(s, d).fault = "none"
    PROVE  LET r == DialogOk(s, d)
               t == TransactionOf(s, d) IN
           /\ d # Null /\ InList(s.transactions, t) /\ t \in DOMAIN s.transaction
           /\ r \in Stacks /\ SameDialogsBut(s, r, d) /\ SameRest(s, r)
           /\ AfterOk(s, d, r.dialog[d])
           /\ r.answers = s.answers \cup {<<t, "SEND_OK">>}
           /\ \E e \in EntriesFor(s, t, "SEND_OK") :
                /\ Stepped(s, r, t, e.nextState)
                /\ r.transactions = IF e.nextState = "TERMINATED"
                                    THEN DelFromList(s.transactions, t)
                                    ELSE s.transactions
<1> DEFINE t  == TransactionOf(s, d)
           o  == s.dialog[d]
           va == [o EXCEPT !.id.local = ToTagOfOk(s, t), !.state = "CONFIRMED",
                           !.session = TRUE]
           ve == [o EXCEPT !.state = "TERMINATED"]
           v  == CASE o.state = "NON_EXIST" -> va
                   [] o.state = "CONFIRMED" /\ s.transaction[t].request.method = "BYE" -> ve
                   [] OTHER -> o
           q  == [s EXCEPT !.dialog = [s.dialog EXCEPT ![d] = v]]
           r  == ResponseWith(q, t, "SEND_OK")
<1>1. Running(s)
  BY DEF Running, Stacks
<1>2. d # Null /\ Dereferences(s, d)
  BY <1>1, DieFollows DEF DialogOk, Deaths
<1>3. /\ d \in DOMAIN s.dialog /\ t \in DOMAIN s.transaction
      /\ InList(s.transactions, t) /\ o \in DialogObjects
      /\ s.transaction[t] \in TransactionObjects /\ t \in Nat /\ o.transaction = t
  BY <1>2, DialogDomain, TransactionDomain DEF Dereferences, TransactionOf
<1>4. DialogOk(s, d) = ResponseWith(
        CASE o.state = "NON_EXIST" ->
               [s EXCEPT !.dialog[d].id.local = ToTagOfOk(s, t),
                         !.dialog[d].state = "CONFIRMED",
                         !.dialog[d].session = TRUE]
          [] o.state = "CONFIRMED" /\ s.transaction[t].request.method = "BYE" ->
               [s EXCEPT !.dialog[d].state = "TERMINATED"]
          [] OTHER -> s, t, "SEND_OK")
  BY <1>2 DEF DialogOk
<1>. "dialog" \in DOMAIN s /\ "id" \in DOMAIN s.dialog[d]
  BY <1>3, Fields
<1>5. ToTagOfOk(s, t) \in Tags
  BY <1>3 DEF ToTagOfOk, TransactionObjects, Requests, Tags
<1> HIDE DEF t
<1>6. [s EXCEPT !.dialog[d].id.local = ToTagOfOk(s, t),
                !.dialog[d].state = "CONFIRMED",
                !.dialog[d].session = TRUE]
        = [s EXCEPT !.dialog = [s.dialog EXCEPT ![d] = va]]
  BY <1>3
<1>7. [s EXCEPT !.dialog[d].state = "TERMINATED"]
        = [s EXCEPT !.dialog = [s.dialog EXCEPT ![d] = ve]]
  OBVIOUS
<1>8. s = [s EXCEPT !.dialog = [s.dialog EXCEPT ![d] = o]]
  <2>1. s.dialog = [s.dialog EXCEPT ![d] = o]
    BY DEF Stacks
  <2> HIDE DEF o
  <2> QED BY <2>1 DEF Stacks
<1>9. DialogOk(s, d) = r
  BY <1>4, <1>6, <1>7, <1>8
<1>10. /\ v \in DialogObjects /\ AfterOk(s, d, v)
  <2>1. va \in DialogObjects /\ va.state = "CONFIRMED" /\ va.transaction = o.transaction
        /\ va.id = [o.id EXCEPT !.local = ToTagOfOk(s, t)]
    BY <1>3, <1>5 DEF DialogObjects, DialogIds, DialogStates
  <2>2. ve \in DialogObjects /\ ve.state = "TERMINATED" /\ ve.id = o.id
        /\ ve.transaction = o.transaction
    BY <1>3 DEF DialogObjects, DialogStates
  <2> HIDE DEF va, ve
  <2>3. v \in DialogObjects /\ v.transaction = t
    BY <1>3, <2>1, <2>2
  <2>4. CASE o.state = "NON_EXIST"
    BY <2>1, <2>3, <2>4 DEF AfterOk, t
  <2>5. CASE o.state = "CONFIRMED"
    BY <2>2, <2>3, <2>5 DEF AfterOk, t
  <2>6. CASE o.state \notin {"NON_EXIST", "CONFIRMED"}
    BY <2>3, <2>6 DEF AfterOk, t
  <2> QED BY <2>3, <2>4, <2>5, <2>6
<1> HIDE DEF v, o
<1>11. /\ q \in Stacks /\ SameMachines(s, q) /\ SameRest(s, q)
       /\ SameDialogsBut(s, q, d) /\ q.dialog[d] = v
  BY <1>3, <1>10, SetDialog
<1> HIDE DEF q
<1>12. r.fault = "none" /\ t \in DOMAIN q.transaction
  BY <1>3, <1>9, <1>11 DEF SameMachines
<1>13. PICK e \in EntriesFor(q, t, "SEND_OK") :
             /\ r \in Stacks /\ SameAgents(q, r) /\ SameRest(q, r)
             /\ r.answers = q.answers \cup {<<t, "SEND_OK">>}
             /\ Stepped(q, r, t, e.nextState)
             /\ r.transactions = IF e.nextState = "TERMINATED"
                                 THEN DelFromList(q.transactions, t)
                                 ELSE q.transactions
  BY <1>11, <1>12, ResponseWithEffect
<1> HIDE DEF r
<1>14. /\ SameDialogsBut(s, r, d) /\ r.dialog[d] = v
  BY <1>11, <1>13 DEF SameDialogsBut, SameAgents
<1>15. SameRest(s, r) /\ r.answers = s.answers \cup {<<t, "SEND_OK">>}
  BY <1>11, <1>13 DEF SameRest, SameMachines
<1>16. e \in EntriesFor(s, t, "SEND_OK") /\ Stepped(s, r, t, e.nextState)
         /\ r.transactions = IF e.nextState = "TERMINATED"
                             THEN DelFromList(s.transactions, t)
                             ELSE s.transactions
  BY <1>11, <1>13 DEF SameMachines, EntriesFor, Stepped, SameMaking
<1> QED BY <1>2, <1>3, <1>9, <1>10, <1>13, <1>14, <1>15, <1>16 DEF t

\* A request of the peer got a transaction of dialog d, and a 200 at once.
AnsweredAtOnce(s, r, d, m) ==
    LET k == Len(s.transaction) + 1
        o == s.dialog[d]
        v == r.dialog[d] IN
    /\ r \in Stacks /\ SameDialogsBut(s, r, d)
    /\ v.transaction = k
    /\ o.state = "NON_EXIST" => v.state = "CONFIRMED"
          /\ v.id = [o.id EXCEPT !.local = IF m.to = Nil THEN k ELSE m.to]
    /\ o.state # "NON_EXIST" => v.state # "NON_EXIST" /\ v.id = o.id
    /\ Appended(s, r, m, d, "SERVER_NON_INVITE", "COMPLETED")
    /\ r.transactions = PutInList(s.transactions, k)
    /\ r.answers = s.answers \cup {<<k, "SEND_OK">>}

\* The CANCEL of a call gets a 200 in a transaction of the same dialog.
LEMMA DialogReceiveCancelEffect ==
    ASSUME NEW s \in Stacks, NEW d \in DOMAIN s.dialog, NEW m \in Requests,
           DialogReceiveCancel(s, d, m).fault = "none"
    PROVE  LET r == DialogReceiveCancel(s, d, m) IN
           AnsweredAtOnce(s, r, d, m) /\ SameRest(s, r)
<1> DEFINE k == Len(s.transaction) + 1
           q == DialogNewTransaction(s, d, m, "SERVER_NON_INVITE")
           r == DialogOk(q, d)
<1>1. DialogReceiveCancel(s, d, m) = r
  BY DEF DialogReceiveCancel
<1>2. Running(s)
  BY DEF Running, Stacks
<1>3. Follows(s, q)
  BY <1>2, DialogNewTransactionFollows
<1>4. q.fault = "none"
  BY <1>1, <1>3, DialogOkFollows DEF Follows
<1>5. "SERVER_NON_INVITE" \in TransactionTypes
  BY DEF TransactionTypes, ServerTypes
<1>6. /\ q \in Stacks /\ SameDialogsBut(s, q, d)
      /\ q.dialog[d].id = IdAfter("SERVER_NON_INVITE", m, s.dialog[d].id)
      /\ q.dialog[d].state = s.dialog[d].state
      /\ q.dialog[d].transaction = k
      /\ q.answers = s.answers
      /\ q.transactions = PutInList(s.transactions, k)
      /\ Started(s, q, m, d, "SERVER_NON_INVITE")
      /\ q.binded = s.binded /\ q.fault = s.fault /\ q.told = s.told
  BY <1>4, <1>5, DialogNewTransactionEffect
<1> HIDE DEF q
<1>7. /\ q.dialog[d].id = s.dialog[d].id
      /\ q.transaction[k].state = "TRYING" /\ q.transaction[k].type = "SERVER_NON_INVITE"
      /\ q.transaction[k].request = m /\ Len(q.transaction) = k
      /\ DOMAIN q.dialog = DOMAIN s.dialog
  BY <1>6, DialogDomain DEF IdAfter, Started, Appended, FirstState, SameDialogsBut
<1>8. k \in Nat /\ k \in DOMAIN q.transaction /\ TransactionOf(q, d) = k
        /\ \A u \in DOMAIN s.transaction : u # k /\ u \in DOMAIN q.transaction
  BY <1>6, <1>7, TransactionDomain DEF TransactionOf
<1>9. /\ r \in Stacks /\ SameDialogsBut(q, r, d) /\ SameRest(q, r)
      /\ AfterOk(q, d, r.dialog[d])
      /\ r.answers = q.answers \cup {<<k, "SEND_OK">>}
  BY <1>1, <1>6, <1>7, <1>8, DialogOkEffect
<1>10. PICK e \in EntriesFor(q, k, "SEND_OK") :
                /\ Stepped(q, r, k, e.nextState)
                /\ r.transactions = IF e.nextState = "TERMINATED"
                                    THEN DelFromList(q.transactions, k)
                                    ELSE q.transactions
  BY <1>1, <1>6, <1>7, <1>8, DialogOkEffect
<1> HIDE DEF r
<1>11. e.nextState = "COMPLETED"
  BY <1>7, <1>10, ServerEntries DEF EntriesFor, ServerTypes
<1>12. Appended(s, r, m, d, "SERVER_NON_INVITE", "COMPLETED")
  BY <1>6, <1>8, <1>10, <1>11 DEF Appended, Started, Stepped, SameMaking
<1>13. SameDialogsBut(s, r, d)
  BY <1>6, <1>7, <1>9 DEF SameDialogsBut
<1>14. SameRest(s, r)
  BY <1>6, <1>9 DEF SameRest
<1>15. /\ r.transactions = PutInList(s.transactions, k)
       /\ r.answers = s.answers \cup {<<k, "SEND_OK">>}
  BY <1>6, <1>9, <1>10, <1>11
<1>16. s.dialog[d].state \in DialogStates
  BY DialogDomain DEF DialogObjects
<1>17. LET o == s.dialog[d]
           v == r.dialog[d] IN
       /\ v.transaction = k
       /\ o.state = "NON_EXIST" => v.state = "CONFIRMED"
             /\ v.id = [o.id EXCEPT !.local = IF m.to = Nil THEN k ELSE m.to]
       /\ o.state # "NON_EXIST" => v.state # "NON_EXIST" /\ v.id = o.id
  BY <1>6, <1>7, <1>8, <1>9 DEF AfterOk, ToTagOfOk
<1> HIDE DEF k
<1>18. AnsweredAtOnce(s, r, d, m)
  BY <1>9, <1>12, <1>13, <1>15, <1>17 DEF AnsweredAtOnce, k
<1> QED BY <1>1, <1>14, <1>18

\* All dialogs are gone with the user agent that is removed.
LEMMA RemoveUaEffect ==
    ASSUME NEW s \in Stacks, NEW ua
    PROVE  LET r == RemoveUa(s, ua) IN
           /\ r \in Stacks /\ SameMachines(s, r) /\ SameRest(s, r)
           /\ r.uas = DelFromList(s.uas, ua) /\ r.account = s.account
           /\ r.dialogs = <<>> /\ Len(r.dialog) = Len(s.dialog)
           /\ \A d \in DOMAIN s.dialog : r.dialog[d] = FreedDialog
<1> DEFINE f == [d \in DOMAIN s.dialog |-> FreedDialog]
           w == DelFromList(s.uas, ua)
           none == <<>>
           r == [s EXCEPT !.uas = w, !.dialogs = none, !.dialog = f]
<1>1. s.dialog \in Seq(DialogObjects) /\ DOMAIN s.dialog = 1 .. Len(s.dialog)
        /\ Len(s.dialog) \in Nat
  BY DEF Stacks
<1>2. FreedDialog \in DialogObjects
  BY DEF DialogObjects, DialogIds, FreedDialog, EmptyDialogId, Tags, DialogStates, Null
<1>3. f \in Seq(DialogObjects) /\ Len(f) = Len(s.dialog)
        /\ \A d \in DOMAIN s.dialog : f[d] = FreedDialog
  BY <1>1, <1>2
<1>4. w \in Seq(Nat)
  BY DelFromListEffect DEF Stacks
<1>5. RemoveUa(s, ua) = r
  BY DEF RemoveUa, DestroyUserAgent, DestroyDialogList, Stacks
<1>5a. none \in Seq(Nat) /\ none = <<>>
  OBVIOUS
<1> HIDE DEF f, w, none
<1>6. r \in Stacks
  BY <1>3, <1>4, <1>5a DEF Stacks
<1>7. /\ SameMachines(s, r) /\ SameRest(s, r) /\ r.uas = w /\ r.account = s.account
      /\ r.dialogs = none /\ r.dialog = f
  BY DEF Stacks, SameMachines, SameRest
<1> QED BY <1>3, <1>5, <1>5a, <1>6, <1>7 DEF w

\* A request of the peer was answered, and every dialog is gone.
HungUp(s, r, d, m) ==
    LET k == Len(s.transaction) + 1 IN
    /\ r \in Stacks /\ r.uas = DelFromList(s.uas, d) /\ r.account = s.account
    /\ r.dialogs = <<>> /\ Len(r.dialog) = Len(s.dialog)
    /\ \A e \in DOMAIN s.dialog : r.dialog[e] = FreedDialog
    /\ Appended(s, r, m, d, "SERVER_NON_INVITE", "COMPLETED")
    /\ r.transactions = PutInList(s.transactions, k)
    /\ r.answers = s.answers \cup {<<k, "SEND_OK">>}
    /\ r.binded = s.binded

\* A BYE gets a 200, the client is told, and the user agent is destroyed with
\* the list of all dialogs (DestroyUserAgent, UserAgent.c:117).
LEMMA DialogReceiveByeEffect ==
    ASSUME NEW s \in Stacks, NEW d \in DOMAIN s.dialog, NEW m \in Requests,
           DialogReceiveBye(s, d, m).fault = "none"
    PROVE  LET r == DialogReceiveBye(s, d, m) IN
           /\ HungUp(s, r, d, m)
           /\ r.told = [event |-> "CALL_FINISHED", ua |-> d,
                        position |-> GetUaPosition(s, d)]
<1> DEFINE q  == DialogReceiveCancel(s, d, m)
           q2 == NotifyCm(q, "CALL_FINISHED", d)
           r  == RemoveUa(q2, d)
<1>1. DialogReceiveBye(s, d, m) = r
  BY DEF DialogReceiveBye, DialogReceiveCancel
<1>2. Running(s)
  BY DEF Running, Stacks
<1>3. Follows(s, q)
  BY <1>2, DialogReceiveCancelFollows
<1>4. Follows(q, q2)
  BY <1>3, NotifyCmFollows DEF Follows
<1>5. Follows(q2, r)
  BY <1>4, RemoveUaFollows DEF Follows
<1>6. q.fault = "none"
  BY <1>1, <1>4, <1>5 DEF Follows
<1>7. AnsweredAtOnce(s, q, d, m) /\ SameRest(s, q)
  BY <1>6, DialogReceiveCancelEffect
<1> HIDE DEF q
<1>8. q \in Stacks /\ d \in Nat /\ "CALL_FINISHED" \in Life!Events
  BY <1>7, DialogDomain DEF AnsweredAtOnce, Life!Events
<1>9. /\ q2 \in Stacks /\ SameAgents(q, q2) /\ SameMachines(q, q2)
      /\ q2.binded = q.binded /\ q2.fault = q.fault
      /\ q2.told = [event |-> "CALL_FINISHED", ua |-> d, position |-> GetUaPosition(q, d)]
  BY <1>8, NotifyCmEffect
<1> HIDE DEF q2
<1>10. /\ r \in Stacks /\ SameMachines(q2, r) /\ SameRest(q2, r)
       /\ r.uas = DelFromList(q2.uas, d) /\ r.account = q2.account
       /\ r.dialogs = <<>> /\ Len(r.dialog) = Len(q2.dialog)
       /\ \A e \in DOMAIN q2.dialog : r.dialog[e] = FreedDialog
  BY <1>9, RemoveUaEffect
<1> HIDE DEF r
<1>11. q.uas = s.uas
  BY <1>7 DEF AnsweredAtOnce, SameDialogsBut
<1>12. /\ q2.uas = s.uas /\ q2.account = s.account /\ Len(q2.dialog) = Len(s.dialog)
       /\ DOMAIN q2.dialog = DOMAIN s.dialog /\ GetUaPosition(q, d) = GetUaPosition(s, d)
  BY <1>7, <1>9, <1>11, DialogDomain DEF AnsweredAtOnce, SameDialogsBut, SameAgents, GetUaPosition
<1>13. r.transaction = q.transaction /\ r.transactions = q.transactions
         /\ r.answers = q.answers /\ r.binded = s.binded /\ r.told = q2.told
  BY <1>7, <1>9, <1>10 DEF SameMachines, SameRest
<1>14. Appended(s, r, m, d, "SERVER_NON_INVITE", "COMPLETED")
  BY <1>7, <1>13 DEF AnsweredAtOnce, Appended, SameMaking
<1>15. HungUp(s, r, d, m)
  BY <1>7, <1>10, <1>12, <1>13, <1>14 DEF AnsweredAtOnce, HungUp
<1> QED BY <1>1, <1>9, <1>12, <1>13, <1>15

\* A dialog of ours that the peer has accepted.
LEMMA DialogReceiveOkEffect ==
    ASSUME NEW s \in Stacks, NEW d \in DOMAIN s.dialog, NEW m \in Requests
    PROVE  LET r == DialogReceiveOk(s, d, m) IN
           /\ r \in Stacks /\ SameMachines(s, r) /\ SameDialogsBut(s, r, d)
           /\ r.dialog[d].id = [call |-> m.call, local |-> m.from, remote |-> m.to]
           /\ r.dialog[d].state = "CONFIRMED"
           /\ r.dialog[d].transaction = s.dialog[d].transaction
           /\ r.binded = s.binded /\ r.fault = s.fault
           /\ r.told = [event |-> "CALL_ESTABLISHED", ua |-> d,
                        position |-> GetUaPosition(s, d)]
<1> DEFINE id == [call |-> m.call, local |-> m.from, remote |-> m.to]
           v  == [s.dialog[d] EXCEPT !.id = id, !.state = "CONFIRMED", !.session = TRUE]
           q  == [s EXCEPT !.dialog = [s.dialog EXCEPT ![d] = v]]
           q2 == SendMessage(q, TransactionOf(q, d), "ACK")
           r  == NotifyCm(q2, "CALL_ESTABLISHED", d)
<1>1. d \in Nat /\ s.dialog[d] \in DialogObjects
  BY DialogDomain
<1>2. id \in DialogIds
  BY DEF Requests, DialogIds
<1>3. DialogReceiveOk(s, d, m)
        = NotifyCm(DialogAck([s EXCEPT !.dialog[d].id = id,
                                       !.dialog[d].state = "CONFIRMED",
                                       !.dialog[d].session = TRUE], d),
                   "CALL_ESTABLISHED", d)
  BY DEF DialogReceiveOk
<1> HIDE DEF id
<1>. "dialog" \in DOMAIN s
  BY Fields
<1>4. [s EXCEPT !.dialog[d].id = id, !.dialog[d].state = "CONFIRMED",
                !.dialog[d].session = TRUE] = q
  BY <1>1
<1>5. DialogReceiveOk(s, d, m) = r
  BY <1>3, <1>4 DEF DialogAck
<1>6. v \in DialogObjects /\ v.id = id /\ v.state = "CONFIRMED"
        /\ v.transaction = s.dialog[d].transaction
  BY <1>1, <1>2 DEF DialogObjects, DialogStates
<1> HIDE DEF v
<1>7. /\ q \in Stacks /\ SameMachines(s, q) /\ SameRest(s, q)
      /\ SameDialogsBut(s, q, d) /\ q.dialog[d] = v
  BY <1>6, SetDialog
<1> HIDE DEF q
<1>8. TransactionOf(q, d) \in Nat /\ "ACK" \in Sendings
  BY <1>6, <1>7 DEF TransactionOf, DialogObjects, Sendings
<1>9. q2 \in Stacks /\ SameAgents(q, q2) /\ SameMachines(q, q2) /\ SameRest(q, q2)
  BY <1>7, <1>8, SendMessageEffect
<1> HIDE DEF q2
<1>10. "CALL_ESTABLISHED" \in Life!Events
  BY DEF Life!Events
<1>11. /\ r \in Stacks /\ SameAgents(q2, r) /\ SameMachines(q2, r)
       /\ r.binded = q2.binded /\ r.fault = q2.fault
       /\ r.told = [event |-> "CALL_ESTABLISHED", ua |-> d,
                    position |-> GetUaPosition(q2, d)]
  BY <1>1, <1>9, <1>10, NotifyCmEffect
<1> HIDE DEF r
<1>12. SameMachines(s, r) /\ r.binded = s.binded /\ r.fault = s.fault
  BY <1>7, <1>9, <1>11 DEF SameMachines, SameRest
<1>13. SameDialogsBut(s, r, d) /\ r.dialog[d] = v
  BY <1>7, <1>9, <1>11 DEF SameDialogsBut, SameAgents
<1>14. GetUaPosition(q2, d) = GetUaPosition(s, d)
  BY <1>7, <1>9 DEF SameDialogsBut, SameAgents, GetUaPosition
<1> QED BY <1>5, <1>6, <1>11, <1>12, <1>13, <1>14 DEF id

\* Hanging up ourselves: a BYE, and the dialog is over.
LEMMA DialogTerminateEffect ==
    ASSUME NEW s \in Stacks, NEW d \in DOMAIN s.dialog,
           BuildRequest(s, "BYE") \in Requests, NEW known,
           DialogTerminate(s, d, known).fault = "none"
    PROVE  LET r == DialogTerminate(s, d, known)
               k == Len(s.transaction) + 1
               m == BuildRequest(s, "BYE") IN
           /\ r \in Stacks /\ SameDialogsBut(s, r, d) /\ SameRest(s, r)
           /\ r.dialog[d].id = s.dialog[d].id
           /\ r.dialog[d].state = "TERMINATED"
           /\ r.dialog[d].transaction = k
           /\ r.answers = s.answers
           /\ r.transactions = PutInList(s.transactions, k)
           /\ Started(s, r, m, d, "CLIENT_NON_INVITE")
<1> DEFINE k == Len(s.transaction) + 1
           m == BuildRequest(s, "BYE")
           q == DialogNewTransaction(s, d, m, "CLIENT_NON_INVITE")
           v == [q.dialog[d] EXCEPT !.state = "TERMINATED"]
           r == [q EXCEPT !.dialog = [q.dialog EXCEPT ![d] = v]]
<1>1. d # Null /\ Running(s)
  BY DialogDomain DEF Running, Stacks, Null
<1>2. DialogTerminate(s, d, known) = [q EXCEPT !.dialog[d].state = "TERMINATED"]
  <2>1. Die(s, "ASSERTED").fault # "none"
    BY <1>1, DieFollows DEF Deaths
  <2>2. DialogTerminate(s, d, known) \in
          {Die(s, "ASSERTED"), [q EXCEPT !.dialog[d].state = "TERMINATED"]}
    BY <1>1 DEF DialogTerminate
  <2> QED BY <2>1, <2>2
<1>3. [q EXCEPT !.dialog[d].state = "TERMINATED"] = r
  OBVIOUS
<1>4. Follows(s, q)
  BY <1>1, DialogNewTransactionFollows
<1>4a. q = DialogNewTransaction(s, d, m, "CLIENT_NON_INVITE")
  OBVIOUS
<1>4b. m \in Requests
  OBVIOUS
<1> HIDE DEF m, q, v, r
<1>5. q.fault = "none"
  <2>1. [q EXCEPT !.dialog[d].state = "TERMINATED"].fault = q.fault
    BY <1>4 DEF Follows, Running
  <2> QED BY <2>1, <1>2
<1>6. "CLIENT_NON_INVITE" \in TransactionTypes
  BY DEF TransactionTypes, ClientTypes
<1>7. /\ q \in Stacks /\ SameDialogsBut(s, q, d)
      /\ q.dialog[d].id = IdAfter("CLIENT_NON_INVITE", m, s.dialog[d].id)
      /\ q.dialog[d].state = s.dialog[d].state
      /\ q.dialog[d].transaction = k
      /\ q.answers = s.answers
      /\ q.transactions = PutInList(s.transactions, k)
      /\ Started(s, q, m, d, "CLIENT_NON_INVITE")
      /\ q.binded = s.binded /\ q.fault = s.fault /\ q.told = s.told
  BY <1>4a, <1>4b, <1>5, <1>6, DialogNewTransactionEffect, ZenonT(30) DEF k
<1>8. DOMAIN q.dialog = DOMAIN s.dialog /\ q.dialog[d] \in DialogObjects
  BY <1>7, DialogDomain DEF SameDialogsBut
<1>9. v \in DialogObjects /\ v.id = s.dialog[d].id /\ v.state = "TERMINATED"
        /\ v.transaction = k
  BY <1>7, <1>8 DEF DialogObjects, DialogStates, IdAfter, v
<1>10. /\ r \in Stacks /\ SameMachines(q, r) /\ SameRest(q, r)
       /\ SameDialogsBut(q, r, d) /\ r.dialog[d] = v
  BY <1>7, <1>8, <1>9, SetDialog DEF r
<1>11. SameDialogsBut(s, r, d) /\ SameRest(s, r)
  BY <1>7, <1>8, <1>10 DEF SameDialogsBut, SameRest
<1>12. Started(s, r, m, d, "CLIENT_NON_INVITE") /\ r.answers = s.answers
         /\ r.transactions = PutInList(s.transactions, k)
  BY <1>7, <1>10 DEF SameMachines, Started, Appended, SameMaking
<1> QED BY <1>2, <1>3, <1>9, <1>10, <1>11, <1>12 DEF q, k, m

\* The mark of an account, and nothing else.
LEMMA SetBinded ==
    ASSUME NEW s \in Stacks, NEW f \in [0 .. Accounts -> BOOLEAN]
    PROVE  LET r == [s EXCEPT !.binded = f] IN
           /\ r \in Stacks /\ SameAgents(s, r) /\ SameMachines(s, r)
           /\ r.told = s.told /\ r.fault = s.fault /\ r.binded = f
<1> DEFINE r == [s EXCEPT !.binded = f]
<1>1. r \in Stacks
  BY DEF Stacks
<1>2. /\ SameAgents(s, r) /\ SameMachines(s, r) /\ r.told = s.told
      /\ r.fault = s.fault /\ r.binded = f
  BY DEF Stacks, SameAgents, SameMachines
<1> QED BY <1>1, <1>2

\* The dialog found for a message is listed and has its tags.
LEMMA MatchMessage2DialogEffect ==
    ASSUME NEW s \in Stacks, NEW m
    PROVE  LET d  == MatchMessage2Dialog(s, m)
               id == [call |-> m.call, local |-> m.to, remote |-> m.from] IN
           /\ d # Null => InList(s.dialogs, d) /\ d \in DOMAIN s.dialog
                            /\ s.dialog[d].id = id
           /\ \A e \in DOMAIN s.dialog :
                InList(s.dialogs, e) /\ s.dialog[e].id = id => d # Null
<1> DEFINE id == [call |-> m.call, local |-> m.to, remote |-> m.from]
           S  == {e \in DOMAIN s.dialog : DialogIdMatched(s.dialog[e].id, id)}
<1>1. MatchMessage2Dialog(s, m) = FirstInList(s.dialogs, S)
  BY DEF MatchMessage2Dialog, GetDialogById
<1>2. Null \notin S /\ s.dialogs \in Seq(Nat)
  BY DialogDomain DEF Null, Stacks
<1>3. \A e : e \in S <=> e \in DOMAIN s.dialog /\ s.dialog[e].id = id
  BY DEF DialogIdMatched
<1> HIDE DEF S
<1>4. /\ FirstInList(s.dialogs, S) # Null =>
           InList(s.dialogs, FirstInList(s.dialogs, S)) /\ FirstInList(s.dialogs, S) \in S
      /\ \A n \in S : InList(s.dialogs, n) /\ Null \notin S => FirstInList(s.dialogs, S) # Null
  BY <1>2, FirstInListEffect
<1> QED BY <1>1, <1>2, <1>3, <1>4

\* The transaction found for a branch and a method is listed and has both.
LEMMA GetTransactionEffect ==
    ASSUME NEW s \in Stacks, NEW branch, NEW method
    PROVE  LET t == GetTransaction(s, branch, method) IN
           /\ t # Null => /\ InList(s.transactions, t) /\ t \in DOMAIN s.transaction
                          /\ s.transaction[t].request.branch = branch
                          /\ s.transaction[t].request.method = method
           /\ \A u \in DOMAIN s.transaction :
                /\ InList(s.transactions, u)
                /\ s.transaction[u].request.branch = branch
                /\ s.transaction[u].request.method = method
                => t # Null
<1> DEFINE S == {t \in DOMAIN s.transaction : TransactionMatched(s, t, branch, method)}
<1>1. GetTransaction(s, branch, method) = FirstInList(s.transactions, S)
  BY DEF GetTransaction
<1>2. s.transactions \in Seq(Nat)
  BY DEF Stacks
<1>3. \A e : e \in S <=> e \in DOMAIN s.transaction /\ TransactionMatched(s, e, branch, method)
  OBVIOUS
<1> HIDE DEF S
<1>4. /\ FirstInList(s.transactions, S) # Null =>
           InList(s.transactions, FirstInList(s.transactions, S))
             /\ FirstInList(s.transactions, S) \in S
      /\ \A n \in S : InList(s.transactions, n) /\ Null \notin S
                       => FirstInList(s.transactions, S) # Null
  BY <1>2, FirstInListEffect
<1>5. Null \notin S
  BY <1>3, TransactionDomain DEF Null
<1> QED BY <1>1, <1>3, <1>4, <1>5 DEF TransactionMatched
=============================================================================
