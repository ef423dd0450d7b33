-------------------------- MODULE Softphone_proofs --------------------------
(***************************************************************************)
(* The safety properties of Softphone for any number of calls: its types,  *)
(* that its stack process and its GUI implement SipStack, and that a late  *)
(* RINGING rings the call it was sent for. The argument is one about the   *)
(* list of user agents, to which positions refer. Every handler either     *)
(* removes a user agent, which the counter Gone shows for good, or leaves  *)
(* every position and every dialog where it was (Grows). A datagram that   *)
(* was true when it was told is then true as long as Gone has not changed  *)
(* (Finds), whatever else came and went in between.                        *)
(***************************************************************************)
EXTENDS Softphone, SipStack_proofs

-----------------------------------------------------------------------------
(* What a handler does to the user agents, their dialogs and what is told *)

\* Nothing.
Aside(s, r) ==
    /\ {"uas", "account", "dialogs", "told"} \subseteq DOMAIN r
    /\ r.uas = s.uas /\ r.account = s.account /\ r.dialogs = s.dialogs /\ r.told = s.told

\* Two handlers that do nothing to them do nothing together.
LEMMA AsideTransitively ==
    ASSUME NEW s, NEW q, NEW r, Aside(s, q), Aside(q, r)
    PROVE  Aside(s, r)
BY DEF Aside

\* Dying, sending, answering, and listing or freeing a transaction.
LEMMA StepsAside ==
    ASSUME NEW s, Aside(s, s), NEW t
    PROVE  /\ \A how : Aside(s, Die(s, how))
           /\ \A what : Aside(s, SendMessage(s, t, what))
           /\ \A event : Aside(s, SendResponse(s, t, event))
           /\ \A m, user, type : Aside(s, PutTransaction(s, m, user, type))
           /\ Aside(s, RemoveTerminatedTransaction(s, t))
<1>1. \A how : Aside(s, Die(s, how))
  BY DEF Aside, Die
<1>2. \A what : Aside(s, SendMessage(s, t, what))
  BY DEF Aside, SendMessage
<1>3. \A event : Aside(s, SendResponse(s, t, event))
  BY DEF Aside, SendMessage, SendResponse
<1>4. \A m, user, type : Aside(s, PutTransaction(s, m, user, type))
  BY DEF Aside, PutTransaction
<1>5. Aside(s, RemoveTerminatedTransaction(s, t))
  BY DEF Aside, RemoveTerminatedTransaction
<1> QED BY <1>1, <1>2, <1>3, <1>4, <1>5

\* A machine that takes a step.
LEMMA AdvancesAside ==
    ASSUME NEW s, Aside(s, s), NEW t, NEW event
    PROVE  Aside(s, Advance(s, t, event))
<1>1. CASE EntriesFor(s, t, event) = {}
  BY <1>1, StepsAside DEF Advance
<1>2. CASE EntriesFor(s, t, event) # {}
  <2> DEFINE entry == CHOOSE e \in EntriesFor(s, t, event) : TRUE
             q == [s EXCEPT !.transaction[t].state = entry.nextState]
             ran == InvokeActions(entry.actions, TRUE)
  <2>1. Aside(s, q) /\ Aside(q, q)
    BY DEF Aside
  <2>2. Advance(s, t, event) = RunActions(q, t, ran)
    BY <1>2 DEF Advance
  <2> HIDE DEF q, ran
  <2>3. Aside(q, RunActions(q, t, ran))
    BY <2>1, StepsAside DEF RunActions
  <2> QED BY <2>1, <2>2, <2>3, AsideTransitively
<1> QED BY <1>1, <1>2

\* A step of which the user is not told, and a response.
LEMMA MachinesAside ==
    ASSUME NEW s, Aside(s, s), NEW t, NEW event
    PROVE  /\ Aside(s, RunQuietly(s, t, event))
           /\ Aside(s, ResponseWith(s, t, event))
<1>1. ASSUME NEW q, Aside(q, q) PROVE Aside(q, RunQuietly(q, t, event))
  <2> DEFINE r == Advance(q, t, event)
  <2>1. Aside(q, r)
    BY <1>1, AdvancesAside
  <2>2. RunQuietly(q, t, event) = RemoveTerminatedTransaction(r, t)
    BY DEF RunQuietly
  <2> HIDE DEF r
  <2>3. Aside(r, r)
    BY <2>1 DEF Aside
  <2>4. Aside(r, RemoveTerminatedTransaction(r, t))
    BY <2>3, StepsAside
  <2> QED BY <2>1, <2>2, <2>4, AsideTransitively
<1>2. Aside(s, ResponseWith(s, t, event))
  <2> DEFINE q == SendResponse(s, t, event)
  <2>1. Aside(s, q)
    BY StepsAside
  <2>2. ResponseWith(s, t, event) = RunQuietly(q, t, event)
    BY DEF ResponseWith
  <2> HIDE DEF q
  <2>3. Aside(q, q)
    BY <2>1 DEF Aside
  <2> QED BY <1>1, <2>1, <2>2, <2>3, AsideTransitively
<1> QED BY <1>1, <1>2

\* A new transaction.
LEMMA AddTransactionAside ==
    ASSUME NEW s, Aside(s, s), NEW m, NEW user, NEW type
    PROVE  Aside(s, AddTransaction(s, m, user, type))
<1> DEFINE q == PutTransaction(s, m, user, type)
<1>1. Aside(s, q)
  BY StepsAside
<1>2. AddTransaction(s, m, user, type) = RunQuietly(q, Len(s.transaction) + 1, "INIT")
  BY DEF AddTransaction
<1> HIDE DEF q
<1>3. Aside(q, q)
  BY <1>1 DEF Aside
<1> QED BY <1>1, <1>2, <1>3, MachinesAside, AsideTransitively

\* A dialog that answers 200 (DialogOk, Dialog.c:303).
LEMMA DialogOkAside ==
    ASSUME NEW s, Aside(s, s), NEW d
    PROVE  Aside(s, DialogOk(s, d))
<1>1. CASE d = Null \/ ~Dereferences(s, d)
  BY <1>1, StepsAside DEF DialogOk
<1>2. CASE d # Null /\ Dereferences(s, d)
  <2> DEFINE t == TransactionOf(s, d)
             accepted == [s EXCEPT !.dialog[d].id.local = ToTagOfOk(s, t),
                                   !.dialog[d].state = "CONFIRMED",
                                   !.dialog[d].session = TRUE]
             ended == [s EXCEPT !.dialog[d].state = "TERMINATED"]
  <2>1. Aside(s, accepted) /\ Aside(s, ended)
    BY DEF Aside
  <2>2. \E q : Aside(s, q) /\ DialogOk(s, d) = ResponseWith(q, t, "SEND_OK")
    BY <1>2, <2>1 DEF DialogOk
  <2>3. PICK q : Aside(s, q) /\ DialogOk(s, d) = ResponseWith(q, t, "SEND_OK")
    BY <2>2
  <2>4. Aside(q, q)
    BY <2>3 DEF Aside
  <2> QED BY <2>3, <2>4, MachinesAside, AsideTransitively
<1> QED BY <1>1, <1>2

-----------------------------------------------------------------------------
(* How the list of user agents grows *)

\* A listed dialog has a listed user agent; what is told is within the list.
Counted(s) ==
    /\ {"uas", "account", "dialogs", "told"} \subseteq DOMAIN s
    /\ s.uas \in Seq(Nat) /\ s.account \in Seq(Nat) /\ s.dialogs \in Seq(Nat)
    /\ Len(s.uas) <= Len(s.account)
    /\ \A d : InList(s.dialogs, d) => InList(s.uas, d)
    /\ s.told # NoEvent =>
         s.told.event \in Life!Events /\ s.told.position \in Int
           /\ s.told.position < Len(s.account)

Gone(s) == Len(s.account) - Len(s.uas)

\* As long as no user agent is removed, positions and dialogs stay.
Grows(s, r) ==
    /\ Counted(r)
    /\ Len(s.account) <= Len(r.account) /\ Gone(s) <= Gone(r)
    /\ Gone(s) = Gone(r) =>
         /\ \A i \in DOMAIN s.uas : i \in DOMAIN r.uas /\ r.uas[i] = s.uas[i]
         /\ \A d : InList(s.dialogs, d) => InList(r.dialogs, d)

\* Growing twice is growing.
LEMMA GrowsTransitively ==
    ASSUME NEW s, NEW q, NEW r, Counted(s), Grows(s, q), Grows(q, r)
    PROVE  Grows(s, r)
<1>1. /\ Len(s.account) \in Nat /\ Len(q.account) \in Nat /\ Len(r.account) \in Nat
      /\ Len(s.uas) \in Nat /\ Len(q.uas) \in Nat /\ Len(r.uas) \in Nat
  BY DEF Counted, Grows
<1>2. Gone(s) \in Int /\ Gone(q) \in Int /\ Gone(r) \in Int
  BY <1>1 DEF Gone
<1>3. Len(s.account) <= Len(r.account) /\ Gone(s) <= Gone(r)
  BY <1>1, <1>2 DEF Grows
<1>4. ASSUME Gone(s) = Gone(r)
      PROVE  /\ \A i \in DOMAIN s.uas : i \in DOMAIN r.uas /\ r.uas[i] = s.uas[i]
             /\ \A d : InList(s.dialogs, d) => InList(r.dialogs, d)
  <2>1. Gone(s) = Gone(q) /\ Gone(q) = Gone(r)
    BY <1>2, <1>4 DEF Grows
  <2> QED BY <2>1 DEF Grows
<1> QED BY <1>3, <1>4 DEF Grows

\* A handler that leaves the user agents alone lets them grow.
LEMMA AsideGrows ==
    ASSUME NEW s, NEW r, Counted(s), Aside(s, r)
    PROVE  Grows(s, r)
<1>1. Counted(r)
  BY DEF Counted, Aside
<1>2. Len(s.account) \in Nat /\ Len(s.uas) \in Nat
  BY DEF Counted
<1> QED BY <1>1, <1>2 DEF Grows, Aside, Gone

\* A stack without a change.
LEMMA CountedAside ==
    ASSUME NEW s, Counted(s)
    PROVE  Aside(s, s)
BY DEF Counted, Aside

\* What is told has a position within the list, or -1 (CallManager.c:113).
LEMMA NotifyCmGrows ==
    ASSUME NEW s, Counted(s), NEW event \in Life!Events, NEW ua
    PROVE  Grows(s, NotifyCm(s, event, ua))
<1> DEFINE p == GetUaPosition(s, ua)
           r == NotifyCm(s, event, ua)
<1>1. Len(s.uas) \in Nat /\ DOMAIN s.uas = 1 .. Len(s.uas) /\ Len(s.account) \in Nat
        /\ Len(s.uas) <= Len(s.account)
  BY DEF Counted
<1>2. p \in Int /\ p < Len(s.account)
  <2>1. CASE InList(s.uas, ua)
    <3>1. \E i \in DOMAIN s.uas : s.uas[i] = ua
      BY <2>1 DEF InList
    <3>2. (CHOOSE i \in DOMAIN s.uas : s.uas[i] = ua) \in DOMAIN s.uas
      BY <3>1
    <3>3. p = (CHOOSE i \in DOMAIN s.uas : s.uas[i] = ua) - 1
      BY <2>1 DEF GetUaPosition
    <3> HIDE DEF p
    <3> QED BY <1>1, <3>2, <3>3
  <2>2. CASE ~InList(s.uas, ua)
    BY <1>1, <2>2 DEF GetUaPosition
  <2> QED BY <2>1, <2>2
<1> HIDE DEF p
<1>3. /\ r.uas = s.uas /\ r.account = s.account /\ r.dialogs = s.dialogs
      /\ r.told = [event |-> event, ua |-> ua, position |-> p]
      /\ {"uas", "account", "dialogs", "told"} \subseteq DOMAIN r
  BY DEF NotifyCm, p, Counted
<1> HIDE DEF r
<1>4. Counted(r)
  BY <1>2, <1>3 DEF Counted
<1> QED BY <1>1, <1>3, <1>4 DEF Grows, Gone, r

\* A listed user agent is removed, and every dialog with it.
LEMMA RemoveUaGrows ==
    ASSUME NEW s, Counted(s), NEW ua, InList(s.uas, ua)
    PROVE  Grows(s, RemoveUa(s, ua))
<1> DEFINE r == RemoveUa(s, ua)
<1>1. /\ Len(s.uas) \in Nat /\ Len(s.account) \in Nat /\ Len(s.uas) > 0
      /\ DOMAIN s.uas = 1 .. Len(s.uas)
  BY DEF Counted, InList
<1>2. DelFromList(s.uas, ua) \in Seq(Nat)
  BY DelFromListEffect DEF Counted
<1>3. Len(DelFromList(s.uas, ua)) = Len(s.uas) - 1
  <2> DEFINE at == CHOOSE i \in DOMAIN s.uas : s.uas[i] = ua
             l == DelFromList(s.uas, ua)
  <2>1. l = [i \in 1 .. Len(s.uas) - 1 |-> s.uas[IF i < at THEN i ELSE i + 1]]
    BY DEF DelFromList
  <2>2. DOMAIN l = 1 .. Len(s.uas) - 1
    BY <2>1
  <2> HIDE DEF l, at
  <2>3. DOMAIN l = 1 .. Len(l) /\ Len(l) \in Nat
    BY <1>2 DEF l
  <2> QED BY <1>1, <2>2, <2>3 DEF l
<1>4. /\ r.uas = DelFromList(s.uas, ua) /\ r.account = s.account /\ r.dialogs = <<>>
      /\ r.told = s.told
      /\ {"uas", "account", "dialogs", "told"} \subseteq DOMAIN r
  BY DEF RemoveUa, DestroyUserAgent, DestroyDialogList, Counted
<1> HIDE DEF r
<1>5. \A d : ~InList(r.dialogs, d)
  BY <1>4 DEF InList
<1>6. Counted(r)
  BY <1>1, <1>2, <1>3, <1>4, <1>5 DEF Counted
<1>7. Gone(r) = Gone(s) + 1 /\ Gone(s) \in Int
  <2>1. Len(r.uas) = Len(s.uas) - 1 /\ Len(r.account) = Len(s.account)
    BY <1>3, <1>4
  <2> QED BY <1>1, <2>1 DEF Gone
<1>8. Len(s.account) <= Len(r.account)
  BY <1>1, <1>4
<1>9. Gone(s) <= Gone(r) /\ Gone(s) # Gone(r)
  BY <1>7
<1> QED BY <1>6, <1>8, <1>9 DEF Grows, r

\* A dialog that gets another transaction (Dialog.c:217).
LEMMA DialogNewTransactionGrows ==
    ASSUME NEW s, Counted(s), NEW d, NEW m, NEW type
    PROVE  Grows(s, DialogNewTransaction(s, d, m, type))
<1> DEFINE s1 == AddTransaction(s, m, d, type)
           s2 == [s1 EXCEPT !.dialog[d].transaction = Len(s1.transaction)]
           out == [s2 EXCEPT !.dialog[d].id.local = m.from,
                             !.dialog[d].id.call = m.call]
           in  == [s2 EXCEPT !.dialog[d].id.remote = m.from,
                             !.dialog[d].id.call = m.call]
           r == DialogNewTransaction(s, d, m, type)
<1>1. Aside(s, s1)
  BY CountedAside, AddTransactionAside
<1> HIDE DEF s1
<1>2. Aside(s, s2)
  BY <1>1 DEF Aside
<1> HIDE DEF s2
<1>3. Aside(s, out) /\ Aside(s, in)
  BY <1>2 DEF Aside
<1> HIDE DEF out, in
<1>4. Grows(s, out) /\ Grows(s, in) /\ Grows(s, s2)
  BY <1>2, <1>3, AsideGrows
<1>5. Counted(in)
  BY <1>4 DEF Grows
<1>6. Grows(in, NotifyCm(in, "CALL_INCOMING", d))
  BY <1>5, NotifyCmGrows DEF Life!Events
<1>7. r = out \/ r = NotifyCm(in, "CALL_INCOMING", d) \/ r = s2
  BY DEF DialogNewTransaction, s1, s2, in, out
<1> QED BY <1>4, <1>6, <1>7, GrowsTransitively

\* The 200 to our INVITE (Dialog.c:170).
LEMMA DialogReceiveOkGrows ==
    ASSUME NEW s, Counted(s), NEW d, NEW m
    PROVE  Grows(s, DialogReceiveOk(s, d, m))
<1> DEFINE s1 == [s EXCEPT !.dialog[d].id = [call |-> m.call, local |-> m.from,
                                             remote |-> m.to],
                           !.dialog[d].state = "CONFIRMED",
                           !.dialog[d].session = TRUE]
           q == DialogAck(s1, d)
<1>1. Aside(s, s1)
  BY CountedAside DEF Aside
<1>2. DialogReceiveOk(s, d, m) = NotifyCm(q, "CALL_ESTABLISHED", d)
  BY DEF DialogReceiveOk
<1>3. Aside(s1, q)
  <2> HIDE DEF s1
  <2>1. Aside(s1, s1)
    BY <1>1 DEF Aside
  <2> QED BY <2>1, StepsAside DEF DialogAck
<1> HIDE DEF s1, q
<1>4. Grows(s, q)
  BY <1>1, <1>3, AsideTransitively, AsideGrows
<1>5. Counted(q)
  BY <1>4 DEF Grows
<1>6. Grows(q, NotifyCm(q, "CALL_ESTABLISHED", d))
  BY <1>5, NotifyCmGrows DEF Life!Events
<1> QED BY <1>2, <1>4, <1>6, GrowsTransitively

\* A CANCEL within a dialog.
LEMMA DialogReceiveCancelGrows ==
    ASSUME NEW s, Counted(s), NEW d, NEW m
    PROVE  Grows(s, DialogReceiveCancel(s, d, m))
<1> DEFINE q == DialogNewTransaction(s, d, m, "SERVER_NON_INVITE")
<1>1. Grows(s, q)
  BY DialogNewTransactionGrows
<1>2. DialogReceiveCancel(s, d, m) = DialogOk(q, d)
  BY DEF DialogReceiveCancel
<1> HIDE DEF q
<1>3. Counted(q)
  BY <1>1 DEF Grows
<1>4. Grows(q, DialogOk(q, d))
  BY <1>3, CountedAside, DialogOkAside, AsideGrows
<1> QED BY <1>1, <1>2, <1>4, GrowsTransitively

\* A BYE within a listed dialog removes its user agent.
LEMMA DialogReceiveByeGrows ==
    ASSUME NEW s, Counted(s), NEW d, InList(s.dialogs, d), NEW m
    PROVE  Grows(s, DialogReceiveBye(s, d, m))
<1> DEFINE q == DialogNewTransaction(s, d, m, "SERVER_NON_INVITE")
           told == NotifyCm(DialogOk(q, d), "CALL_FINISHED", d)
<1>1. Aside(s, q)
  <2> DEFINE s1 == AddTransaction(s, m, d, "SERVER_NON_INVITE")
  <2>1. Aside(s, s1)
    BY CountedAside, AddTransactionAside
  <2>2. q = [s1 EXCEPT !.dialog[d].transaction = Len(s1.transaction)]
    BY DEF DialogNewTransaction
  <2> HIDE DEF s1, q
  <2> QED BY <2>1, <2>2 DEF Aside
<1>2. DialogReceiveBye(s, d, m) = RemoveUa(told, d)
  BY DEF DialogReceiveBye
<1> HIDE DEF q
<1> DEFINE ok == DialogOk(q, d)
<1>3. Aside(s, ok)
  <2>1. Aside(q, q)
    BY <1>1 DEF Aside
  <2> QED BY <1>1, <2>1, DialogOkAside, AsideTransitively
<1> HIDE DEF ok
<1>4. Grows(s, ok) /\ ok.uas = s.uas
  BY <1>3, AsideGrows DEF Aside
<1>5. Counted(ok) /\ told = NotifyCm(ok, "CALL_FINISHED", d)
  BY <1>4 DEF Grows, ok
<1>6. Grows(ok, told) /\ told.uas = ok.uas
  <2>1. Grows(ok, told)
    BY <1>5, NotifyCmGrows DEF Life!Events
  <2>2. told.uas = ok.uas
    BY <1>5 DEF NotifyCm, Counted
  <2> QED BY <2>1, <2>2
<1>7. Counted(told) /\ InList(told.uas, d)
  BY <1>4, <1>6 DEF Grows, Counted
<1> HIDE DEF told
<1>8. Grows(told, RemoveUa(told, d))
  BY <1>7, RemoveUaGrows
<1> QED BY <1>2, <1>4, <1>6, <1>8, GrowsTransitively

\* What matches is listed.
LEMMA MatchIsListed ==
    ASSUME NEW s, NEW m, MatchMessage2Dialog(s, m) # Null, Counted(s)
    PROVE  InList(s.dialogs, MatchMessage2Dialog(s, m))
BY FirstInListEffect DEF MatchMessage2Dialog, GetDialogById, Counted

\* Whatever a user is told, but of a new call.
LEMMA OnTransactionEventGrows ==
    ASSUME NEW s, Counted(s), NEW d, NEW event, NEW m,
           event # "NEW" \/ (d = Null /\ m.method # "INVITE")
    PROVE  Grows(s, OnTransactionEvent(s, d, event, m))
<1>1. Aside(s, s) /\ Grows(s, s) /\ Grows(s, Die(s, "DANGLED"))
  BY CountedAside, StepsAside, AsideGrows
<1>2. Grows(s, HandleByeEvent(s, m)) /\ Grows(s, HandleCancelEvent(s, m))
  <2>1. MatchMessage2Dialog(s, m) # Null => InList(s.dialogs, MatchMessage2Dialog(s, m))
    BY MatchIsListed
  <2> QED BY <1>1, <2>1, DialogReceiveByeGrows, DialogReceiveCancelGrows
          DEF HandleByeEvent, HandleCancelEvent
<1>3. Grows(s, HandleRegisterEvent(s, d, event, m))
  <2>1. Aside(s, UaSetBinded(s, d)) /\ Aside(s, UaSetUnbinded(s, d))
    BY <1>1 DEF Aside, UaSetBinded, UaSetUnbinded
  <2>2. Grows(s, Die(s, "ASSERTED"))
    BY <1>1, StepsAside, AsideGrows
  <2> QED BY <1>1, <2>1, <2>2, AsideGrows, DialogNewTransactionGrows DEF HandleRegisterEvent
<1>4. event # "NEW" => Grows(s, HandleInviteEvent(s, d, event, m))
  <2>1. Grows(s, DialogReceiveRinging(s, d)) /\ Grows(s, NotifyCm(s, "CALL_PEER_CANCELED", d))
    BY NotifyCmGrows DEF DialogReceiveRinging, Life!Events
  <2> QED BY <1>1, <2>1, DialogReceiveOkGrows DEF HandleInviteEvent
<1> QED BY <1>1, <1>2, <1>3, <1>4 DEF OnTransactionEvent

\* An event whose user is told of it.
LEMMA RunFsmGrows ==
    ASSUME NEW s, Counted(s), NEW t, NEW event, event # "NEW", NEW m
    PROVE  Grows(s, RunFsm(s, t, event, m))
<1> DEFINE s1 == Advance(s, t, event)
           told == OnTransactionEvent(s1, s.transaction[t].user, event, m)
<1>1. Aside(s, s1)
  BY CountedAside, AdvancesAside
<1>2. RunFsm(s, t, event, m) \in {RemoveTerminatedTransaction(s1, t),
                                  RemoveTerminatedTransaction(told, t)}
  BY DEF RunFsm
<1> HIDE DEF s1
<1>3. Grows(s, s1) /\ Counted(s1)
  BY <1>1, AsideGrows DEF Grows
<1>4. Grows(s1, told)
  BY <1>3, OnTransactionEventGrows
<1> HIDE DEF told
<1>5. ASSUME NEW q, Counted(q) PROVE Grows(q, RemoveTerminatedTransaction(q, t))
  BY <1>5, CountedAside, StepsAside, AsideGrows
<1>6. Grows(s, told) /\ Counted(told)
  BY <1>3, <1>4, GrowsTransitively DEF Grows
<1> QED BY <1>2, <1>3, <1>5, <1>6, GrowsTransitively

\* The CANCEL of an INVITE (TransactionManager.c:159).
LEMMA TmCancelGrows ==
    ASSUME NEW s, Counted(s), NEW t, NEW m, m.method # "INVITE"
    PROVE  Grows(s, TmCancel(s, t, m))
<1> DEFINE told == OnTransactionEvent(s, s.transaction[t].user, "CANCEL", m)
           over == ResponseWith(told, t, "SEND_REQUEST_TERMINATED")
           r    == OnTransactionEvent(over, Null, "NEW", m)
<1>1. Grows(s, told)
  BY OnTransactionEventGrows
<1>2. TmCancel(s, t, m) = r
  BY DEF TmCancel, TmNewTransaction
<1> HIDE DEF told
<1>3. Grows(told, over)
  <2>1. Counted(told)
    BY <1>1 DEF Grows
  <2> QED BY <2>1, CountedAside, MachinesAside, AsideGrows
<1> HIDE DEF over
<1>4. Grows(over, r)
  <2>1. Counted(over)
    BY <1>3 DEF Grows
  <2> QED BY <2>1, OnTransactionEventGrows
<1> QED BY <1>1, <1>2, <1>3, <1>4, GrowsTransitively

\* A user agent and its dialog have the same number.
LEMMA NewCallGrows ==
    ASSUME NEW s \in Stacks, Len(s.account) = Len(s.dialog), Counted(s),
           NEW account \in Nat, NEW d, NEW m, NEW type
    PROVE  Grows(s, DialogNewTransaction(AddDialog(AddUa(s, account)), d, m, type))
<1> DEFINE q == AddDialog(AddUa(s, account))
           n == Fresh(s)
<1>1. /\ q \in Stacks /\ q.told = s.told
      /\ q.uas = PutInList(s.uas, n) /\ q.account = Append(s.account, account)
      /\ q.dialogs = PutInList(s.dialogs, n)
  BY AddUserAgentEffect DEF SameRest
<1>2. n \in Nat
  BY DialogDomain DEF Fresh
<1> HIDE DEF q, n
<1>3. /\ s.uas \in Seq(Nat) /\ s.account \in Seq(Nat) /\ s.dialogs \in Seq(Nat)
      /\ q.uas \in Seq(Nat) /\ q.account \in Seq(Nat) /\ q.dialogs \in Seq(Nat)
      /\ {"uas", "account", "dialogs", "told"} \subseteq DOMAIN q
  BY <1>1 DEF Stacks
<1>4. /\ Len(q.uas) = Len(s.uas) + 1 /\ Len(q.account) = Len(s.account) + 1
      /\ \A i \in DOMAIN s.uas : i \in DOMAIN q.uas /\ q.uas[i] = s.uas[i]
      /\ Len(s.uas) \in Nat /\ Len(s.account) \in Nat
  <2>1. q.uas = Append(s.uas, n)
    BY <1>1 DEF PutInList
  <2>2. ASSUME NEW l \in Seq(Nat), NEW e \in Nat
        PROVE  /\ Len(Append(l, e)) = Len(l) + 1 /\ Len(l) \in Nat
               /\ \A i \in DOMAIN l : i \in DOMAIN Append(l, e) /\ Append(l, e)[i] = l[i]
    OBVIOUS
  <2>3. /\ Len(q.uas) = Len(s.uas) + 1 /\ Len(s.uas) \in Nat
        /\ \A i \in DOMAIN s.uas : i \in DOMAIN q.uas /\ q.uas[i] = s.uas[i]
    BY <1>2, <1>3, <2>1, <2>2
  <2>4. Len(q.account) = Len(s.account) + 1 /\ Len(s.account) \in Nat
    BY <1>1, <1>3, <2>2, SMTT(30)
  <2> QED BY <2>3, <2>4
<1>5. /\ \A d1 : InList(q.uas, d1) <=> InList(s.uas, d1) \/ d1 = n
      /\ \A d1 : InList(q.dialogs, d1) <=> InList(s.dialogs, d1) \/ d1 = n
  <2>1. \A d1 : InList(PutInList(s.uas, n), d1) <=> InList(s.uas, d1) \/ d1 = n
    BY <1>2, <1>3, PutInListEffect
  <2>2. \A d1 : InList(PutInList(s.dialogs, n), d1) <=> InList(s.dialogs, d1) \/ d1 = n
    BY <1>2, <1>3, PutInListEffect
  <2> QED BY <1>1, <2>1, <2>2
<1>6. Counted(q)
  <2>1. Len(q.uas) <= Len(q.account)
    BY <1>4 DEF Counted
  <2>2. \A e : InList(q.dialogs, e) => InList(q.uas, e)
    BY <1>5 DEF Counted
  <2>3. q.told # NoEvent =>
          q.told.event \in Life!Events /\ q.told.position \in Int
            /\ q.told.position < Len(q.account)
    BY <1>1, <1>4 DEF Counted
  <2> QED BY <1>3, <2>1, <2>2, <2>3 DEF Counted
<1>7. Grows(s, q)
  <2>1. Len(s.account) <= Len(q.account) /\ Gone(s) <= Gone(q)
    BY <1>4 DEF Gone
  <2> QED BY <1>4, <1>5, <1>6, <2>1 DEF Grows
<1>8. Grows(q, DialogNewTransaction(q, d, m, type))
  BY <1>6, DialogNewTransactionGrows
<1> QED BY <1>7, <1>8, GrowsTransitively DEF q

\* An injective list is no longer than what it lists.
LEMMA ListsAreShort ==
    ASSUME NEW list \in Seq(Nat), NEW n \in Nat, NEW table, DOMAIN table = 1 .. n,
           Lists(list, table)
    PROVE  Len(list) <= n
<1>1. Len(list) \in Nat /\ DOMAIN list = 1 .. Len(list)
  OBVIOUS
<1>2. list \in [1 .. Len(list) -> 1 .. n]
  BY <1>1 DEF Lists
<1>3. \A i, j \in 1 .. Len(list) : list[i] = list[j] => i = j
  BY <1>1 DEF Lists
<1>4. \A k \in Nat : IsFiniteSet(1 .. k) /\ Cardinality(1 .. k) = k
  <2> TAKE k \in Nat
  <2>1. IsFiniteSet(1 .. k) /\ Cardinality(1 .. k) = IF 1 > k THEN 0 ELSE k - 1 + 1
    BY FS_Interval
  <2> QED BY <2>1
<1>5. ASSUME n < Len(list) PROVE FALSE
  <2>1. Cardinality(1 .. n) < Cardinality(1 .. Len(list))
    BY <1>1, <1>4, <1>5
  <2>2. IsFiniteSet(1 .. n) /\ IsFiniteSet(1 .. Len(list))
    BY <1>1, <1>4
  <2>3. \E i, j \in 1 .. Len(list) : i # j /\ list[i] = list[j]
    BY <1>2, <2>1, <2>2, FS_PigeonHole
  <2> QED BY <1>3, <2>3
<1> QED BY <1>1, <1>5

\* The invariant of the stack has what is counted here.
LEMMA GoodIsCounted ==
    ASSUME NEW s, Good(s), s.told = NoEvent
    PROVE  Counted(s) /\ s \in Stacks /\ Len(s.account) = Len(s.dialog)
<1>1. /\ s \in Stacks /\ Len(s.account) = Len(s.dialog) /\ Linked(s)
      /\ Lists(s.uas, s.account) /\ Lists(s.dialogs, s.dialog)
  BY DEF Good, GoodBut, Well, AgentsBut
<1>2. /\ s.uas \in Seq(Nat) /\ s.account \in Seq(Nat) /\ s.dialogs \in Seq(Nat)
      /\ {"uas", "account", "dialogs", "told"} \subseteq DOMAIN s
  BY <1>1 DEF Stacks
<1>3. Len(s.uas) <= Len(s.account)
  <2>1. Len(s.account) \in Nat /\ DOMAIN s.account = 1 .. Len(s.account)
    BY <1>2
  <2> QED BY <1>1, <1>2, <2>1, ListsAreShort
<1>4. \A d : InList(s.dialogs, d) => InList(s.uas, d)
  <2>1. \A d : InList(s.dialogs, d) => d \in Listed(s)
    BY <1>1 DEF Listed, Lists, InList
  <2> QED BY <1>1, <2>1 DEF Linked
<1> QED BY <1>1, <1>2, <1>3, <1>4 DEF Counted

-----------------------------------------------------------------------------
(* The handlers *)

\* Whatever the peer sends: positions stay, unless a user agent is removed.
LEMMA RequestGrows ==
    ASSUME NEW s, Good(s), s.told = NoEvent, NEW m
    PROVE  Grows(s, TmHandleRequestMessage(s, m))
<1> DEFINE t == MatchRequest(s, m)
           r == TmHandleRequestMessage(s, m)
<1>1. Counted(s) /\ s \in Stacks /\ Len(s.account) = Len(s.dialog)
  BY GoodIsCounted
<1>2. Aside(s, s) /\ Grows(s, s)
  BY <1>1, CountedAside, AsideGrows
<1>3. r = IF t = Null THEN TmNewTransaction(s, m) ELSE TmRequestInTransaction(s, t, m)
  BY DEF TmHandleRequestMessage
<1> HIDE DEF t, r
<1>4. Grows(s, TmNewTransaction(s, m))
  <2>1. CASE m.method # "INVITE"
    BY <1>1, <2>1, OnTransactionEventGrows DEF TmNewTransaction
  <2>2. CASE m.method = "INVITE"
    <3>1. TmNewTransaction(s, m) = HandleInviteEvent(s, Null, "NEW", m)
      BY <2>2 DEF TmNewTransaction, OnTransactionEvent
    <3> DEFINE s1 == AddDialog(AddUa(s, 0))
    <3>2. HandleInviteEvent(s, Null, "NEW", m) \in
             {s, DialogNewTransaction(s1, Len(s1.dialog), m, "SERVER_INVITE")}
      BY DEF HandleInviteEvent
    <3>3. Grows(s, DialogNewTransaction(s1, Len(s1.dialog), m, "SERVER_INVITE"))
      BY <1>1, NewCallGrows
    <3> QED BY <1>2, <3>1, <3>2, <3>3
  <2> QED BY <2>1, <2>2
<1>5. Grows(s, TmRequestInTransaction(s, t, m))
  <2>1. Grows(s, RunQuietly(s, t, "INVITE"))
    BY <1>1, <1>2, MachinesAside, AsideGrows
  <2>2. m.method = "CANCEL" => Grows(s, TmCancel(s, t, m))
    BY <1>1, TmCancelGrows
  <2> QED BY <1>2, <2>1, <2>2 DEF TmRequestInTransaction
<1> QED BY <1>3, <1>4, <1>5 DEF r

\* So do responses, of which the user may make another request.
LEMMA ResponseGrows ==
    ASSUME NEW s, Good(s), s.told = NoEvent, NEW code \in ResponseEvents, NEW m
    PROVE  Grows(s, TmHandleReponseMessage(s, code, m))
<1>1. Counted(s) /\ Grows(s, s)
  BY GoodIsCounted, CountedAside, AsideGrows
<1>2. code # "NEW"
  BY DEF ResponseEvents, FinalEvents, RejectEvents, ProvisionalEvent
<1> QED BY <1>1, <1>2, RunFsmGrows DEF TmHandleReponseMessage

\* So do the commands of the GUI.
LEMMA CommandsGrow ==
    ASSUME NEW s, Good(s), s.told = NoEvent, NEW position
    PROVE  Grows(s, Ringing(s, position)) /\ Grows(s, CallOut(s))
<1>1. Counted(s) /\ s \in Stacks /\ Len(s.account) = Len(s.dialog) /\ Aside(s, s)
  BY GoodIsCounted, CountedAside
<1>2. Aside(s, Ringing(s, position))
  BY <1>1, StepsAside, MachinesAside DEF Ringing, DialogRinging
<1>3. Grows(s, CallOut(s))
  BY <1>1, NewCallGrows DEF CallOut, DialogInvite
<1> QED BY <1>1, <1>2, <1>3, AsideGrows

\* An INVITE that rings is answered 180, and that is all.
LEMMA Rings180 ==
    ASSUME NEW s \in Stacks, NEW t \in Tr(s), TypeOf(s, t) = "SERVER_INVITE",
           StateOf(s, t) = "PROCEEDING"
    PROVE  LET r == ResponseWith(s, t, "SEND_RINGING") IN
           r.fault = s.fault /\ r.wire = s.wire \cup {<<t, "SEND_RINGING">>}
<1> DEFINE q == SendResponse(s, t, "SEND_RINGING")
           e == CHOOSE x \in EntriesFor(q, t, "SEND_RINGING") : TRUE
           q2 == [q EXCEPT !.transaction[t].state = e.nextState]
           a == Advance(q, t, "SEND_RINGING")
           r == ResponseWith(s, t, "SEND_RINGING")
<1>1. /\ q.wire = s.wire \cup {<<t, "SEND_RINGING">>} /\ q.fault = s.fault
      /\ {"wire", "fault", "transaction", "transactions"} \subseteq DOMAIN q
      /\ q.transaction[t].type = "SERVER_INVITE" /\ q.transaction[t].state = "PROCEEDING"
  <2>1. t \in DOMAIN s.transaction
    BY DEF Tr
  <2>2. q = [s EXCEPT !.transaction[t].latest = "SEND_RINGING",
                      !.wire = @ \cup {<<t, "SEND_RINGING">>}]
    BY DEF SendResponse, SendMessage, Stacks
  <2>3. /\ q.wire = s.wire \cup {<<t, "SEND_RINGING">>} /\ q.fault = s.fault
        /\ {"wire", "fault", "transaction", "transactions"} \subseteq DOMAIN q
    BY <2>2 DEF Stacks
  <2>4. \E v : Stepped(s, q, t, s.transaction[t].state)
    BY <2>1, SendResponseEffect DEF SendEvents
  <2>5. q.transaction[t].type = s.transaction[t].type
          /\ q.transaction[t].state = s.transaction[t].state
    BY <2>1, <2>4 DEF Stepped, SameMaking
  <2> QED BY <2>3, <2>5 DEF TypeOf, StateOf
<1> HIDE DEF q
<1>2. EntriesFor(q, t, "SEND_RINGING") = {Goto("SEND_RINGING", "PROCEEDING")}
  BY <1>1 DEF EntriesFor, LocateEventEntry, LocateFsmState, Fsm, Entry, Goto,
              ServerInviteTransactionFsm, ServerInviteProceedingState
<1>3. e = Goto("SEND_RINGING", "PROCEEDING")
  BY <1>2
<1>4. a = RunActions(q2, t, InvokeActions(e.actions, TRUE))
  BY <1>2 DEF Advance
<1>5. InvokeActions(e.actions, TRUE) \cap SendActions = {}
  BY <1>3 DEF InvokeActions, Goto, Entry, SendActions
<1> HIDE DEF e
<1>6. a = q2
  BY <1>4, <1>5 DEF RunActions, SendActions
<1>7. r \in {a, [a EXCEPT !.transactions = DelFromList(@, t)]}
  BY DEF ResponseWith, RunQuietly, RemoveTerminatedTransaction, q
<1>8. a.wire = q.wire /\ a.fault = q.fault /\ {"wire", "fault"} \subseteq DOMAIN a
  BY <1>1, <1>6
<1> HIDE DEF a, r
<1>9. r.wire = a.wire /\ r.fault = a.fault
  BY <1>7, <1>8
<1> QED BY <1>1, <1>8, <1>9 DEF r

-----------------------------------------------------------------------------
(* The invariant of the two processes *)

Places == Positions \cup {0}

Datagrams(events) == [event : events, position : Places, ua : 0 .. MaxUas,
                      removed : 0 .. MaxUas]

\* As long as nothing more is removed, a datagram finds what it was told of.
Finds(d) ==
    /\ d.position \in heard
    /\ d.removed \in 0 .. Removed
    /\ d.removed = Removed =>
         GetUa(stack, d.position) = d.ua /\ InList(stack.dialogs, d.ua)

PhoneInv ==
    /\ IInv
    /\ toGui \subseteq Datagrams(Life!Events) /\ CurrEvent \in Datagrams(Life!Events)
    /\ toStack \subseteq Datagrams({"RINGING", "MAKE_CALL"})
    /\ shown \subseteq 0 .. MaxUas /\ rung \subseteq 0 .. MaxUas
    /\ \A d \in toGui : d.event = "CALL_INCOMING" => Finds(d)
    /\ \A c \in toStack : c.event = "RINGING" => Finds(c)

\* No more user agents are removed than were made.
LEMMA RemovedInBounds ==
    ASSUME IInv
    PROVE  Removed \in 0 .. MaxUas /\ Removed = Gone(stack) /\ Removed = Gone(Turn)
<1>1. Good(Turn) /\ Turn.told = NoEvent /\ SameAgents(stack, Turn) /\ InBounds(Turn)
  BY TurnBegins
<1>2. Turn.uas = stack.uas /\ Turn.account = stack.account
  BY <1>1 DEF SameAgents
<1> HIDE DEF Turn
<1>3. Counted(Turn)
  BY <1>1, GoodIsCounted
<1>4. /\ Len(Turn.uas) \in Nat /\ Len(Turn.account) \in Nat
      /\ Len(Turn.uas) <= Len(Turn.account) /\ Len(Turn.account) <= MaxUas
  BY <1>1, <1>3 DEF Counted, InBounds
<1>5. Len(Turn.account) - Len(Turn.uas) \in 0 .. MaxUas
  <2>1. MaxUas \in Nat
    BY CountsAssumption
  <2>2. ASSUME NEW n \in Nat, NEW k \in Nat, k <= n, n <= MaxUas
        PROVE  n - k \in 0 .. MaxUas
    BY <2>1, <2>2
  <2> QED BY <1>4, <2>2
<1> QED BY <1>2, <1>5 DEF Removed, Gone

\* What the handler of a turn leaves of the positions, whether it dies or not.
LEMMA PositionsStay ==
    ASSUME IInv, IInv', NEW r, Grows(Turn, r), Running(r), Becomes(r)
    PROVE  /\ Removed <= Removed'
           /\ \A d : Finds(d) => Finds(d)'
<1>1. SameAgents(stack, Turn)
  BY TurnBegins
<1>2. /\ Turn.uas = stack.uas /\ Turn.dialogs = stack.dialogs
      /\ Removed = Gone(Turn) /\ Removed \in Int /\ Removed' \in Int
      /\ Removed' = Gone(stack')
  BY <1>1, RemovedInBounds DEF SameAgents, Removed, Gone
<1> HIDE DEF Turn
<1>3. heard \subseteq heard'
  BY DEF Becomes
<1>4. /\ Removed <= Removed'
      /\ Removed = Removed' =>
           /\ \A i \in DOMAIN stack.uas : i \in DOMAIN stack'.uas
                                          /\ stack'.uas[i] = stack.uas[i]
           /\ \A d : InList(stack.dialogs, d) => InList(stack'.dialogs, d)
  <2>1. CASE stack' = r
    BY <1>2, <2>1 DEF Grows
  <2>2. CASE stack' = [stack EXCEPT !.fault = r.fault]
    <3>1. stack \in Stacks
      BY DEF IInv, Good, GoodBut, Well
    <3>2. stack'.uas = stack.uas /\ stack'.dialogs = stack.dialogs
            /\ stack'.account = stack.account
      BY <2>2, <3>1 DEF Stacks
    <3>3. Removed' = Removed
      BY <3>2 DEF Removed
    <3> QED BY <1>2, <3>2, <3>3
  <2> QED BY <2>1, <2>2, TurnEnds
<1>5. ASSUME NEW d, Finds(d) PROVE Finds(d)'
  <2>1. d.position \in heard' /\ d.removed \in 0 .. Removed
    BY <1>3, <1>5 DEF Finds
  <2>2. d.removed = Removed' => Removed = Removed' /\ d.removed = Removed
    <3>1. ASSUME d.removed = Removed' PROVE Removed = Removed'
      BY <1>2, <1>4, <2>1, <3>1
    <3> QED BY <3>1
  <2>3. ASSUME d.removed = Removed'
        PROVE  GetUa(stack', d.position) = d.ua /\ InList(stack'.dialogs, d.ua)
    <3>1. GetUa(stack, d.position) = d.ua /\ InList(stack.dialogs, d.ua)
            /\ Removed = Removed'
      BY <1>5, <2>2, <2>3 DEF Finds
    <3>2. d.ua # Null
      <4>1. stack \in Stacks /\ Lists(stack.dialogs, stack.dialog)
        BY DEF IInv, Good, GoodBut, Well
      <4>2. d.ua \in DOMAIN stack.dialog
        BY <3>1, <4>1 DEF Lists, InList
      <4> QED BY <4>1, <4>2, DialogDomain DEF Null
    <3>3. d.position + 1 \in DOMAIN stack.uas /\ stack.uas[d.position + 1] = d.ua
      BY <3>1, <3>2 DEF GetUa
    <3> QED BY <1>4, <3>1, <3>3 DEF GetUa
  <2>4. d.removed \in 0 .. Removed'
    BY <1>2, <1>4, <2>1
  <2> QED BY <2>1, <2>3, <2>4 DEF Finds
<1> QED BY <1>4, <1>5

\* What is told of in a turn can be found at its end.
LEMMA ToldIsFound ==
    ASSUME IInv, IInv', NEW r, Grows(Turn, r), Running(r), Becomes(r), NEW d \in Told
    PROVE  /\ d \in Datagrams(Life!Events)
           /\ d.event = "CALL_INCOMING" => Finds(d)'
<1>1. /\ stack'.fault = "none" /\ stack'.told # NoEvent
      /\ d = Datagram(stack'.told.event, stack'.told.position, stack'.told.ua, Removed)
  BY DEF Told
<1>2. stack' = r
  <2>1. stack \in Stacks /\ "fault" \in DOMAIN stack
    BY DEF IInv, Good, GoodBut, Well, Stacks
  <2>2. "none" \notin Deaths
    BY DEF Deaths
  <2> QED BY <1>1, <2>1, <2>2, TurnEnds
<1>3. /\ stack'.told.event \in Life!Events /\ stack'.told.position \in Int
      /\ stack'.told.position < Len(stack'.account) /\ Len(stack'.account) \in Nat
  BY <1>1, <1>2 DEF Grows, Counted
<1>4. /\ Len(stack'.account) <= MaxUas /\ stack' \in Stacks
      /\ Len(stack'.account) = Len(stack'.dialog)
  BY DEF IInv, InBounds, Good, GoodBut, Well
<1>5. /\ stack'.told.ua \in DOMAIN stack'.dialog /\ stack'.told.position \in Nat
      /\ stack'.told.event = "CALL_INCOMING" =>
           /\ InList(stack'.dialogs, stack'.told.ua)
           /\ GetUa(stack', stack'.told.position) = stack'.told.ua
  BY <1>1 DEF IInv, ToldOnes, Listed
<1>6. MaxUas \in Nat /\ Removed \in 0 .. MaxUas /\ Removed <= Removed'
  BY CountsAssumption, RemovedInBounds, PositionsStay
<1>7. stack'.told.ua \in 0 .. MaxUas
  BY <1>3, <1>4, <1>5, <1>6, DialogDomain
<1>8. stack'.told.position \in Places
  BY <1>3, <1>4, <1>5, <1>6 DEF Places, Positions
<1>9. d \in Datagrams(Life!Events)
  BY <1>1, <1>3, <1>6, <1>7, <1>8 DEF Datagram, Datagrams
<1>10. /\ d.event = stack'.told.event /\ d.position = stack'.told.position
       /\ d.ua = stack'.told.ua /\ d.removed = Removed
  BY <1>1 DEF Datagram
<1>11. d.event = "CALL_INCOMING" => d.position \in heard'
  BY <1>10 DEF Becomes
<1>12. Removed \in 0 .. Removed' /\ Removed' \in Int
  <2>1. Len(stack'.account) \in Nat /\ Len(stack'.uas) \in Nat
    BY <1>4 DEF Stacks
  <2>2. Removed' \in Int
    BY <2>1 DEF Removed
  <2> QED BY <1>6, <2>2
<1> QED BY <1>5, <1>9, <1>10, <1>11, <1>12 DEF Finds

\* A step of the stack process is a turn whose handler lets the list grow.
LEMMA StackTurns ==
    ASSUME IInv, StackReceives \/ \E c \in toStack : StackHandles(c)
    PROVE  \E r : Grows(Turn, r) /\ Running(r) /\ Becomes(r)
<1>1. Good(Turn) /\ Turn.told = NoEvent /\ Running(Turn)
  BY TurnBegins
<1>2. ASSUME NEW m, ReceiveRequest(m)
      PROVE  \E r : Grows(Turn, r) /\ Running(r) /\ Becomes(r)
  <2> DEFINE r == TmHandleRequestMessage(Turn, m)
  <2>1. Becomes(r)
    BY <1>2 DEF ReceiveRequest
  <2> HIDE DEF Turn
  <2>2. Grows(Turn, r) /\ Running(r)
    BY <1>1, RequestGrows, HandlersFollow DEF Follows
  <2> QED BY <2>1, <2>2
<1>3. ASSUME NEW t \in Sent, NEW code \in ResponseEvents, NEW granted,
             ReceiveResponse(t, code, granted)
      PROVE  \E r : Grows(Turn, r) /\ Running(r) /\ Becomes(r)
  <2> DEFINE m == [stack.transaction[t].request EXCEPT
                       !.to = PeerTag, !.expires = granted]
             r == TmHandleReponseMessage(Turn, code, m)
  <2>1. Becomes(r)
    BY <1>3 DEF ReceiveResponse
  <2> HIDE DEF Turn, m
  <2>2. Grows(Turn, r) /\ Running(r)
    BY <1>1, ResponseGrows, HandlersFollow DEF Follows
  <2> QED BY <2>1, <2>2
<1>4. ASSUME NEW position, ClientRings(position) \/ ClientCallsOut
      PROVE  \E r : Grows(Turn, r) /\ Running(r) /\ Becomes(r)
  <2> DEFINE r1 == Ringing(Turn, position)
             r2 == CallOut(Turn)
  <2>1. Becomes(r1) \/ Becomes(r2)
    BY <1>4 DEF ClientRings, ClientCallsOut, HandleClientMessage
  <2> HIDE DEF Turn
  <2>2. Grows(Turn, r1) /\ Running(r1) /\ Grows(Turn, r2) /\ Running(r2)
    BY <1>1, CommandsGrow, HandlersFollow DEF Follows
  <2> HIDE DEF r1, r2
  <2> QED BY <2>1, <2>2
<1> QED BY <1>2, <1>3, <1>4 DEF StackReceives, StackHandles

\* The client only rings positions it was told of.
LEMMA PhoneStepsTheStack ==
    ASSUME PhoneInv, [PhoneNext]_phoneVars
    PROVE  [Next]_vars
<1>1. CASE StackReceives
  BY <1>1 DEF StackReceives, Next
<1>2. ASSUME NEW c \in toStack, StackHandles(c) PROVE Next
  <2>1. CASE c.event = "RINGING" /\ ClientRings(c.position)
    <3>1. c.position \in heard
      BY <2>1 DEF PhoneInv, Finds
    <3> QED BY <2>1, <3>1 DEF Next
  <2> QED BY <1>2, <2>1 DEF StackHandles, Next
<1>3. CASE (\E d \in toGui : GuiReceives(d)) \/ GuiCallsOut
  BY <1>3 DEF GuiReceives, GuiCallsOut
<1>4. CASE UNCHANGED phoneVars
  BY <1>4 DEF phoneVars, vars
<1> QED BY <1>1, <1>2, <1>3, <1>4 DEF PhoneNext

\* The two processes start in the invariant.
LEMMA PhoneInitInv == PhoneInit => PhoneInv
<1> SUFFICES ASSUME PhoneInit PROVE PhoneInv
  OBVIOUS
<1>1. IInv /\ CurrEvent = InitialEvent /\ toGui = {} /\ toStack = {}
        /\ shown = {} /\ rung = {}
  BY InitInv DEF PhoneInit
<1>2. InitialEvent \in Datagrams(Life!Events)
  BY CountsAssumption DEF InitialEvent, Datagram, Datagrams, Places, Null, Life!Events
<1> QED BY <1>1, <1>2 DEF PhoneInv

\* Every step of either process keeps the invariant.
LEMMA PhoneNextInv ==
    ASSUME PhoneInv, [PhoneNext]_phoneVars
    PROVE  PhoneInv'
<1>1. IInv /\ IInv'
  BY PhoneStepsTheStack, NextInv DEF PhoneInv
<1>2. ASSUME StackReceives \/ \E c \in toStack : StackHandles(c) PROVE PhoneInv'
  <2>1. PICK r : Grows(Turn, r) /\ Running(r) /\ Becomes(r)
    BY <1>1, <1>2, StackTurns
  <2>2. \A d : Finds(d) => Finds(d)'
    BY <1>1, <2>1, PositionsStay
  <2>3. \A d \in Told : /\ d \in Datagrams(Life!Events)
                        /\ d.event = "CALL_INCOMING" => Finds(d)'
    BY <1>1, <2>1, ToldIsFound
  <2>4. toGui' = toGui \cup Told /\ toStack' = toStack /\ CurrEvent' = CurrEvent
          /\ shown' = shown
    BY <1>2 DEF StackReceives, StackHandles
  <2>5. rung' \subseteq 0 .. MaxUas
    <3>1. \A c \in toStack : c.ua \in 0 .. MaxUas
      BY DEF PhoneInv, Datagrams
    <3> QED BY <1>2, <3>1 DEF StackReceives, StackHandles, PhoneInv
  <2>6. toGui' \subseteq Datagrams(Life!Events)
    BY <2>3, <2>4 DEF PhoneInv
  <2>7. \A d \in toGui' : d.event = "CALL_INCOMING" => Finds(d)'
    BY <2>2, <2>3, <2>4 DEF PhoneInv
  <2>8. \A c \in toStack' : c.event = "RINGING" => Finds(c)'
    BY <2>2, <2>4 DEF PhoneInv
  <2> QED BY <1>1, <2>4, <2>5, <2>6, <2>7, <2>8 DEF PhoneInv, Datagrams
<1>3. ASSUME UNCHANGED <<stack, heard>> PROVE \A d : Finds(d) => Finds(d)'
  BY <1>3 DEF Finds, Removed
<1>4. ASSUME NEW d \in toGui, GuiReceives(d) PROVE PhoneInv'
  <2>1. /\ UNCHANGED <<stack, heard>> /\ toGui' = toGui /\ rung' = rung
        /\ CurrEvent' = d
        /\ shown' \in {shown, shown \cup {d.ua}}
        /\ toStack' = IF d.event = "CALL_INCOMING"
                      THEN toStack \cup {[d EXCEPT !.event = "RINGING"]} ELSE toStack
    BY <1>4 DEF GuiReceives, SockCallback, vars
  <2>2. d \in Datagrams(Life!Events) /\ (d.event = "CALL_INCOMING" => Finds(d))
    BY DEF PhoneInv
  <2> DEFINE c == [d EXCEPT !.event = "RINGING"]
  <2>3. /\ c \in Datagrams({"RINGING", "MAKE_CALL"})
        /\ c.position = d.position /\ c.ua = d.ua /\ c.removed = d.removed
    BY <2>2 DEF Datagrams
  <2>4. d.event = "CALL_INCOMING" => Finds(c)
    BY <2>2, <2>3 DEF Finds
  <2> HIDE DEF c
  <2>5. d.ua \in 0 .. MaxUas
    BY <2>2 DEF Datagrams
  <2>6. toStack' \subseteq Datagrams({"RINGING", "MAKE_CALL"})
    BY <2>1, <2>3 DEF PhoneInv, c
  <2>7. \A e \in toStack' : e.event = "RINGING" => Finds(e)'
    BY <1>3, <2>1, <2>4 DEF PhoneInv, c
  <2>8. \A e \in toGui' : e.event = "CALL_INCOMING" => Finds(e)'
    BY <1>3, <2>1 DEF PhoneInv
  <2>9. shown' \subseteq 0 .. MaxUas /\ rung' \subseteq 0 .. MaxUas
    BY <2>1, <2>5 DEF PhoneInv
  <2>10. toGui' \subseteq Datagrams(Life!Events) /\ CurrEvent' \in Datagrams(Life!Events)
    BY <2>1, <2>2 DEF PhoneInv
  <2> QED BY <1>1, <2>6, <2>7, <2>8, <2>9, <2>10 DEF PhoneInv, Datagrams
<1>5. ASSUME GuiCallsOut PROVE PhoneInv'
  <2> DEFINE c == Datagram("MAKE_CALL", 0, Null, 0)
  <2>1. /\ UNCHANGED <<stack, heard, toGui, CurrEvent, shown, rung>>
        /\ toStack' = toStack \cup {c}
    BY <1>5 DEF GuiCallsOut, vars
  <2>2. c \in Datagrams({"RINGING", "MAKE_CALL"}) /\ c.event # "RINGING"
    BY CountsAssumption DEF Datagram, Datagrams, Places, Null
  <2> HIDE DEF c
  <2>3. \A e \in toStack' : e.event = "RINGING" => Finds(e)'
    BY <1>3, <2>1, <2>2 DEF PhoneInv
  <2>4. \A e \in toGui' : e.event = "CALL_INCOMING" => Finds(e)'
    BY <1>3, <2>1 DEF PhoneInv
  <2>5. toStack' \subseteq Datagrams({"RINGING", "MAKE_CALL"})
    BY <2>1, <2>2 DEF PhoneInv
  <2> QED BY <1>1, <2>1, <2>3, <2>4, <2>5 DEF PhoneInv, Datagrams
<1>6. ASSUME UNCHANGED phoneVars PROVE PhoneInv'
  <2>1. UNCHANGED <<stack, heard, toGui, CurrEvent, shown, rung, toStack>>
    BY <1>6 DEF phoneVars
  <2> QED BY <1>1, <1>3, <2>1 DEF PhoneInv, Datagrams
<1> QED BY <1>2, <1>4, <1>5, <1>6 DEF PhoneNext

\* The invariant of the two processes holds.
THEOREM PhoneInvHolds == PhoneSpec => []PhoneInv
BY PhoneInitInv, PhoneNextInv, PTL DEF PhoneSpec

\* The GUI is a client as SipStack has it: it only rings positions that it was
\* told of with CALL_INCOMING, however late and however often the datagrams come
\* (sock_callback, gui.c:122-133; CallManager.c:51-70).
THEOREM PhoneIsAStack == PhoneSpec => ImplementsSipStack
<1>1. PhoneInit => Init
  BY DEF PhoneInit
<1>2. PhoneInv /\ [PhoneNext]_phoneVars => [Next]_vars
  BY PhoneStepsTheStack
<1> QED BY <1>1, <1>2, PhoneInvHolds, PTL DEF PhoneSpec, Spec, ImplementsSipStack

\* Every datagram on its way names a position and a user agent that exist or
\* existed: no event is told with the position -1, and the GUI sends back what it
\* was told. (With MaxUas = 0 there is no position, and Make Call sends 0.)
THEOREM PhoneTypeCorrect ==
    ASSUME MaxUas > 0
    PROVE  PhoneSpec => []PhoneTypeOK
<1>1. PhoneInv => PhoneTypeOK
  <2> SUFFICES ASSUME PhoneInv PROVE PhoneTypeOK
    OBVIOUS
  <2>1. Places = Positions
    BY CountsAssumption DEF Places, Positions
  <2> QED BY <2>1 DEF PhoneInv, PhoneTypeOK, Datagrams
<1> QED BY <1>1, PhoneInvHolds, PTL

\* A RINGING that arrives late rings the INVITE of the very call it was sent for,
\* and does not kill the process, unless a user agent was removed meanwhile or the
\* peer took the call back (CallManager.c:57, Dialog.c:358).
THEOREM RingingRingsItsCall == PhoneSpec => RingsItsCall
<1>1. ASSUME PhoneInv, NEW c \in toStack, c.event = "RINGING", c.removed = Removed,
             life[c.ua] = "CALL_INCOMING", stack.dialog[c.ua].state = "NON_EXIST",
             StackHandles(c)
      PROVE  \E t \in Made("INVITE") :
                /\ stack.transaction[t].user = c.ua
                /\ stack'.wire = {<<t, "SEND_RINGING">>}
  <2> DEFINE d == c.ua
             t == TransactionOf(stack, d)
             r == Ringing(Turn, c.position)
  <2>1. GetUa(stack, c.position) = d /\ InList(stack.dialogs, d)
    BY <1>1 DEF PhoneInv, Finds
  <2>2. /\ stack \in Stacks /\ Machines(stack) /\ Linked(stack) /\ d \in Listed(stack)
        /\ \A e \in Listed(stack) : e # Null => Open(stack, e)
        /\ IncomingOnes(stack, life) /\ IInv
    BY <1>1, <2>1 DEF PhoneInv, IInv, Good, GoodBut, Well, AgentsBut, Listed, Story, Lists, InList
  <2>3. d # Null
    BY <2>2, DialogDomain DEF Null, Listed
  <2>4. TypeOf(stack, t) = "SERVER_INVITE" /\ StateOf(stack, t) = "PROCEEDING"
    BY <1>1, <2>2, <2>3 DEF Open, IncomingOnes
  <2>5. t \in Tr(stack) /\ UserOf(stack, t) = d
    BY <2>2 DEF Linked
  <2>6. InList(stack.transactions, t) /\ RequestOf(stack, t).method = "INVITE"
    BY <2>2, <2>4, <2>5 DEF Machines, LiveListed, AllBegan, Begins, Invite, Request
  <2>7. /\ SameAgents(stack, Turn) /\ SameMachines(stack, Turn) /\ Turn \in Stacks
        /\ Turn.fault = stack.fault
    BY <2>2, TurnBegins
  <2>8. Turn.wire = {}
    BY <2>2 DEF Turn, NewTurn, Stacks
  <2>9. stack.fault = "none" /\ Becomes(r)
    BY <1>1 DEF StackHandles, ClientRings, HandleClientMessage, Alive
  <2> HIDE DEF Turn
  <2>10. /\ Turn.uas = stack.uas /\ Turn.dialogs = stack.dialogs
         /\ Turn.dialog = stack.dialog /\ Turn.transaction = stack.transaction
         /\ Turn.transactions = stack.transactions
    BY <2>7 DEF SameAgents, SameMachines
  <2>11. r = ResponseWith(Turn, t, "SEND_RINGING")
    <3>1. GetUa(Turn, c.position) = d
      BY <2>1, <2>10 DEF GetUa
    <3>2. GetDialogByUa(Turn, d) = d
      BY <2>1, <2>10 DEF GetDialogByUa
    <3>3. TransactionOf(Turn, d) = t
      BY <2>10 DEF TransactionOf
    <3>4. Dereferences(Turn, d)
      BY <2>6, <2>10, <3>3 DEF Dereferences
    <3>5. r = DialogRinging(Turn, d)
      BY <3>1, <3>2 DEF Ringing
    <3> HIDE DEF t, d, r
    <3> QED BY <2>3, <3>3, <3>4, <3>5 DEF DialogRinging, d
  <2>12. r.fault = "none" /\ r.wire = {<<t, "SEND_RINGING">>}
    <3>1. t \in Tr(Turn) /\ TypeOf(Turn, t) = "SERVER_INVITE"
            /\ StateOf(Turn, t) = "PROCEEDING"
      BY <2>4, <2>5, <2>10 DEF Tr, TypeOf, StateOf
    <3> HIDE DEF t, r
    <3> QED BY <2>7, <2>8, <2>9, <2>11, <3>1, Rings180
  <2> HIDE DEF r
  <2>13. stack' = r
    BY <2>9, <2>12 DEF Becomes
  <2> QED BY <2>5, <2>6, <2>12, <2>13 DEF Made, Tr, RequestOf, UserOf
<1>2. PhoneInv /\ [PhoneNext]_phoneVars =>
        [\A c \in toStack :
            /\ c.event = "RINGING" /\ c.removed = Removed
            /\ life[c.ua] = "CALL_INCOMING"
            /\ stack.dialog[c.ua].state = "NON_EXIST"
            /\ StackHandles(c)
            => \E t \in Made("INVITE") :
                 /\ stack.transaction[t].user = c.ua
                 /\ stack'.wire = {<<t, "SEND_RINGING">>}]_phoneVars
  BY <1>1
<1> QED BY <1>2, PhoneInvHolds, PTL DEF PhoneSpec, RingsItsCall
=============================================================================
