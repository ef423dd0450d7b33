---------------------------- MODULE StackDialogs ----------------------------
(***************************************************************************)
(* Dialog.c: what a dialog does with the events of its transactions and    *)
(* with the commands of its user agent, as operators on the stack.  An     *)
(* event is dispatched on the method of the request of the dialog's LATEST *)
(* transaction, which need not be the transaction the event is about.      *)
(***************************************************************************)
EXTENDS StackObjects

\* dialog->transaction, when it still points to a transaction.
TransactionOf(s, d) == s.dialog[d].transaction

Dereferences(s, d) == InList(s.transactions, TransactionOf(s, d))

\* FAULT: the Call-ID of an incoming call is not kept.
DialogNewTransactionForgets(s, d, m, type) ==
    LET s1 == AddTransaction(s, m, d, type)
        s2 == [s1 EXCEPT !.dialog[d].transaction = Len(s1.transaction)]
    IN  CASE type = "CLIENT_INVITE" ->
               [s2 EXCEPT !.dialog[d].id.local = m.from,
                          !.dialog[d].id.call = m.call]
          [] type = "SERVER_INVITE" ->
               NotifyCm([s2 EXCEPT !.dialog[d].id.remote = m.from],
                        "CALL_INCOMING", d)
          [] OTHER -> s2

\* DialogNewTransaction.
DialogNewTransaction(s, d, m, type) ==
    LET s1 == AddTransaction(s, m, d, type)
        s2 == [s1 EXCEPT !.dialog[d].transaction = Len(s1.transaction)]
    IN  CASE type = "CLIENT_INVITE" ->
               [s2 EXCEPT !.dialog[d].id.local = m.from,
                          !.dialog[d].id.call = m.call]
          [] type = "SERVER_INVITE" ->
               NotifyCm([s2 EXCEPT !.dialog[d].id.remote = m.from,
                                   !.dialog[d].id.call = m.call],
                        "CALL_INCOMING", d)
          [] OTHER -> s2

\* The To tag of a response built from the transaction's request: the tag the
\* request carries or else a fresh one.  The fresh tag of the response with
\* which transaction t is accepted is t itself.
ToTagOfOk(s, t) ==
    IF s.transaction[t].request.to = Nil THEN t ELSE s.transaction[t].request.to

\* FAULT: the tag of the 200 is taken for the remote one.
DialogOkOtherTag(s, d) ==
    IF d = Null THEN Die(s, "NO_DIALOG")
    ELSE IF ~Dereferences(s, d) THEN Die(s, "DANGLED")
    ELSE LET t  == TransactionOf(s, d)
             s1 == IF s.dialog[d].state = "NON_EXIST"
                   THEN [s EXCEPT !.dialog[d].id.remote = t,
                                  !.dialog[d].state = "CONFIRMED",
                                  !.dialog[d].session = TRUE]
                   ELSE s
         IN  ResponseWith(s1, t, "SEND_OK")

\* DialogOk.  DialogOk(NULL) fails the assertion of GetDialogId.
DialogOk(s, d) ==
    IF d = Null THEN Die(s, "NO_DIALOG")
    ELSE IF ~Dereferences(s, d) THEN Die(s, "DANGLED")
    ELSE LET t  == TransactionOf(s, d)
             s1 == CASE s.dialog[d].state = "NON_EXIST" ->
                          [s EXCEPT !.dialog[d].id.local = ToTagOfOk(s, t),
                                    !.dialog[d].state = "CONFIRMED",
                                    !.dialog[d].session = TRUE]
                     [] s.dialog[d].state = "CONFIRMED"
                        /\ s.transaction[t].request.method = "BYE" ->
                          [s EXCEPT !.dialog[d].state = "TERMINATED"]
                     [] OTHER -> s
         IN  ResponseWith(s1, t, "SEND_OK")

\* DialogAck.
DialogAck(s, d) == SendMessage(s, TransactionOf(s, d), "ACK")

\* DialogReceiveOk: the 200 to our INVITE.  The ACK is sent at once.
DialogReceiveOk(s, d, m) ==
    LET s1 == [s EXCEPT !.dialog[d].id = [call |-> m.call, local |-> m.from,
                                          remote |-> m.to],
                        !.dialog[d].state = "CONFIRMED",
                        !.dialog[d].session = TRUE]
    IN  NotifyCm(DialogAck(s1, d), "CALL_ESTABLISHED", d)

DialogReceiveRinging(s, d) == NotifyCm(s, "CALL_REMOTE_RINGING", d)

\* The seconds a binding is asked for (BuildRequestExpiresHeader).
Lifetime == 3600

\* UaSetBinded and UaSetUnbinded, on the account of the user agent.
UaSetBinded(s, ua)   == [s EXCEPT !.binded[s.account[ua]] = TRUE]
UaSetUnbinded(s, ua) == [s EXCEPT !.binded[s.account[ua]] = FALSE]

\* FAULT: every binding is that of the first account.
HandleRegisterEventBindsFirst(s, d, event, m) ==
    CASE event = "2XX" -> [s EXCEPT !.binded[1] = TRUE]
      [] OTHER -> s

\* BuildAuthorizationMessage: the Call-ID of the challenge, all else is new, and
\* without the Expires of the request that was challenged.
BuildAuthorizationMessage(s, challenge) ==
    LET n == Len(s.transaction) + 1
    IN  Request("REGISTER", <<"here", n>>, challenge.call, n, Nil)

\* HandleRegisterEvent.  The Expires of the registrar's 200 tells a binding from
\* a removal, and a 200 without one fails the assertion of
\* ExpiresHeaderGetExpires; any 4XX is taken for a challenge and answered with a
\* new REGISTER.
HandleRegisterEvent(s, d, event, m) ==
    CASE event = "2XX" /\ m.expires = Nil -> Die(s, "ASSERTED")
      [] event = "2XX" /\ m.expires \notin {Nil, 0} -> UaSetBinded(s, d)
      [] event = "2XX" /\ m.expires = 0 -> UaSetUnbinded(s, d)
      [] event = "4XX" ->
            DialogNewTransaction(s, d, BuildAuthorizationMessage(s, m),
                                 "CLIENT_NON_INVITE")
      [] OTHER -> s

\* FAULT: a merged INVITE is taken for a new call.
HandleInviteEventUnmatched(s, d, event, m) ==
    CASE event = "2XX" -> DialogReceiveOk(s, d, m)
      [] event = "1XX" -> DialogReceiveRinging(s, d)
      [] event = "NEW" ->
            LET s1 == AddDialog(AddUa(s, 0))
            IN  DialogNewTransaction(s1, Len(s1.dialog), m, "SERVER_INVITE")
      [] event = "CANCEL" -> NotifyCm(s, "CALL_PEER_CANCELED", d)
      [] OTHER -> s

\* HandleInviteEvent.  An INVITE that matches a dialog is silently dropped.
HandleInviteEvent(s, d, event, m) ==
    CASE event = "2XX" -> DialogReceiveOk(s, d, m)
      [] event = "1XX" -> DialogReceiveRinging(s, d)
      [] event = "NEW" /\ MatchMessage2Dialog(s, m) = Null ->
            LET s1 == AddDialog(AddUa(s, 0))
            IN  DialogNewTransaction(s1, Len(s1.dialog), m, "SERVER_INVITE")
      [] event = "CANCEL" -> NotifyCm(s, "CALL_PEER_CANCELED", d)
      [] OTHER -> s

\* FAULT: the client is told when the user agent is gone.
DialogReceiveByeTellsLate(s, d, m) ==
    LET s1 == DialogNewTransaction(s, d, m, "SERVER_NON_INVITE")
        s2 == DialogOk(s1, d)
    IN  NotifyCm(RemoveUa(s2, d), "CALL_FINISHED", d)

\* DialogReceiveBye.  RemoveUa has freed the dialog when its id is read once
\* more for RemoveDialogById, which looks for it in a list that is now empty.
DialogReceiveBye(s, d, m) ==
    LET s1 == DialogNewTransaction(s, d, m, "SERVER_NON_INVITE")
        s2 == DialogOk(s1, d)
    IN  RemoveUa(NotifyCm(s2, "CALL_FINISHED", d), d)

HandleByeEvent(s, m) ==
    LET matched == MatchMessage2Dialog(s, m)
    IN  IF matched = Null THEN s ELSE DialogReceiveBye(s, matched, m)

\* DialogReceiveCancel: the CANCEL itself is answered, as if it were accepted.
DialogReceiveCancel(s, d, m) ==
    DialogOk(DialogNewTransaction(s, d, m, "SERVER_NON_INVITE"), d)

HandleCancelEvent(s, m) ==
    LET matched == MatchMessage2Dialog(s, m)
    IN  IF matched = Null THEN s ELSE DialogReceiveCancel(s, matched, m)

\* OnTransactionEvent.  d is NULL for a request outside any transaction, which
\* is dispatched on its own method.  A method without a handler is ignored.
OnTransactionEvent(s, d, event, m) ==
    IF d # Null /\ ~(InList(s.dialogs, d) /\ Dereferences(s, d))
    THEN Die(s, "DANGLED")
    ELSE LET method == IF d = Null THEN m.method
                       ELSE s.transaction[TransactionOf(s, d)].request.method
         IN  CASE method = "REGISTER" -> HandleRegisterEvent(s, d, event, m)
               [] method = "INVITE"   -> HandleInviteEvent(s, d, event, m)
               [] method = "BYE"      -> HandleByeEvent(s, m)
               [] method = "CANCEL"   -> HandleCancelEvent(s, m)
               [] OTHER -> s

\* A request built from nothing has a Call-ID, a tag and a branch of its own:
\* the number of the transaction it starts.
BuildRequest(s, method) ==
    LET n == Len(s.transaction) + 1
    IN  Request(method, <<"here", n>>, n, n, Nil)

\* BuildAddBindingMessage and BuildRemoveBindingMessage.
BuildAddBindingMessage(s) ==
    [BuildRequest(s, "REGISTER") EXCEPT !.expires = Lifetime]

BuildRemoveBindingMessage(s) ==
    [BuildAddBindingMessage(s) EXCEPT !.expires = 0]

\* DialogInvite, of the dialog just made.
DialogInvite(s, d) ==
    DialogNewTransaction(s, d, BuildRequest(s, "INVITE"), "CLIENT_INVITE")

\* DialogRinging.  DialogRinging(NULL) reads through the NULL pointer.
DialogRinging(s, d) ==
    IF d = Null THEN Die(s, "NULL")
    ELSE IF ~Dereferences(s, d) THEN Die(s, "DANGLED")
    ELSE ResponseWith(s, TransactionOf(s, d), "SEND_RINGING")

\* DialogTerminate: a BYE built from no INVITE, hence with a Call-ID and tags
\* of its own.  DialogGetUa asserts that there is a dialog, UaGetProxy that its
\* user agent has an account: for an incoming call, that the To of the INVITE
\* was known, one of the accounts.
DialogTerminate(s, d, known) ==
    IF d = Null THEN Die(s, "NO_DIALOG")
    ELSE IF s.account[d] = 0 /\ ~known THEN Die(s, "ASSERTED")
    ELSE LET s1 == DialogNewTransaction(s, d, BuildRequest(s, "BYE"),
                                        "CLIENT_NON_INVITE")
         IN  [s1 EXCEPT !.dialog[d].state = "TERMINATED"]
=============================================================================
