---------------------------- MODULE StackHandlers ----------------------------
(***************************************************************************)
(* The handlers of the two sockets of the stack process: the receiving     *)
(* half of TransactionManager.c, CallManager.c and AccountManager.c over   *)
(* the dialogs of StackDialogs, as operators on the stack.                 *)
(***************************************************************************)
EXTENDS StackDialogs

CONSTANT Accounts           \* the accounts bound at the start (3 in the code)

NoEvent == [event |-> "none", ua |-> Null, position |-> 0]

EmptyStack ==
    [uas |-> <<>>, account |-> <<>>, dialogs |-> <<>>, dialog |-> <<>>,
     transactions |-> <<>>, transaction |-> <<>>,
     binded |-> [a \in 0 .. Accounts |-> FALSE],
     wire |-> {}, answers |-> {}, told |-> NoEvent, fault |-> "none"]

\* The stack at the start of a turn of the select loop: nothing sent and nothing
\* told yet.
NewTurn(s) == [s EXCEPT !.wire = {}, !.told = NoEvent]

-----------------------------------------------------------------------------
(* The receiving half of TransactionManager.c *)

\* RunFsm, with the InformTU of the entry, if any, at its end.
RunFsm(s, t, event, m) ==
    LET s1 == Advance(s, t, event)
        s2 == IF Informs(s, t, event)
              THEN OnTransactionEvent(s1, s.transaction[t].user, event, m)
              ELSE s1
    IN  RemoveTerminatedTransaction(s2, t)

\* TmHandleReponseMessage.  A response that matches no transaction is dropped.
TmHandleReponseMessage(s, code, m) ==
    LET t == MatchResponse(s, m)
    IN  IF t = Null THEN s ELSE RunFsm(s, t, code, m)

\* TmNewTransaction: a request that belongs to no transaction.
TmNewTransaction(s, m) == OnTransactionEvent(s, Null, "NEW", m)

\* The CANCEL of TmRequestInTransaction: the user is told, the transaction of the
\* INVITE ends with a 487, and the CANCEL starts a transaction of its own.  The
\* 487 names the CANCEL, not the INVITE (CSeqMethod): the peer sees its CANCEL
\* answered 487 and then 200, and its INVITE never.
TmCancel(s, t, m) ==
    LET told == OnTransactionEvent(s, s.transaction[t].user, "CANCEL", m)
    IN  TmNewTransaction(ResponseWith(told, t, "SEND_REQUEST_TERMINATED"), m)

\* TmRequestInTransaction: of the copies of a request only those of an INVITE
\* are answered.
TmRequestInTransaction(s, t, m) ==
    CASE m.method = "INVITE" -> RunQuietly(s, t, "INVITE")
      [] m.method = "CANCEL" -> TmCancel(s, t, m)
      [] OTHER -> s

TmHandleRequestMessage(s, m) ==
    LET t == MatchRequest(s, m)
    IN  IF t = Null THEN TmNewTransaction(s, m)
                    ELSE TmRequestInTransaction(s, t, m)

-----------------------------------------------------------------------------
(* AccountManager.c and CallManager.c *)

\* AccountAddBinding and AccountRemoveBinding, each with a user agent of its own.
AccountAddBinding(s, account) ==
    LET s1 == AddDialog(AddUa(s, account))
    IN  DialogNewTransaction(s1, Len(s1.dialog), BuildAddBindingMessage(s1),
                             "CLIENT_NON_INVITE")

AccountRemoveBinding(s, account) ==
    LET s1 == AddDialog(AddUa(s, account))
    IN  DialogNewTransaction(s1, Len(s1.dialog), BuildRemoveBindingMessage(s1),
                             "CLIENT_NON_INVITE")

\* BindAllAccounts, before the process reads its first datagram.
BindAllAccounts ==
    LET Bound[n \in 0 .. Accounts] ==
            IF n = 0 THEN EmptyStack ELSE AccountAddBinding(Bound[n - 1], n)
    IN  Bound[Accounts]

\* CallOut of the first account.  (With Accounts = 0 a run leaves the
\* registrations out; the account of a call is only read for its names.)
CallOut(s) ==
    LET s1 == AddDialog(AddUa(s, 1)) IN DialogInvite(s1, Len(s1.dialog))

\* AcceptCall and Ringing of the user agent at a position, which may be gone.
AcceptCall(s, position) == DialogOk(s, GetDialogByUa(s, GetUa(s, position)))
Ringing(s, position)    == DialogRinging(s, GetDialogByUa(s, GetUa(s, position)))

\* EndCall: whatever the user agent, it is the first dialog that is ended.
EndCall(s, known) == DialogTerminate(s, GetDialog(s, 0), known)
=============================================================================
