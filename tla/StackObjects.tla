---------------------------- MODULE StackObjects ----------------------------
(***************************************************************************)
(* The objects of the running process and the lists that own them:         *)
(* UserAgentManager.c, DialogManager.c, DialogId.c and the lower half of   *)
(* TransactionManager.c and Transaction.c, in the program as it is built   *)
(* (a transport that never refuses, timers that never fire).               *)
(*                                                                         *)
(* The stack is one single-threaded process whose handlers call each       *)
(* other, so each C function is an operator from a stack to a stack, and   *)
(* a handler is their composition.  An object is named by its number, the  *)
(* pointer of the C code; 0 is NULL.  It is allocated while its number is  *)
(* in the list of its manager, and a number that is no longer there is a   *)
(* dangling pointer.  A user agent and its dialog are always made together *)
(* and have the same number.                                               *)
(***************************************************************************)
EXTENDS TransactionFsm

CONSTANT Nil            \* the empty string of a tag or of a Call-ID

Null == 0

\* What decides how a request is matched: its method, the branch of its Via,
\* its Call-ID and the tags of its From and To.  Expires is added to some.
Request(method, branch, call, from, to) ==
    [method |-> method, branch |-> branch, call |-> call,
     from |-> from, to |-> to, expires |-> Nil]

\* How the process dies: assert(0) in RunFsm, assert(dialog != NULL), a read
\* beyond an unterminated table, a NULL pointer, the use of a freed object.
Deaths == {"ASSERTED", "NO_DIALOG", "OVERRAN", "NULL", "DANGLED"}

Die(s, how) == [s EXCEPT !.fault = IF @ = "none" THEN how ELSE @]

\* The number of the n-th object, when it is still in its manager's list.
InList(list, n) == \E i \in DOMAIN list : list[i] = n

\* put_in_list, and the removal of the first element that is n.
PutInList(list, n) == Append(list, n)

DelFromList(list, n) ==
    LET at == CHOOSE i \in DOMAIN list : list[i] = n
    IN  IF InList(list, n)
        THEN [i \in 1 .. Len(list) - 1 |-> list[IF i < at THEN i ELSE i + 1]]
        ELSE list

\* The first element of a list that is in a set, or NULL.
FirstInList(list, S) ==
    LET found == {i \in DOMAIN list : list[i] \in S}
    IN  IF found = {} THEN Null
        ELSE list[CHOOSE i \in found : \A j \in found : i <= j]

-----------------------------------------------------------------------------
(* UserAgentManager.c and the UserAgent objects *)

\* AddUa and PassiveAddUa.  Account 0 is that of an incoming call, the one the To
\* of the INVITE names or none: which of the two is only asked when the call is
\* ended (DialogTerminate).
AddUa(s, account) ==
    [s EXCEPT !.uas = PutInList(@, Len(s.account) + 1),
              !.account = Append(@, account)]

\* GetUa: a position out of range gives NULL.
GetUa(s, pos) == IF pos + 1 \in DOMAIN s.uas THEN s.uas[pos + 1] ELSE Null

\* FAULT: positions are counted from 1.
GetUaPositionFromOne(s, ua) ==
    IF InList(s.uas, ua) THEN CHOOSE i \in DOMAIN s.uas : s.uas[i] = ua ELSE -1

\* GetUaPosition: counted from 0, and -1 for one that is not listed.
GetUaPosition(s, ua) ==
    IF InList(s.uas, ua) THEN (CHOOSE i \in DOMAIN s.uas : s.uas[i] = ua) - 1
                         ELSE -1

\* NotifyCm: the client process is told of the event and of the position, in
\* the list, of the user agent it is about.
NotifyCm(s, event, ua) ==
    [s EXCEPT !.told = [event |-> event, ua |-> ua,
                        position |-> GetUaPosition(s, ua)]]

-----------------------------------------------------------------------------
(* DialogManager.c, DialogId.c and the Dialog objects *)

EmptyDialogId == [call |-> Nil, local |-> Nil, remote |-> Nil]

FreedDialog ==
    [id |-> EmptyDialogId, state |-> "FREED", transaction |-> Null,
     session |-> FALSE]

\* AddDialog with an empty id, for the user agent just made.
AddDialog(s) ==
    [s EXCEPT !.dialogs = PutInList(@, Len(s.dialog) + 1),
              !.dialog = Append(@, [FreedDialog EXCEPT !.state = "NON_EXIST"])]

GetDialogByUa(s, ua) == IF InList(s.dialogs, ua) THEN ua ELSE Null

\* GetDialog: the dialog at a position of the list.
GetDialog(s, pos) ==
    IF pos + 1 \in DOMAIN s.dialogs THEN s.dialogs[pos + 1] ELSE Null

\* DialogIdMatched.
DialogIdMatched(id1, id2) == id1 = id2

\* GetDialogById: the first dialog with this id.
GetDialogById(s, id) ==
    FirstInList(s.dialogs,
                {d \in DOMAIN s.dialog : DialogIdMatched(s.dialog[d].id, id)})

\* MatchMessage2Dialog: the dialog whose Call-ID, local and remote tag are the
\* Call-ID, To tag and From tag of the message.
MatchMessage2Dialog(s, m) ==
    GetDialogById(s, [call |-> m.call, local |-> m.to, remote |-> m.from])

\* FAULT: the dialogs outlive the user agents.
KeepDialogList(s) == s

\* DestroyDialogList: every dialog is freed, whichever user agent it is of.
DestroyDialogList(s) ==
    [s EXCEPT !.dialogs = <<>>,
              !.dialog = [d \in DOMAIN s.dialog |-> FreedDialog]]

\* DestroyUserAgent frees a user agent, and the dialogs of all of them.
DestroyUserAgent(s, ua) == DestroyDialogList(s)

\* RemoveUa: unlisted, then freed.
RemoveUa(s, ua) == DestroyUserAgent([s EXCEPT !.uas = DelFromList(@, ua)], ua)

-----------------------------------------------------------------------------
(* The Transaction objects, their list and their machines *)

\* _AddTransaction with a transaction in the state INIT.
PutTransaction(s, m, user, type) ==
    [s EXCEPT !.transactions = PutInList(@, Len(s.transaction) + 1),
              !.transaction = Append(@, [type |-> type, state |-> "INIT",
                  request |-> m, user |-> user, latest |-> "none"])]

\* TransactionMatched: the request has this branch and CSeq method.
TransactionMatched(s, t, branch, method) ==
    /\ s.transaction[t].request.branch = branch
    /\ s.transaction[t].request.method = method

\* GetTransaction: the first that matches.
GetTransaction(s, branch, method) ==
    FirstInList(s.transactions, {t \in DOMAIN s.transaction :
                                    TransactionMatched(s, t, branch, method)})

\* MatchRequest: a CANCEL looks for the INVITE it cancels.
MatchRequest(s, m) ==
    GetTransaction(s, m.branch, IF m.method = "CANCEL" THEN "INVITE" ELSE m.method)

\* MatchResponse: a response has the branch and CSeq method of its request.
MatchResponse(s, m) == GetTransaction(s, m.branch, m.method)

\* SendMessage, for a message of transaction t.
SendMessage(s, t, what) == [s EXCEPT !.wire = @ \cup {<<t, what>>}]

\* The method in the CSeq of a final response that transaction t sends.
\* BuildResponse copies the CSeq of the request it is given, which is the
\* transaction's own but for the 487: that is built from the CANCEL.
CSeqMethod(s, t, event) ==
    IF event = "SEND_REQUEST_TERMINATED" THEN "CANCEL"
                                         ELSE s.transaction[t].request.method

\* AddResponse and SendMessage for a response of our own.  The final ones are
\* remembered with the transaction that sent them; the request they answer in
\* the eyes of the peer is that of CSeqMethod.
SendResponse(s, t, event) ==
    LET s1 == SendMessage([s EXCEPT !.transaction[t].latest = event], t, event)
    IN  IF event \in {"SEND_OK", "SEND_REQUEST_TERMINATED"}
        THEN [s1 EXCEPT !.answers = @ \cup {<<t, event>>}] ELSE s1

\* RemoveTerminatedTransaction: the transaction is unlisted and freed.
RemoveTerminatedTransaction(s, t) ==
    IF s.transaction[t].state = "TERMINATED"
    THEN [s EXCEPT !.transactions = DelFromList(@, t)] ELSE s

\* LocateEventEntry for a transaction's current state.
EntriesFor(s, t, event) ==
    LocateEventEntry(s.transaction[t].type, s.transaction[t].state, event)

\* Whether the actions the event runs end with InformTU.
Informs(s, t, event) ==
    \E entry \in EntriesFor(s, t, event) :
        \E i \in DOMAIN entry.actions : entry.actions[i] = "InformTU"

\* The sending actions of an entry.
RunActions(s, t, ran) ==
    CASE "SendRequestMessage" \in ran -> SendMessage(s, t, "request")
      [] "SendAckRequest" \in ran -> SendMessage(s, t, "ACK")
      [] "ResendLatestResponse" \in ran ->
            SendMessage(s, t, s.transaction[t].latest)
      [] "ResponseWith100Trying" \in ran -> SendResponse(s, t, "SEND_TRYING")
      [] OTHER -> s

\* RunFsm up to InformTU, which is always the last action of its entry.
Advance(s, t, event) ==
    LET entries == EntriesFor(s, t, event)
        tr      == s.transaction[t]
    IN  IF entries = {}
        THEN Die(s, IF Unterminated(tr.type, tr.state) THEN "OVERRAN"
                                                       ELSE "ASSERTED")
        ELSE LET entry == CHOOSE e \in entries : TRUE
             IN  RunActions([s EXCEPT !.transaction[t].state = entry.nextState],
                            t, InvokeActions(entry.actions, TRUE))

\* RunFsm for an event that does not inform the user.
RunQuietly(s, t, event) ==
    RemoveTerminatedTransaction(Advance(s, t, event), t)

\* FAULT: the transaction is listed but not started.
AddTransactionUnstarted(s, m, user, type) == PutTransaction(s, m, user, type)

\* AddTransaction: listed, then started.
AddTransaction(s, m, user, type) ==
    RunQuietly(PutTransaction(s, m, user, type), Len(s.transaction) + 1, "INIT")

\* ResponseWith: the response is recorded and sent, then its event run.
ResponseWith(s, t, event) == RunQuietly(SendResponse(s, t, event), t, event)
=============================================================================
