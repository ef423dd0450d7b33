------------------------- MODULE StackMoves_proofs --------------------------
(***************************************************************************)
(* The inductive invariant of a stack between two handlers, Good, and the  *)
(* proof that every handler keeps it: first for the moves that handlers    *)
(* are made of (a machine takes a step, a dialog gets another transaction, *)
(* a user agent is made, a call ends), then for the handlers themselves,   *)
(* of the requests of the peers, of their responses and of the client's    *)
(* commands. Each lemma about a handler also says what becomes of the      *)
(* calls, which SipStack_proofs needs.                                     *)
(***************************************************************************)
EXTENDS StackEffects_proofs

Tr(s) == DOMAIN s.transaction
StateOf(s, t) == s.transaction[t].state
TypeOf(s, t) == s.transaction[t].type
RequestOf(s, t) == s.transaction[t].request
UserOf(s, t) == s.transaction[t].user
Listed(s) == {d \in DOMAIN s.dialog : InList(s.dialogs, d)}

-----------------------------------------------------------------------------
(* The inductive invariant, of a stack between two handlers *)

\* The lists name objects that were made, each once, and so do the objects.
Well(s) ==
    /\ s \in Stacks
    /\ Len(s.account) = Len(s.dialog)
    /\ Lists(s.uas, s.account)
    /\ Lists(s.dialogs, s.dialog)
    /\ Lists(s.transactions, s.transaction)
    /\ \A t \in Tr(s) : UserOf(s, t) \in DOMAIN s.dialog
    /\ \A d \in DOMAIN s.dialog : TransactionOf(s, d) \in 0 .. Len(s.transaction)

\* The states in which a transaction rests, in the program as it is built.
Rests(type, state) ==
    CASE type = "CLIENT_INVITE" ->
           state \in {"CALLING", "PROCEEDING", "COMPLETED", "TERMINATED"}
      [] type = "CLIENT_NON_INVITE" -> state \in {"TRYING", "PROCEEDING", "COMPLETED"}
      [] type = "SERVER_INVITE" -> state \in {"PROCEEDING", "TERMINATED"}
      [] type = "SERVER_NON_INVITE" -> state = "COMPLETED"

\* The request with which transaction t of a type is made.
Begins(t, type, m) ==
    /\ type = "SERVER_INVITE" => \E p \in Calls, b \in Branches : m = Invite(p, b)
    /\ type = "SERVER_NON_INVITE" => m.method \in {"BYE", "CANCEL"} /\ m.branch[1] # "here"
    /\ type \in ClientTypes => m.branch = <<"here", t>> /\ m.from = t /\ m.to = Nil
    /\ type = "CLIENT_INVITE" => m.method = "INVITE" /\ m.call = t
    /\ type = "CLIENT_NON_INVITE" => m.method \in {"REGISTER", "BYE"}

Waits(s, t) == StateOf(s, t) \in {"TRYING", "PROCEEDING"}
Over(s, t) == StateOf(s, t) \in {"COMPLETED", "TERMINATED"}

\* A transaction is listed until it is terminated.
LiveListed(s) ==
    \A t \in Tr(s) : InList(s.transactions, t) <=> StateOf(s, t) # "TERMINATED"
AllRest(s) == \A t \in Tr(s) : Rests(TypeOf(s, t), StateOf(s, t))
AllBegan(s) == \A t \in Tr(s) : Begins(t, TypeOf(s, t), RequestOf(s, t))
OneInvite(s) ==
    \A t, u \in Tr(s) :
        RequestOf(s, t).method = "INVITE" /\ RequestOf(s, u).method = "INVITE"
          /\ UserOf(s, t) = UserOf(s, u) => t = u
OneWaits(s) ==
    \A t, u \in Tr(s) :
        RequestOf(s, t).method = "REGISTER" /\ RequestOf(s, u).method = "REGISTER"
          /\ UserOf(s, t) = UserOf(s, u) /\ Waits(s, t) /\ Waits(s, u) => t = u
AnsweredOnce(s) ==
    \A a \in s.answers :
        /\ a[1] \in Tr(s) /\ a[2] \in {"SEND_OK", "SEND_REQUEST_TERMINATED"}
        /\ TypeOf(s, a[1]) \in ServerTypes /\ Over(s, a[1])
        /\ \A b \in s.answers : a[1] = b[1] => a = b

Machines(s) ==
    /\ LiveListed(s) /\ AllRest(s) /\ AllBegan(s)
    /\ OneInvite(s) /\ OneWaits(s) /\ AnsweredOnce(s)


\* A listed dialog has a listed user agent and a latest transaction of its own.
Linked(s) ==
    \A d \in Listed(s) : /\ InList(s.uas, d) /\ TransactionOf(s, d) \in Tr(s)
                         /\ UserOf(s, TransactionOf(s, d)) = d
\* The latest transaction is an INVITE when there is no other, and a REGISTER
\* among REGISTERs only.
LatestRules(s) ==
    \A d \in Listed(s), t \in Tr(s) :
        LET method == RequestOf(s, TransactionOf(s, d)).method IN
        UserOf(s, t) = d =>
            /\ method = "INVITE" => t = TransactionOf(s, d)
            /\ method = "REGISTER" => RequestOf(s, t).method = "REGISTER"

\* The ids a dialog may have: none yet; that of a call of the peer, with a tag of
\* ours that is one of the dialog's own transactions; that of a call of ours.
Owns(s, d, id) ==
    \/ id = EmptyDialogId
    \/ /\ id.call \in Calls /\ id.remote = id.call
       /\ id.local = Nil \/ (id.local \in Tr(s) /\ UserOf(s, id.local) = d)
    \/ /\ id.call \in Tr(s) /\ id.local = id.call /\ UserOf(s, id.call) = d
       /\ RequestOf(s, id.call).method = "INVITE" /\ id.remote \in {Nil, PeerTag}
OwnIds(s) == \A d \in Listed(s) : Owns(s, d, s.dialog[d].id)
OneId(s) ==
    \A d, e \in Listed(s) :
        s.dialog[d].id = s.dialog[e].id /\ s.dialog[d].id.call # Nil => d = e

\* The dialog of an incoming call is as new as its INVITE is open.
Open(s, d) ==
    LET l == TransactionOf(s, d)
        o == s.dialog[d] IN
    /\ TypeOf(s, l) = "SERVER_INVITE" =>
         /\ o.id.call = RequestOf(s, l).call
         /\ o.state = "NON_EXIST" => StateOf(s, l) = "PROCEEDING" /\ o.id.local = Nil
         /\ StateOf(s, l) = "PROCEEDING" => o.state = "NON_EXIST"
    /\ o.state = "NON_EXIST" /\ o.id.call \in Calls => TypeOf(s, l) = "SERVER_INVITE"
\* An accepted call has the id the peer knows it by.
AcceptedIds(s) ==
    \A t \in Tr(s) :
        /\ RequestOf(s, t).method = "INVITE" /\ <<t, "SEND_OK">> \in s.answers
        /\ UserOf(s, t) \in Listed(s)
        => LET o == s.dialog[UserOf(s, t)]
               m == RequestOf(s, t) IN
           /\ o.id = [call |-> m.call, local |-> t, remote |-> m.from]
           /\ o.state # "NON_EXIST"

\* While the CANCEL of its call is handled, dialog x need not be open.
AgentsBut(s, x) ==
    /\ Linked(s) /\ LatestRules(s) /\ OwnIds(s) /\ OneId(s) /\ AcceptedIds(s)
    /\ \A d \in Listed(s) : d # x => Open(s, d)

GoodBut(s, x) == Well(s) /\ Machines(s) /\ AgentsBut(s, x)
Good(s) == GoodBut(s, Null)

-----------------------------------------------------------------------------
(* How the machines move *)

\* A machine takes a step of its own.
LEMMA StepKeepsMachines ==
    ASSUME NEW s, Well(s), Machines(s), NEW r \in Stacks,
           NEW t \in Tr(s), InList(s.transactions, t),
           NEW next, Stepped(s, r, t, next), Rests(TypeOf(s, t), next),
           r.transactions = IF next = "TERMINATED" THEN DelFromList(s.transactions, t)
                                                  ELSE s.transactions,
           Over(s, t) => next \in {"COMPLETED", "TERMINATED"},
           RequestOf(s, t).method = "REGISTER" /\ next \in {"TRYING", "PROCEEDING"} => Waits(s, t),
           NEW event \in {"SEND_OK", "SEND_REQUEST_TERMINATED"},
           \/ r.answers = s.answers
           \/ /\ r.answers = s.answers \cup {<<t, event>>}
              /\ TypeOf(s, t) \in ServerTypes /\ ~Over(s, t)
              /\ next \in {"COMPLETED", "TERMINATED"}
    PROVE  Machines(r) /\ Lists(r.transactions, r.transaction)
<1>1. /\ Tr(r) = Tr(s) /\ s \in Stacks
      /\ \A u \in Tr(s) : /\ TypeOf(r, u) = TypeOf(s, u)
                          /\ RequestOf(r, u) = RequestOf(s, u)
                          /\ UserOf(r, u) = UserOf(s, u)
                          /\ StateOf(r, u) = IF u = t THEN next ELSE StateOf(s, u)
  BY TransactionDomain DEF Stepped, SameMaking, Tr, TypeOf, RequestOf, UserOf, StateOf, Well
<1>2. /\ NoTwice(s.transactions)
      /\ \A u : InList(s.transactions, u) => u \in Tr(s)
  BY DEF Well, Lists, NoTwice, InList, Tr
<1>3. s.transactions \in Seq(Nat)
  BY <1>1 DEF Stacks
<1>4. /\ NoTwice(r.transactions)
      /\ \A u : InList(r.transactions, u) <=>
                   (InList(s.transactions, u) /\ ~(u = t /\ next = "TERMINATED"))
  BY <1>2, <1>3, DelFromListEffect
<1>5. LiveListed(r)
  BY <1>1, <1>4 DEF Machines, LiveListed
<1>6. AllRest(r) /\ AllBegan(r) /\ OneInvite(r)
  BY <1>1 DEF Machines, AllRest, AllBegan, OneInvite
<1>7. OneWaits(r)
  BY <1>1 DEF Machines, OneWaits, Waits
<1>8. AnsweredOnce(r)
  <2>1. \A a \in s.answers :
          /\ a[1] \in Tr(r) /\ a[2] \in {"SEND_OK", "SEND_REQUEST_TERMINATED"}
          /\ TypeOf(r, a[1]) \in ServerTypes /\ Over(r, a[1])
          /\ \A b \in s.answers : a[1] = b[1] => a = b
    BY <1>1 DEF Machines, AnsweredOnce, Over
  <2>2. CASE r.answers = s.answers
    BY <2>1, <2>2 DEF AnsweredOnce
  <2>3. CASE /\ r.answers = s.answers \cup {<<t, event>>}
             /\ TypeOf(s, t) \in ServerTypes /\ ~Over(s, t)
             /\ next \in {"COMPLETED", "TERMINATED"}
    <3>1. \A a \in s.answers : a[1] # t
      BY <2>3 DEF Machines, AnsweredOnce
    <3>2. TypeOf(r, t) \in ServerTypes /\ Over(r, t)
      BY <1>1, <2>3 DEF Over
    <3> QED BY <1>1, <2>1, <2>3, <3>1, <3>2 DEF AnsweredOnce
  <2> QED BY <2>2, <2>3
<1>9. Lists(r.transactions, r.transaction)
  BY <1>1, <1>2, <1>4 DEF Lists, NoTwice, InList, Tr
<1> QED BY <1>5, <1>6, <1>7, <1>8, <1>9 DEF Machines

\* A transaction is made.
LEMMA AppendKeepsMachines ==
    ASSUME NEW s, Well(s), Machines(s), NEW r \in Stacks,
           NEW m, NEW user, NEW type, NEW state, Appended(s, r, m, user, type, state),
           Rests(type, state), state # "TERMINATED",
           Begins(Len(s.transaction) + 1, type, m),
           r.transactions = PutInList(s.transactions, Len(s.transaction) + 1),
           m.method = "INVITE" =>
              \A t \in Tr(s) : RequestOf(s, t).method = "INVITE" => UserOf(s, t) # user,
           m.method = "REGISTER" =>
              \A t \in Tr(s) : RequestOf(s, t).method = "REGISTER" /\ Waits(s, t)
                                 => UserOf(s, t) # user,
           \/ r.answers = s.answers
           \/ /\ r.answers = s.answers \cup {<<Len(s.transaction) + 1, "SEND_OK">>}
              /\ type \in ServerTypes /\ state = "COMPLETED"
    PROVE  Machines(r) /\ Lists(r.transactions, r.transaction)
<1> DEFINE k == Len(s.transaction) + 1
<1>1. /\ Tr(r) = Tr(s) \cup {k} /\ k \notin Tr(s) /\ s \in Stacks /\ k \in Nat
      /\ \A u \in Tr(s) : /\ TypeOf(r, u) = TypeOf(s, u)
                          /\ RequestOf(r, u) = RequestOf(s, u)
                          /\ UserOf(r, u) = UserOf(s, u)
                          /\ StateOf(r, u) = StateOf(s, u)
      /\ TypeOf(r, k) = type /\ RequestOf(r, k) = m /\ UserOf(r, k) = user
      /\ StateOf(r, k) = state
  BY TransactionDomain DEF Appended, SameMaking, Tr, TypeOf, RequestOf, UserOf, StateOf, Well
<1>2. /\ NoTwice(s.transactions)
      /\ \A u : InList(s.transactions, u) => u \in Tr(s)
  BY DEF Well, Lists, NoTwice, InList, Tr
<1>3. s.transactions \in Seq(Nat)
  BY <1>1 DEF Stacks
<1>3a. r.transactions = PutInList(s.transactions, k)
  OBVIOUS
<1>4. /\ NoTwice(r.transactions)
      /\ \A u : InList(r.transactions, u) <=> (InList(s.transactions, u) \/ u = k)
  <2> HIDE DEF k
  <2>1. ~InList(s.transactions, k) /\ k \in Nat
    BY <1>1, <1>2
  <2>2. /\ \A u : InList(PutInList(s.transactions, k), u) <=> InList(s.transactions, u) \/ u = k
        /\ NoTwice(PutInList(s.transactions, k))
    BY <1>2, <1>3, <2>1, PutInListEffect
  <2> QED BY <1>3a, <2>2
<1>4a. \/ r.answers = s.answers
       \/ /\ r.answers = s.answers \cup {<<k, "SEND_OK">>}
          /\ type \in ServerTypes /\ state = "COMPLETED"
  OBVIOUS
<1>4b. Begins(k, type, m)
  OBVIOUS
<1> HIDE DEF k
<1>5. LiveListed(r)
  BY <1>1, <1>2, <1>4 DEF Machines, LiveListed
<1>6. AllRest(r) /\ AllBegan(r)
  BY <1>1, <1>4b DEF Machines, AllRest, AllBegan
<1>6a. OneInvite(r)
  BY <1>1 DEF Machines, OneInvite
<1>7. OneWaits(r)
  BY <1>1 DEF Machines, OneWaits, Waits
<1>8. AnsweredOnce(r)
  <2>1. \A a \in s.answers :
          /\ a[1] \in Tr(r) /\ a[2] \in {"SEND_OK", "SEND_REQUEST_TERMINATED"}
          /\ TypeOf(r, a[1]) \in ServerTypes /\ Over(r, a[1]) /\ a[1] # k
          /\ \A b \in s.answers : a[1] = b[1] => a = b
    BY <1>1 DEF Machines, AnsweredOnce, Over
  <2>2. CASE r.answers = s.answers
    BY <2>1, <2>2 DEF AnsweredOnce
  <2>3. CASE /\ r.answers = s.answers \cup {<<k, "SEND_OK">>}
             /\ type \in ServerTypes /\ state = "COMPLETED"
    <3>2. TypeOf(r, k) \in ServerTypes /\ Over(r, k)
      BY <1>1, <2>3 DEF Over
    <3> QED BY <1>1, <2>1, <2>3, <3>2 DEF AnsweredOnce
  <2> QED BY <1>4a, <2>2, <2>3
<1>9. Lists(r.transactions, r.transaction)
  BY <1>1, <1>2, <1>4 DEF Lists, NoTwice, InList, Tr
<1> QED BY <1>5, <1>6, <1>6a, <1>7, <1>8, <1>9 DEF Machines

-----------------------------------------------------------------------------
(* How the whole stack moves *)

\* The texts of the peers are none of ours.
LEMMA NamesApart ==
    /\ \A p \in Calls : p # Nil /\ p # PeerTag /\ p \notin Nat /\ p # "here" /\ p # "bye"
    /\ Nil \notin Nat /\ PeerTag \notin Nat /\ Nil # PeerTag
BY NamesAssumption

\* The parts of a stack after a step of one machine.
LEMMA SteppedParts ==
    ASSUME NEW s \in Stacks, NEW r, NEW t, NEW next, Stepped(s, r, t, next)
    PROVE  /\ Tr(r) = Tr(s)
           /\ \A u \in Tr(s) : /\ TypeOf(r, u) = TypeOf(s, u)
                               /\ RequestOf(r, u) = RequestOf(s, u)
                               /\ UserOf(r, u) = UserOf(s, u)
                               /\ StateOf(r, u) = IF u = t THEN next ELSE StateOf(s, u)
BY TransactionDomain DEF Stepped, SameMaking, Tr, TypeOf, RequestOf, UserOf, StateOf

\* The parts of a stack after a transaction was made.
LEMMA AppendedParts ==
    ASSUME NEW s \in Stacks, NEW r, NEW m, NEW user, NEW type, NEW state,
           Appended(s, r, m, user, type, state)
    PROVE  LET k == Len(s.transaction) + 1 IN
           /\ Tr(r) = Tr(s) \cup {k} /\ k \notin Tr(s) /\ k \in Nat
           /\ \A u \in Tr(s) : /\ TypeOf(r, u) = TypeOf(s, u)
                               /\ RequestOf(r, u) = RequestOf(s, u)
                               /\ UserOf(r, u) = UserOf(s, u)
                               /\ StateOf(r, u) = StateOf(s, u)
           /\ TypeOf(r, k) = type /\ RequestOf(r, k) = m /\ UserOf(r, k) = user
           /\ StateOf(r, k) = state
BY TransactionDomain DEF Appended, SameMaking, Tr, TypeOf, RequestOf, UserOf, StateOf

\* The parts of a stack after one dialog was changed.
LEMMA SameDialogsParts ==
    ASSUME NEW s \in Stacks, NEW r, NEW d, SameDialogsBut(s, r, d)
    PROVE  /\ DOMAIN r.dialog = DOMAIN s.dialog /\ Listed(r) = Listed(s)
           /\ r.uas = s.uas
           /\ \A e \in DOMAIN s.dialog : e # d =>
                r.dialog[e] = s.dialog[e] /\ TransactionOf(r, e) = TransactionOf(s, e)
BY DialogDomain DEF SameDialogsBut, Listed, TransactionOf

\* A list behind which a number was put.
LEMMA PutListed ==
    ASSUME NEW list \in Seq(Nat), NEW n \in Nat, NEW longer,
           longer = PutInList(list, n)
    PROVE  /\ \A u : InList(longer, u) <=> (InList(list, u) \/ u = n)
           /\ NoTwice(list) /\ ~InList(list, n) => NoTwice(longer)
BY PutInListEffect

\* A step of a machine that leaves the dialogs alone.
LEMMA QuietMove ==
    ASSUME NEW s, Well(s), Machines(s), NEW x, AgentsBut(s, Null), NEW r \in Stacks,
           SameAgents(s, r),
           NEW t \in Tr(s), InList(s.transactions, t),
           NEW next, Stepped(s, r, t, next), Rests(TypeOf(s, t), next),
           r.transactions = IF next = "TERMINATED" THEN DelFromList(s.transactions, t)
                                                  ELSE s.transactions,
           Over(s, t) => next \in {"COMPLETED", "TERMINATED"},
           RequestOf(s, t).method = "REGISTER" /\ next \in {"TRYING", "PROCEEDING"} => Waits(s, t),
           TypeOf(s, t) = "SERVER_INVITE" => next = StateOf(s, t) \/ x = UserOf(s, t),
           \/ r.answers = s.answers
           \/ /\ r.answers = s.answers \cup {<<t, "SEND_REQUEST_TERMINATED">>}
              /\ TypeOf(s, t) \in ServerTypes /\ ~Over(s, t)
              /\ next \in {"COMPLETED", "TERMINATED"}
    PROVE  GoodBut(r, x)
<1>1. Machines(r) /\ Lists(r.transactions, r.transaction)
  BY StepKeepsMachines
<1>2. s \in Stacks
  BY DEF Well
<1>3. /\ Tr(r) = Tr(s)
      /\ \A u \in Tr(s) : /\ TypeOf(r, u) = TypeOf(s, u)
                          /\ RequestOf(r, u) = RequestOf(s, u)
                          /\ UserOf(r, u) = UserOf(s, u)
                          /\ StateOf(r, u) = IF u = t THEN next ELSE StateOf(s, u)
  BY <1>2, SteppedParts
<1>4. /\ r.uas = s.uas /\ r.account = s.account /\ r.dialogs = s.dialogs
      /\ r.dialog = s.dialog /\ Listed(r) = Listed(s)
      /\ \A d : TransactionOf(r, d) = TransactionOf(s, d)
  BY DEF SameAgents, Listed, TransactionOf
<1>5. Well(r)
  <2>1. Len(r.transaction) = Len(s.transaction)
    BY DEF Stepped
  <2> QED BY <1>1, <1>3, <1>4, <2>1 DEF Well
<1>6. Linked(r) /\ LatestRules(r)
  BY <1>3, <1>4 DEF AgentsBut, Linked, LatestRules
<1>7. OwnIds(r) /\ OneId(r)
  BY <1>3, <1>4 DEF AgentsBut, OwnIds, Owns, OneId
<1>8. AcceptedIds(r)
  BY <1>3, <1>4 DEF AgentsBut, AcceptedIds
<1>9. \A d \in Listed(r) : d # x => Open(r, d)
  <2> SUFFICES ASSUME NEW d \in Listed(r), d # x PROVE Open(r, d)
    OBVIOUS
  <2>1. Open(s, d) /\ TransactionOf(s, d) \in Tr(s) /\ UserOf(s, TransactionOf(s, d)) = d
    <3>1. d # Null
      BY <1>2, <1>4, DialogDomain DEF Listed, Null
    <3> QED BY <1>4, <3>1 DEF AgentsBut, Linked
  <2>2. TypeOf(s, TransactionOf(s, d)) = "SERVER_INVITE" =>
          StateOf(r, TransactionOf(s, d)) = StateOf(s, TransactionOf(s, d))
    BY <1>3, <2>1
  <2> QED BY <1>3, <1>4, <2>1, <2>2 DEF Open
<1> QED BY <1>1, <1>5, <1>6, <1>7, <1>8, <1>9 DEF GoodBut, AgentsBut

\* A user agent is made for a call of the peer, a call of ours or a REGISTER.
LEMMA AgentMove ==
    ASSUME NEW s, Good(s), NEW account \in Nat, NEW m, NEW type, NEW r,
           AgentMade(s, r, account, m, type),
           type \in {"SERVER_INVITE", "CLIENT_INVITE", "CLIENT_NON_INVITE"},
           Begins(Len(s.transaction) + 1, type, m),
           type = "CLIENT_NON_INVITE" => m.method = "REGISTER",
           type = "SERVER_INVITE" => MatchMessage2Dialog(s, m) = Null
    PROVE  Good(r)
<1> DEFINE n == Fresh(s)
           k == Len(s.transaction) + 1
<1>1. s \in Stacks /\ Well(s) /\ Machines(s) /\ AgentsBut(s, Null)
  BY DEF Good, GoodBut, Well
<1>2. /\ r \in Stacks /\ r.uas = PutInList(s.uas, n)
      /\ r.account = Append(s.account, account)
      /\ r.dialogs = PutInList(s.dialogs, n) /\ Len(r.dialog) = n
      /\ \A e \in DOMAIN s.dialog : r.dialog[e] = s.dialog[e]
      /\ r.dialog[n].id = IdAfter(type, m, EmptyDialogId)
      /\ r.dialog[n].state = "NON_EXIST"
      /\ r.dialog[n].transaction = k
      /\ r.answers = s.answers
      /\ r.transactions = PutInList(s.transactions, k)
      /\ Appended(s, r, m, n, type, FirstState(type))
  BY DEF AgentMade, Started
<1>3. /\ n \in Nat /\ n \notin DOMAIN s.dialog /\ DOMAIN r.dialog = DOMAIN s.dialog \cup {n}
      /\ n = Len(s.dialog) + 1 /\ DOMAIN s.dialog = 1 .. Len(s.dialog) /\ Len(s.dialog) \in Nat
      /\ n # Null
  BY <1>1, <1>2, DialogDomain DEF Fresh, Null
<1>4. /\ Rests(type, FirstState(type)) /\ FirstState(type) # "TERMINATED"
      /\ type = "SERVER_INVITE" => FirstState(type) = "PROCEEDING"
  BY DEF Rests, FirstState
<1>5. \A t \in Tr(s) : UserOf(s, t) # n /\ UserOf(s, t) \in DOMAIN s.dialog
  BY <1>1, <1>3 DEF Well
<1>6. Machines(r) /\ Lists(r.transactions, r.transaction)
  BY <1>1, <1>2, <1>4, <1>5, AppendKeepsMachines
<1>7. /\ Tr(r) = Tr(s) \cup {k} /\ k \notin Tr(s) /\ k \in Nat
      /\ \A u \in Tr(s) : /\ TypeOf(r, u) = TypeOf(s, u)
                          /\ RequestOf(r, u) = RequestOf(s, u)
                          /\ UserOf(r, u) = UserOf(s, u)
                          /\ StateOf(r, u) = StateOf(s, u)
      /\ TypeOf(r, k) = type /\ RequestOf(r, k) = m /\ UserOf(r, k) = n
      /\ StateOf(r, k) = FirstState(type)
  BY <1>1, <1>2, AppendedParts
<1>8. Len(r.transaction) = Len(s.transaction) + 1 /\ Len(s.transaction) \in Nat
  BY <1>1, <1>2, TransactionDomain DEF Appended
<1>9. Begins(k, type, m)
  OBVIOUS
<1>10. \A p \in Calls : p # Nil /\ p \notin Nat
  BY NamesApart
<1> DEFINE id == IdAfter(type, m, EmptyDialogId)
<1>11. /\ type = "SERVER_INVITE" =>
            id = [call |-> m.call, local |-> Nil, remote |-> m.from] /\ m.call \in Calls
              /\ m.from = m.call /\ m.to = Nil
       /\ type = "CLIENT_INVITE" => id = [call |-> k, local |-> k, remote |-> Nil]
       /\ type = "CLIENT_NON_INVITE" => id = EmptyDialogId
  <2>1. CASE type = "SERVER_INVITE"
    <3>1. PICK p \in Calls, b \in Branches : m = Invite(p, b)
      BY <2>1, <1>9 DEF Begins
    <3>2. m.call = p /\ m.from = p /\ m.to = Nil
      BY <3>1 DEF Invite, Request
    <3>3. id = [EmptyDialogId EXCEPT !.remote = m.from, !.call = m.call]
      BY <2>1 DEF IdAfter
    <3> HIDE DEF id
    <3> QED BY <2>1, <3>2, <3>3 DEF EmptyDialogId
  <2>2. CASE type = "CLIENT_INVITE"
    <3>1. m.from = k /\ m.call = k
      BY <2>2, <1>9 DEF Begins, ClientTypes
    <3>2. id = [EmptyDialogId EXCEPT !.local = m.from, !.call = m.call]
      BY <2>2 DEF IdAfter
    <3> HIDE DEF id, k
    <3> QED BY <2>2, <3>1, <3>2 DEF EmptyDialogId
  <2>3. CASE type = "CLIENT_NON_INVITE"
    BY <2>3 DEF IdAfter
  <2> QED BY <2>1, <2>2, <2>3
<1>11a. m.method = IF type = "CLIENT_NON_INVITE" THEN "REGISTER" ELSE "INVITE"
  BY <1>9 DEF Begins, Invite, Request
<1>12. r.dialog[n].id = id
  BY <1>2
<1> HIDE DEF k, n, id
<1>13. Well(r)
  <2>1. Len(r.account) = Len(r.dialog) /\ DOMAIN r.account = DOMAIN s.account \cup {n}
    <3>1. s.account \in Seq(Nat) /\ Len(s.account) = Len(s.dialog)
      BY <1>1 DEF Stacks, Well
    <3> QED BY <1>2, <1>3, <3>1, SMTT(30)
  <2>2. NoTwice(s.uas) /\ (\A u : InList(s.uas, u) => u \in DOMAIN s.account)
        /\ NoTwice(s.dialogs) /\ (\A u : InList(s.dialogs, u) => u \in DOMAIN s.dialog)
        /\ s.uas \in Seq(Nat) /\ s.dialogs \in Seq(Nat)
    BY <1>1 DEF Well, Lists, NoTwice, InList, Stacks
  <2>3. ~InList(s.uas, n) /\ ~InList(s.dialogs, n)
    <3>1. DOMAIN s.account = DOMAIN s.dialog
      BY <1>1, <1>3 DEF Well, Stacks
    <3> QED BY <2>2, <3>1, <1>3
  <2>4. NoTwice(r.uas) /\ (\A u : InList(r.uas, u) <=> (InList(s.uas, u) \/ u = n))
    <3>1. r.uas = PutInList(s.uas, n) /\ n \in Nat
      BY <1>2, <1>3
    <3> QED BY <2>2, <2>3, <3>1, PutListed
  <2>5. NoTwice(r.dialogs) /\ (\A u : InList(r.dialogs, u) <=> (InList(s.dialogs, u) \/ u = n))
    <3>1. r.dialogs = PutInList(s.dialogs, n) /\ n \in Nat
      BY <1>2, <1>3
    <3> QED BY <2>2, <2>3, <3>1, PutListed
  <2>6. Lists(r.uas, r.account)
    BY <2>1, <2>2, <2>4 DEF Lists, NoTwice, InList
  <2>7. Lists(r.dialogs, r.dialog)
    BY <1>3, <2>2, <2>5 DEF Lists, NoTwice, InList
  <2>8. \A t \in Tr(r) : UserOf(r, t) \in DOMAIN r.dialog
    BY <1>3, <1>5, <1>7
  <2>9. \A d \in DOMAIN r.dialog : TransactionOf(r, d) \in 0 .. Len(r.transaction)
    <3>1. \A d \in DOMAIN s.dialog : TransactionOf(s, d) \in 0 .. Len(s.transaction)
      BY <1>1 DEF Well
    <3>2. \A d \in DOMAIN s.dialog : TransactionOf(r, d) = TransactionOf(s, d)
      BY <1>2 DEF TransactionOf
    <3>3. TransactionOf(r, n) = Len(r.transaction)
      BY <1>2, <1>8 DEF TransactionOf, k
    <3> QED BY <1>3, <1>8, <3>1, <3>2, <3>3
  <2> QED BY <1>2, <1>6, <2>1, <2>6, <2>7, <2>8, <2>9 DEF Well
<1>14. /\ Listed(r) = Listed(s) \cup {n} /\ n \notin Listed(s)
       /\ \A d \in Listed(s) : r.dialog[d] = s.dialog[d] /\ TransactionOf(r, d) = TransactionOf(s, d)
       /\ TransactionOf(r, n) = k
  <2>1. \A u : InList(r.dialogs, u) <=> (InList(s.dialogs, u) \/ u = n)
    <3>1. s.dialogs \in Seq(Nat) /\ n \in Nat /\ r.dialogs = PutInList(s.dialogs, n)
      BY <1>1, <1>2, <1>3 DEF Stacks
    <3> QED BY <3>1, PutListed
  <2>2. \A u : InList(s.dialogs, u) => u \in DOMAIN s.dialog
    BY <1>1 DEF Well, Lists, InList
  <2> QED BY <1>2, <1>3, <2>1, <2>2 DEF Listed, TransactionOf
<1>15. Linked(r)
  <2>1. \A u : InList(r.uas, u) <=> (InList(s.uas, u) \/ u = n)
    <3>1. s.uas \in Seq(Nat) /\ n \in Nat /\ r.uas = PutInList(s.uas, n)
      BY <1>1, <1>2, <1>3 DEF Stacks
    <3> QED BY <3>1, PutListed
  <2> QED BY <1>1, <1>7, <1>14, <2>1 DEF AgentsBut, Linked
<1>16. LatestRules(r)
  <2>1. \A t \in Tr(r) : UserOf(r, t) = n => t = k
    BY <1>5, <1>7
  <2>2. \A d \in Listed(s) : TransactionOf(s, d) \in Tr(s) /\ d # n
    BY <1>1, <1>14 DEF AgentsBut, Linked
  <2>3. \A d \in Listed(s) : \A t \in Tr(r) : UserOf(r, t) = d => t \in Tr(s)
    BY <1>7, <2>2
  <2> QED BY <1>1, <1>7, <1>14, <2>1, <2>2, <2>3 DEF AgentsBut, LatestRules
<1>17. OwnIds(r)
  <2>1. Owns(r, n, id)
    BY <1>7, <1>11, <1>11a DEF Owns
  <2>2. \A d \in Listed(s) : Owns(s, d, s.dialog[d].id)
    BY <1>1 DEF AgentsBut, OwnIds
  <2>3. \A d \in Listed(s) : Owns(r, d, s.dialog[d].id)
    BY <2>2, <1>7 DEF Owns
  <2> QED BY <1>12, <1>14, <2>1, <2>3 DEF OwnIds
<1>18. OneId(r)
  <2>1. \A d \in Listed(s) : s.dialog[d].id = id => id.call = Nil
    <3> SUFFICES ASSUME NEW d \in Listed(s), s.dialog[d].id = id, id.call # Nil PROVE FALSE
      OBVIOUS
    <3>1. Owns(s, d, id)
      BY <1>1 DEF AgentsBut, OwnIds
    <3>2. CASE type = "SERVER_INVITE"
      BY <1>1, <1>11, <3>2, MatchMessage2DialogEffect DEF Listed
    <3>3. CASE type = "CLIENT_INVITE"
      BY <1>7, <1>10, <1>11, <3>1, <3>3 DEF Owns, EmptyDialogId
    <3>4. CASE type = "CLIENT_NON_INVITE"
      BY <1>11, <3>4 DEF EmptyDialogId
    <3> QED BY <3>2, <3>3, <3>4
  <2> QED BY <1>1, <1>12, <1>14, <2>1 DEF AgentsBut, OneId
<1>19. AcceptedIds(r)
  <2>1. <<k, "SEND_OK">> \notin s.answers
    BY <1>1, <1>7 DEF Machines, AnsweredOnce
  <2>2. \A t \in Tr(s) : UserOf(s, t) # n
    BY <1>5
  <2> QED BY <1>1, <1>2, <1>7, <1>14, <2>1, <2>2 DEF AgentsBut, AcceptedIds
<1>20. \A d \in Listed(r) : d # Null => Open(r, d)
  <2>1. Open(r, n)
    BY <1>2, <1>4, <1>7, <1>10, <1>11, <1>12, <1>14 DEF Open, EmptyDialogId
  <2>2. \A d \in Listed(s) : d # Null => Open(s, d) /\ TransactionOf(s, d) \in Tr(s)
    BY <1>1 DEF AgentsBut, Linked
  <2>3. \A d \in Listed(s) : d # Null => Open(r, d)
    BY <1>7, <1>14, <2>2 DEF Open
  <2> QED BY <1>14, <2>1, <2>3
<1> QED BY <1>6, <1>13, <1>15, <1>16, <1>17, <1>18, <1>19, <1>20 DEF Good, GoodBut, AgentsBut

\* A dialog that exists gets another transaction, of a request within it.
Within(s, r, d, m, type, state) ==
    /\ r \in Stacks /\ SameDialogsBut(s, r, d)
    /\ TransactionOf(r, d) = Len(s.transaction) + 1
    /\ Appended(s, r, m, d, type, state)
    /\ Rests(type, state) /\ state # "TERMINATED"
    /\ Begins(Len(s.transaction) + 1, type, m)
    /\ r.transactions = PutInList(s.transactions, Len(s.transaction) + 1)
    /\ m.method # "INVITE"
    /\ m.method = "REGISTER" =>
         /\ RequestOf(s, TransactionOf(s, d)).method = "REGISTER"
         /\ \A t \in Tr(s) : RequestOf(s, t).method = "REGISTER" /\ Waits(s, t)
                               => UserOf(s, t) # d
    /\ \/ r.answers = s.answers
       \/ /\ r.answers = s.answers \cup {<<Len(s.transaction) + 1, "SEND_OK">>}
          /\ type \in ServerTypes /\ state = "COMPLETED"

\* The machines and the lists stay as they have to be.
LEMMA WithinKeeps ==
    ASSUME NEW s, NEW x, GoodBut(s, x), NEW d \in Listed(s), NEW r, NEW m, NEW type,
           NEW state, Within(s, r, d, m, type, state)
    PROVE  /\ Machines(r) /\ Well(r) /\ Linked(r) /\ LatestRules(r)
           /\ Listed(r) = Listed(s)
           /\ \A e \in Listed(s) : e # d => (Open(s, e) => Open(r, e))
           /\ \A t \in Tr(r) : RequestOf(r, t).method = "INVITE" /\ <<t, "SEND_OK">> \in r.answers
                => t \in Tr(s) /\ <<t, "SEND_OK">> \in s.answers
           /\ \A e \in Listed(s) : \A id : Owns(s, e, id) => Owns(r, e, id)
<1> DEFINE k == Len(s.transaction) + 1
<1>1. s \in Stacks /\ Well(s) /\ Machines(s) /\ AgentsBut(s, x)
  BY DEF GoodBut, Well
<1>2. /\ r \in Stacks /\ SameDialogsBut(s, r, d) /\ TransactionOf(r, d) = k
      /\ Appended(s, r, m, d, type, state)
      /\ Rests(type, state) /\ state # "TERMINATED" /\ Begins(k, type, m)
      /\ r.transactions = PutInList(s.transactions, k)
      /\ m.method # "INVITE"
      /\ m.method = "REGISTER" =>
           /\ RequestOf(s, TransactionOf(s, d)).method = "REGISTER"
           /\ \A t \in Tr(s) : RequestOf(s, t).method = "REGISTER" /\ Waits(s, t)
                                 => UserOf(s, t) # d
      /\ \/ r.answers = s.answers
         \/ /\ r.answers = s.answers \cup {<<k, "SEND_OK">>}
            /\ type \in ServerTypes /\ state = "COMPLETED"
  BY DEF Within
<1>3. Machines(r) /\ Lists(r.transactions, r.transaction)
  BY <1>1, <1>2, AppendKeepsMachines
<1>4. /\ Tr(r) = Tr(s) \cup {k} /\ k \notin Tr(s) /\ k \in Nat
      /\ \A u \in Tr(s) : /\ TypeOf(r, u) = TypeOf(s, u)
                          /\ RequestOf(r, u) = RequestOf(s, u)
                          /\ UserOf(r, u) = UserOf(s, u)
                          /\ StateOf(r, u) = StateOf(s, u)
      /\ TypeOf(r, k) = type /\ RequestOf(r, k) = m /\ UserOf(r, k) = d
      /\ StateOf(r, k) = state
  BY <1>1, <1>2, AppendedParts
<1>5. /\ DOMAIN r.dialog = DOMAIN s.dialog /\ Listed(r) = Listed(s)
      /\ r.uas = s.uas /\ r.account = s.account /\ r.dialogs = s.dialogs
      /\ Len(r.dialog) = Len(s.dialog)
      /\ \A e \in DOMAIN s.dialog : e # d =>
           r.dialog[e] = s.dialog[e] /\ TransactionOf(r, e) = TransactionOf(s, e)
  BY <1>1, <1>2, SameDialogsParts DEF SameDialogsBut
<1>6. Len(r.transaction) = Len(s.transaction) + 1 /\ Len(s.transaction) \in Nat
  BY <1>1, <1>2, TransactionDomain DEF Appended
<1>7. d \in DOMAIN s.dialog /\ \A e \in Listed(s) : e \in DOMAIN s.dialog
  BY DEF Listed
<1>8. Well(r)
  <2>1. \A e \in DOMAIN s.dialog : TransactionOf(s, e) \in 0 .. Len(s.transaction)
    BY <1>1 DEF Well
  <2>2. \A e \in DOMAIN r.dialog : TransactionOf(r, e) \in 0 .. Len(r.transaction)
    BY <1>2, <1>5, <1>6, <2>1
  <2>3. Len(s.account) = Len(s.dialog) /\ Lists(s.uas, s.account) /\ Lists(s.dialogs, s.dialog)
    BY <1>1 DEF Well
  <2>4. Lists(r.dialogs, r.dialog)
    BY <1>5, <2>3 DEF Lists
  <2>5. \A t \in Tr(r) : UserOf(r, t) \in DOMAIN r.dialog
    BY <1>1, <1>4, <1>5, <1>7 DEF Well
  <2> QED BY <1>2, <1>3, <1>5, <2>2, <2>3, <2>4, <2>5 DEF Well
<1> HIDE DEF k
<1>9. Linked(r)
  BY <1>1, <1>2, <1>4, <1>5, <1>7 DEF AgentsBut, Linked
<1>10. LatestRules(r)
  <2>1. \A e \in Listed(s) : TransactionOf(s, e) \in Tr(s)
    BY <1>1 DEF AgentsBut, Linked
  <2>2. \A e \in Listed(s), t \in Tr(s) :
          LET method == RequestOf(s, TransactionOf(s, e)).method IN
          UserOf(s, t) = e => /\ method = "INVITE" => t = TransactionOf(s, e)
                              /\ method = "REGISTER" => RequestOf(s, t).method = "REGISTER"
    BY <1>1 DEF AgentsBut, LatestRules
  <2>3. \A t \in Tr(r) : UserOf(r, t) = d /\ m.method = "REGISTER"
                           => RequestOf(r, t).method = "REGISTER"
    BY <1>2, <1>4, <2>2
  <2>4. \A e \in Listed(s), t \in Tr(r) : e # d /\ UserOf(r, t) = e =>
            t \in Tr(s) /\ UserOf(s, t) = e
    BY <1>4
  <2> SUFFICES ASSUME NEW e \in Listed(s), NEW t \in Tr(r), UserOf(r, t) = e
               PROVE  LET method == RequestOf(r, TransactionOf(r, e)).method IN
                      /\ method = "INVITE" => t = TransactionOf(r, e)
                      /\ method = "REGISTER" => RequestOf(r, t).method = "REGISTER"
    BY <1>5 DEF LatestRules
  <2>5. CASE e = d
    BY <1>2, <1>4, <2>3, <2>5
  <2>6. CASE e # d
    BY <1>4, <1>5, <1>7, <2>1, <2>2, <2>4, <2>6
  <2> QED BY <2>5, <2>6
<1>11. \A e \in Listed(s) : e # d => (Open(s, e) => Open(r, e))
  <2>1. \A e \in Listed(s) : TransactionOf(s, e) \in Tr(s)
    BY <1>1 DEF AgentsBut, Linked
  <2> QED BY <1>4, <1>5, <1>7, <2>1 DEF Open
<1>12. \A t \in Tr(r) : RequestOf(r, t).method = "INVITE" /\ <<t, "SEND_OK">> \in r.answers
                => t \in Tr(s) /\ <<t, "SEND_OK">> \in s.answers
  BY <1>2, <1>4
<1>13. \A e \in Listed(s) : \A id : Owns(s, e, id) => Owns(r, e, id)
  BY <1>4 DEF Owns
<1> QED BY <1>3, <1>5, <1>8, <1>9, <1>10, <1>11, <1>12, <1>13

\* A request of our own is sent within a dialog.
LEMMA RequestMove ==
    ASSUME NEW s, Good(s), NEW d \in Listed(s), NEW r, NEW m,
           Within(s, r, d, m, "CLIENT_NON_INVITE", "TRYING"), r.answers = s.answers,
           r.dialog[d].id = s.dialog[d].id,
           \/ m.method = "REGISTER" /\ r.dialog[d].state = s.dialog[d].state
           \/ m.method = "BYE" /\ r.dialog[d].state = "TERMINATED"
    PROVE  Good(r)
<1>1. s \in Stacks /\ AgentsBut(s, Null) /\ GoodBut(s, Null)
  BY DEF Good, GoodBut, Well
<1>2. /\ Machines(r) /\ Well(r) /\ Linked(r) /\ LatestRules(r)
      /\ Listed(r) = Listed(s)
      /\ \A e \in Listed(s) : e # d => (Open(s, e) => Open(r, e))
      /\ \A t \in Tr(r) : RequestOf(r, t).method = "INVITE" /\ <<t, "SEND_OK">> \in r.answers
           => t \in Tr(s) /\ <<t, "SEND_OK">> \in s.answers
      /\ \A e \in Listed(s) : \A id : Owns(s, e, id) => Owns(r, e, id)
  BY <1>1, WithinKeeps
<1>3. /\ \A e \in Listed(s) : r.dialog[e].id = s.dialog[e].id
      /\ \A e \in Listed(s) : s.dialog[e].state # "NON_EXIST" => r.dialog[e].state # "NON_EXIST"
      /\ d \in DOMAIN s.dialog
  BY <1>1, SameDialogsParts DEF Within, Listed
<1>4. OwnIds(r) /\ OneId(r)
  BY <1>1, <1>2, <1>3 DEF AgentsBut, OwnIds, OneId
<1> DEFINE k == Len(s.transaction) + 1
<1>5. /\ Tr(r) = Tr(s) \cup {k} /\ k \notin Tr(s)
      /\ \A u \in Tr(s) : RequestOf(r, u) = RequestOf(s, u) /\ UserOf(r, u) = UserOf(s, u)
      /\ TypeOf(r, k) = "CLIENT_NON_INVITE" /\ TransactionOf(r, d) = k
  BY <1>1, AppendedParts DEF Within
<1> HIDE DEF k
<1>6. AcceptedIds(r)
  BY <1>1, <1>2, <1>3, <1>5 DEF AgentsBut, AcceptedIds
<1>7. Open(r, d)
  <2>1. d # Null
    BY <1>1, <1>3, DialogDomain DEF Null
  <2>2. Open(s, d) /\ TransactionOf(s, d) \in Tr(s)
    BY <1>1, <2>1 DEF AgentsBut, Linked
  <2>3. m.method = "REGISTER" => RequestOf(s, TransactionOf(s, d)).method = "REGISTER"
    BY DEF Within
  <2>4. TypeOf(s, TransactionOf(s, d)) = "SERVER_INVITE" =>
          RequestOf(s, TransactionOf(s, d)).method = "INVITE"
    BY <1>1, <2>2 DEF GoodBut, Machines, AllBegan, Begins, Invite, Request
  <2> QED BY <1>3, <1>5, <2>2, <2>3, <2>4 DEF Open
<1>8. \A e \in Listed(r) : e # Null => Open(r, e)
  BY <1>1, <1>2, <1>7 DEF AgentsBut
<1> QED BY <1>2, <1>4, <1>6, <1>8 DEF Good, GoodBut, AgentsBut

\* The request of a peer that is answered at once: what its transaction is.
Answerable(m) == m.method \in {"BYE", "CANCEL"} /\ m.branch[1] # "here"

\* The dialog of a call of the peer that has no tag of ours answers its CANCEL: the
\* dialog is confirmed, and needs no open INVITE any more.
LEMMA CancelMove ==
    ASSUME NEW s, NEW d \in Listed(s), GoodBut(s, d), NEW r, NEW m,
           AnsweredAtOnce(s, r, d, m), Answerable(m), m.to = Nil, NEW p \in Calls,
           s.dialog[d].id = [call |-> p, local |-> Nil, remote |-> p]
    PROVE  Good(r)
<1> DEFINE k == Len(s.transaction) + 1
<1>1. s \in Stacks /\ AgentsBut(s, d) /\ d \in DOMAIN s.dialog
  BY DEF GoodBut, Well, Listed
<1>2. Within(s, r, d, m, "SERVER_NON_INVITE", "COMPLETED")
  BY DEF AnsweredAtOnce, Within, Answerable, Rests, Begins, ServerTypes, ClientTypes,
         TransactionOf
<1>3. /\ Machines(r) /\ Well(r) /\ Linked(r) /\ LatestRules(r)
      /\ Listed(r) = Listed(s)
      /\ \A e \in Listed(s) : e # d => (Open(s, e) => Open(r, e))
      /\ \A t \in Tr(r) : RequestOf(r, t).method = "INVITE" /\ <<t, "SEND_OK">> \in r.answers
           => t \in Tr(s) /\ <<t, "SEND_OK">> \in s.answers
      /\ \A e \in Listed(s) : \A id : Owns(s, e, id) => Owns(r, e, id)
  BY <1>2, WithinKeeps
<1>4. /\ Tr(r) = Tr(s) \cup {k} /\ k \notin Tr(s) /\ k \in Nat
      /\ \A u \in Tr(s) : RequestOf(r, u) = RequestOf(s, u) /\ UserOf(r, u) = UserOf(s, u)
      /\ TypeOf(r, k) = "SERVER_NON_INVITE" /\ UserOf(r, k) = d /\ TransactionOf(r, d) = k
  BY <1>1, AppendedParts DEF AnsweredAtOnce, TransactionOf
<1>5. /\ r.dialog[d].state # "NON_EXIST"
      /\ r.dialog[d].id = s.dialog[d].id
           \/ r.dialog[d].id = [call |-> p, local |-> k, remote |-> p]
  BY DEF AnsweredAtOnce
<1>6. \A e \in Listed(s) : e # d => r.dialog[e] = s.dialog[e]
  BY <1>1, SameDialogsParts DEF AnsweredAtOnce, Listed
<1> HIDE DEF k
<1>7. p # Nil /\ p \notin Nat /\ Nil \notin Nat /\ Tr(s) \subseteq Nat
  BY <1>1, NamesApart, TransactionDomain DEF Tr
<1>8. OwnIds(r)
  <2>1. Owns(r, d, r.dialog[d].id)
    BY <1>4, <1>5 DEF Owns
  <2> QED BY <1>1, <1>3, <1>6, <2>1 DEF AgentsBut, OwnIds
<1>9. OneId(r)
  <2>1. \A e \in Listed(s) : e # d => s.dialog[e].id # r.dialog[d].id
    <3> SUFFICES ASSUME NEW e \in Listed(s), e # d, s.dialog[e].id = r.dialog[d].id
                 PROVE  FALSE
      OBVIOUS
    <3>1. CASE r.dialog[d].id = s.dialog[d].id
      BY <1>1, <1>7, <3>1 DEF AgentsBut, OneId
    <3>2. CASE r.dialog[d].id = [call |-> p, local |-> k, remote |-> p]
      <4>1. Owns(s, e, s.dialog[e].id)
        BY <1>1 DEF AgentsBut, OwnIds
      <4> QED BY <1>4, <1>7, <3>2, <4>1 DEF Owns, EmptyDialogId
    <3> QED BY <1>5, <3>1, <3>2
  <2> QED BY <1>1, <1>3, <1>6, <2>1 DEF AgentsBut, OneId
<1>10. AcceptedIds(r)
  <2>1. \A t \in Tr(s) : RequestOf(s, t).method = "INVITE" /\ <<t, "SEND_OK">> \in s.answers
                           => UserOf(s, t) # d
    <3> SUFFICES ASSUME NEW t \in Tr(s), RequestOf(s, t).method = "INVITE",
                        <<t, "SEND_OK">> \in s.answers, UserOf(s, t) = d
                 PROVE  FALSE
      OBVIOUS
    <3>1. s.dialog[UserOf(s, t)].id
            = [call |-> RequestOf(s, t).call, local |-> t, remote |-> RequestOf(s, t).from]
      <4>1. AcceptedIds(s) /\ UserOf(s, t) \in Listed(s)
        BY <1>1 DEF AgentsBut
      <4> QED BY <4>1 DEF AcceptedIds
    <3>2. s.dialog[d].id.local = t
      BY <3>1
    <3>3. s.dialog[d].id.local = Nil
      OBVIOUS
    <3> QED BY <1>7, <3>2, <3>3
  <2> QED BY <1>1, <1>3, <1>4, <1>6, <2>1 DEF AgentsBut, AcceptedIds
<1>11. Open(r, d)
  BY <1>4, <1>5 DEF Open
<1>12. \A e \in Listed(r) : e # Null => Open(r, e)
  BY <1>1, <1>3, <1>11 DEF AgentsBut
<1> QED BY <1>3, <1>8, <1>9, <1>10, <1>12 DEF Good, GoodBut, AgentsBut

\* A call ends, and every dialog with it.
LEMMA HangUpMove ==
    ASSUME NEW s, NEW x, GoodBut(s, x), NEW d \in Listed(s), NEW r, NEW m,
           HungUp(s, r, d, m), Answerable(m)
    PROVE  Good(r)
<1> DEFINE k == Len(s.transaction) + 1
<1>1. s \in Stacks /\ Well(s) /\ Machines(s) /\ d \in DOMAIN s.dialog
  BY DEF GoodBut, Well, Listed
<1>2. /\ r \in Stacks /\ r.uas = DelFromList(s.uas, d) /\ r.account = s.account
      /\ r.dialogs = <<>> /\ Len(r.dialog) = Len(s.dialog)
      /\ \A e \in DOMAIN s.dialog : r.dialog[e] = FreedDialog
      /\ Appended(s, r, m, d, "SERVER_NON_INVITE", "COMPLETED")
      /\ r.transactions = PutInList(s.transactions, k)
      /\ r.answers = s.answers \cup {<<k, "SEND_OK">>}
  BY DEF HungUp
<1>3. /\ Rests("SERVER_NON_INVITE", "COMPLETED")
      /\ Begins(k, "SERVER_NON_INVITE", m) /\ m.method \notin {"INVITE", "REGISTER"}
      /\ "SERVER_NON_INVITE" \in ServerTypes
  BY DEF Rests, Begins, Answerable, ServerTypes, ClientTypes
<1>4. Machines(r) /\ Lists(r.transactions, r.transaction)
  BY <1>1, <1>2, <1>3, AppendKeepsMachines
<1>5. /\ Tr(r) = Tr(s) \cup {k}
      /\ \A u \in Tr(s) : UserOf(r, u) = UserOf(s, u)
      /\ UserOf(r, k) = d
  BY <1>1, <1>2, AppendedParts
<1>6. DOMAIN r.dialog = DOMAIN s.dialog
  BY <1>1, <1>2, DialogDomain
<1>7. Well(r)
  <2>1. Lists(r.uas, r.account)
    <3>1. s.uas \in Seq(Nat) /\ Lists(s.uas, s.account)
      BY <1>1 DEF Stacks, Well
    <3>2. NoTwice(r.uas) /\ \A u : InList(r.uas, u) => InList(s.uas, u)
      BY <1>2, <3>1, DelFromListEffect, SMTT(30) DEF Lists, NoTwice
    <3> QED BY <1>2, <3>1, <3>2 DEF Lists, NoTwice, InList
  <2>2. Lists(r.dialogs, r.dialog)
    BY <1>2 DEF Lists
  <2>3. \A e \in DOMAIN r.dialog : TransactionOf(r, e) \in 0 .. Len(r.transaction)
    BY <1>2, <1>4, <1>6, TransactionDomain DEF TransactionOf, FreedDialog, Null
  <2> QED BY <1>1, <1>2, <1>4, <1>5, <1>6, <2>1, <2>2, <2>3 DEF Well
<1>8. Listed(r) = {}
  BY <1>2 DEF Listed, InList
<1>9. AgentsBut(r, Null)
  BY <1>8 DEF AgentsBut, Linked, LatestRules, OwnIds, OneId, AcceptedIds
<1> QED BY <1>4, <1>7, <1>9 DEF Good, GoodBut

\* A client machine answers no event of a user: whoever responds is a server.
LEMMA OnlyServersRespond ==
    ASSUME NEW s, Well(s), Machines(s), NEW t \in Tr(s), InList(s.transactions, t),
           NEW event \in {"SEND_OK", "SEND_RINGING", "SEND_REQUEST_TERMINATED"},
           NEW e \in EntriesFor(s, t, event)
    PROVE  /\ TypeOf(s, t) = "SERVER_INVITE" /\ StateOf(s, t) = "PROCEEDING"
           /\ e.nextState = IF event = "SEND_RINGING" THEN "PROCEEDING" ELSE "TERMINATED"
<1>1. TypeOf(s, t) \in TransactionTypes
  BY TransactionDomain DEF Well, Tr, TypeOf, TransactionObjects
<1>2. StateOf(s, t) # "TERMINATED" /\ Rests(TypeOf(s, t), StateOf(s, t))
  BY DEF Machines, LiveListed, AllRest
<1>3. TypeOf(s, t) \in ServerTypes
  BY <1>1, ClientNeverResponds DEF EntriesFor, TypeOf, SendEvents, TransactionTypes
<1>4. e \in LocateEventEntry(TypeOf(s, t), StateOf(s, t), event)
  BY DEF EntriesFor, TypeOf, StateOf
<1>5. TypeOf(s, t) = "SERVER_INVITE" /\ StateOf(s, t) = "PROCEEDING"
  BY <1>2, <1>3, <1>4, ServerEntries DEF Rests, ServerTypes
<1> QED BY <1>3, <1>4, <1>5, ServerEntries

\* A call of the peer is accepted.
LEMMA AcceptMove ==
    ASSUME NEW s, Good(s), NEW d \in Listed(s), DialogOk(s, d).fault = "none"
    PROVE  LET r == DialogOk(s, d) IN
           /\ Good(r) /\ r.dialog[d].state # "NON_EXIST"
           /\ r.dialog[d].id.call = s.dialog[d].id.call
           /\ r.dialog[d].id.remote = s.dialog[d].id.remote
           /\ SameDialogsBut(s, r, d) /\ SameRest(s, r)
<1> DEFINE r == DialogOk(s, d)
           t == TransactionOf(s, d)
<1>1. /\ s \in Stacks /\ Well(s) /\ Machines(s) /\ AgentsBut(s, Null)
      /\ d \in DOMAIN s.dialog /\ InList(s.dialogs, d)
  BY DEF Good, GoodBut, Well, Listed
<1>2. d # Null
  BY <1>1, DialogDomain DEF Null
<1>3. t \in Tr(s) /\ UserOf(s, t) = d /\ Open(s, d)
  BY <1>1, <1>2 DEF AgentsBut, Linked
<1>4. /\ InList(s.transactions, t)
      /\ r \in Stacks /\ SameDialogsBut(s, r, d) /\ SameRest(s, r)
      /\ AfterOk(s, d, r.dialog[d])
      /\ r.answers = s.answers \cup {<<t, "SEND_OK">>}
  BY <1>1, <1>3, DialogOkEffect DEF Tr
<1>5. PICK e \in EntriesFor(s, t, "SEND_OK") :
           /\ Stepped(s, r, t, e.nextState)
           /\ r.transactions = IF e.nextState = "TERMINATED"
                               THEN DelFromList(s.transactions, t)
                               ELSE s.transactions
  BY <1>1, <1>3, DialogOkEffect DEF Tr
<1> HIDE DEF r, t
<1>6. /\ TypeOf(s, t) = "SERVER_INVITE" /\ StateOf(s, t) = "PROCEEDING"
      /\ e.nextState = "TERMINATED"
  BY <1>1, <1>3, <1>4, <1>5, OnlyServersRespond
<1>7. PICK p \in Calls, b \in Branches : RequestOf(s, t) = Invite(p, b)
  BY <1>1, <1>3, <1>6 DEF Machines, AllBegan, Begins
<1>8. /\ RequestOf(s, t).call = p /\ RequestOf(s, t).from = p /\ RequestOf(s, t).to = Nil
      /\ RequestOf(s, t).method = "INVITE"
  BY <1>7 DEF Invite, Request
<1>9. p # Nil /\ p \notin Nat /\ Nil \notin Nat /\ Tr(s) \subseteq Nat
  BY <1>1, NamesApart, TransactionDomain DEF Tr
<1>10. s.dialog[d].state = "NON_EXIST" /\ s.dialog[d].id = [call |-> p, local |-> Nil, remote |-> p]
  <2>1. /\ s.dialog[d].state = "NON_EXIST" /\ s.dialog[d].id.call = p
        /\ s.dialog[d].id.local = Nil
    BY <1>3, <1>6, <1>8 DEF Open, t
  <2>2. Owns(s, d, s.dialog[d].id)
    BY <1>1 DEF AgentsBut, OwnIds
  <2>3. s.dialog[d].id.remote = p
    BY <1>9, <2>1, <2>2 DEF Owns, EmptyDialogId
  <2>4. s.dialog[d].id \in DialogIds
    BY <1>1, DialogDomain DEF DialogObjects
  <2> HIDE DEF t
  <2> QED BY <2>1, <2>3, <2>4 DEF DialogIds
<1>11. /\ r.dialog[d].state = "CONFIRMED" /\ TransactionOf(r, d) = t
       /\ r.dialog[d].id = [call |-> p, local |-> t, remote |-> p]
  <2>1. ToTagOfOk(s, t) = t
    BY <1>8 DEF ToTagOfOk, RequestOf
  <2>2. /\ r.dialog[d].state = "CONFIRMED" /\ TransactionOf(r, d) = t
        /\ r.dialog[d].id = [s.dialog[d].id EXCEPT !.local = ToTagOfOk(s, t)]
    BY <1>4, <1>10 DEF AfterOk, t, TransactionOf
  <2> QED BY <1>10, <2>1, <2>2
<1>12. ~Over(s, t) /\ "SERVER_INVITE" \in ServerTypes /\ Rests("SERVER_INVITE", "TERMINATED")
  BY <1>6 DEF Over, ServerTypes, Rests
<1>13. Machines(r) /\ Lists(r.transactions, r.transaction)
  <2>1. Stepped(s, r, t, "TERMINATED") /\ r.transactions = DelFromList(s.transactions, t)
    BY <1>5, <1>6
  <2> QED BY <1>1, <1>3, <1>4, <1>6, <1>8, <1>12, <2>1, StepKeepsMachines
<1>14. /\ Tr(r) = Tr(s)
       /\ \A u \in Tr(s) : /\ TypeOf(r, u) = TypeOf(s, u)
                           /\ RequestOf(r, u) = RequestOf(s, u)
                           /\ UserOf(r, u) = UserOf(s, u)
                           /\ StateOf(r, u) = IF u = t THEN "TERMINATED" ELSE StateOf(s, u)
  BY <1>1, <1>5, <1>6, SteppedParts
<1>15. /\ DOMAIN r.dialog = DOMAIN s.dialog /\ Listed(r) = Listed(s)
       /\ r.uas = s.uas /\ r.account = s.account /\ r.dialogs = s.dialogs
       /\ Len(r.dialog) = Len(s.dialog)
       /\ \A x \in DOMAIN s.dialog : x # d =>
            r.dialog[x] = s.dialog[x] /\ TransactionOf(r, x) = TransactionOf(s, x)
  BY <1>1, <1>4, SameDialogsParts DEF SameDialogsBut
<1>15a. TransactionOf(s, d) = t
  BY DEF t
<1>15b. \A x \in DOMAIN s.dialog : TransactionOf(r, x) = TransactionOf(s, x)
  BY <1>11, <1>15, <1>15a
<1>16. Well(r)
  <2>1. Len(r.transaction) = Len(s.transaction)
    BY <1>5 DEF Stepped
  <2>2. Lists(r.dialogs, r.dialog)
    BY <1>1, <1>15 DEF Well, Lists
  <2> QED BY <1>1, <1>4, <1>13, <1>14, <1>15, <1>15b, <2>1, <2>2 DEF Well
<1>17. Linked(r) /\ LatestRules(r)
  <2>1. \A x \in Listed(s) : x \in DOMAIN s.dialog
    BY DEF Listed
  <2>2. Linked(r)
    BY <1>1, <1>14, <1>15, <1>15b, <2>1 DEF AgentsBut, Linked
  <2>3. \A x \in Listed(s) : TransactionOf(s, x) \in Tr(s)
    BY <1>1 DEF AgentsBut, Linked
  <2>4. LatestRules(r)
    BY <1>1, <1>14, <1>15, <1>15b, <2>1, <2>3 DEF AgentsBut, LatestRules
  <2> QED BY <2>2, <2>4
<1>18. \A x \in Listed(s) : x \in DOMAIN s.dialog /\ Owns(s, x, s.dialog[x].id)
  BY <1>1 DEF AgentsBut, OwnIds, Listed
<1>19. OwnIds(r)
  <2>1. Owns(r, d, r.dialog[d].id)
    BY <1>3, <1>11, <1>14 DEF Owns
  <2> QED BY <1>14, <1>15, <1>18, <2>1 DEF OwnIds, Owns
<1>20. OneId(r)
  <2>1. \A x \in Listed(s) : x # d => s.dialog[x].id # r.dialog[d].id
    BY <1>3, <1>9, <1>11, <1>18 DEF Owns, EmptyDialogId
  <2> QED BY <1>1, <1>15, <1>18, <2>1 DEF AgentsBut, OneId
<1>21. AcceptedIds(r)
  <2>1. \A u \in Tr(s) : RequestOf(s, u).method = "INVITE" /\ UserOf(s, u) = d => u = t
    BY <1>1, <1>3, <1>8 DEF Machines, OneInvite
  <2>2. \A u \in Tr(s) : u # t /\ <<u, "SEND_OK">> \in r.answers => <<u, "SEND_OK">> \in s.answers
    BY <1>4
  <2> SUFFICES ASSUME NEW u \in Tr(r), RequestOf(r, u).method = "INVITE",
                      <<u, "SEND_OK">> \in r.answers, UserOf(r, u) \in Listed(r)
               PROVE  LET o == r.dialog[UserOf(r, u)]
                          m == RequestOf(r, u) IN
                      /\ o.id = [call |-> m.call, local |-> u, remote |-> m.from]
                      /\ o.state # "NON_EXIST"
    BY DEF AcceptedIds
  <2>3. CASE u = t
    BY <1>3, <1>8, <1>11, <1>14, <2>3
  <2>4. CASE u # t
    <3>1. UserOf(s, u) # d /\ UserOf(s, u) \in Listed(s)
      BY <1>14, <1>15, <2>1, <2>4
    <3> QED BY <1>1, <1>14, <1>15, <1>18, <2>2, <2>4, <3>1 DEF AgentsBut, AcceptedIds
  <2> QED BY <2>3, <2>4
<1>22. \A x \in Listed(r) : x # Null => Open(r, x)
  <2>1. Open(r, d)
    BY <1>3, <1>6, <1>8, <1>11, <1>14 DEF Open
  <2>2. \A x \in Listed(s) : x # d => TransactionOf(s, x) \in Tr(s) /\ TransactionOf(s, x) # t
    BY <1>1, <1>3 DEF AgentsBut, Linked
  <2>3. \A x \in Listed(s) : x # d /\ x # Null => Open(r, x)
    BY <1>1, <1>14, <1>15, <1>18, <2>2 DEF AgentsBut, Open
  <2> QED BY <1>15, <2>1, <2>3
<1> QED BY <1>4, <1>10, <1>11, <1>13, <1>16, <1>17, <1>19, <1>20, <1>21, <1>22
        DEF Good, GoodBut, AgentsBut, r

\* A call of ours is accepted by the peer.
LEMMA EstablishMove ==
    ASSUME NEW s, Good(s), NEW d \in Listed(s), NEW r \in Stacks,
           NEW t \in Tr(s), t = TransactionOf(s, d), InList(s.transactions, t),
           TypeOf(s, t) = "CLIENT_INVITE",
           Stepped(s, r, t, "TERMINATED"), SameDialogsBut(s, r, d),
           r.transactions = DelFromList(s.transactions, t), r.answers = s.answers,
           r.dialog[d].id = [call |-> t, local |-> t, remote |-> PeerTag],
           r.dialog[d].state = "CONFIRMED", TransactionOf(r, d) = t
    PROVE  Good(r)
<1>1. /\ s \in Stacks /\ Well(s) /\ Machines(s) /\ AgentsBut(s, Null)
      /\ d \in DOMAIN s.dialog /\ InList(s.dialogs, d)
  BY DEF Good, GoodBut, Well, Listed
<1>2. d # Null
  BY <1>1, DialogDomain DEF Null
<1>3. UserOf(s, t) = d /\ RequestOf(s, t).method = "INVITE"
  BY <1>1 DEF AgentsBut, Linked, Machines, AllBegan, Begins
<1>5. Tr(s) \subseteq Nat /\ Nil \notin Nat /\ PeerTag # Nil
        /\ \A p \in Calls : p # Nil /\ p \notin Nat
  BY <1>1, NamesApart, TransactionDomain DEF Tr
<1>6. Rests("CLIENT_INVITE", "TERMINATED")
  BY DEF Rests
<1>7. Machines(r) /\ Lists(r.transactions, r.transaction)
  BY <1>1, <1>3, <1>6, StepKeepsMachines
<1>8. /\ Tr(r) = Tr(s)
      /\ \A u \in Tr(s) : /\ TypeOf(r, u) = TypeOf(s, u)
                          /\ RequestOf(r, u) = RequestOf(s, u)
                          /\ UserOf(r, u) = UserOf(s, u)
                          /\ StateOf(r, u) = IF u = t THEN "TERMINATED" ELSE StateOf(s, u)
  BY <1>1, SteppedParts
<1>9. /\ DOMAIN r.dialog = DOMAIN s.dialog /\ Listed(r) = Listed(s)
      /\ r.uas = s.uas /\ r.account = s.account /\ r.dialogs = s.dialogs
      /\ Len(r.dialog) = Len(s.dialog)
      /\ \A x \in DOMAIN s.dialog : x # d =>
            r.dialog[x] = s.dialog[x] /\ TransactionOf(r, x) = TransactionOf(s, x)
  BY <1>1, SameDialogsParts DEF SameDialogsBut
<1>10. \A x \in DOMAIN s.dialog : TransactionOf(r, x) = TransactionOf(s, x)
  BY <1>9
<1>11. Well(r)
  <2>1. Len(r.transaction) = Len(s.transaction)
    BY DEF Stepped
  <2>2. Lists(r.dialogs, r.dialog)
    BY <1>1, <1>9 DEF Well, Lists
  <2> QED BY <1>1, <1>7, <1>8, <1>9, <1>10, <2>1, <2>2 DEF Well
<1>12. Linked(r) /\ LatestRules(r)
  <2>1. \A x \in Listed(s) : x \in DOMAIN s.dialog
    BY DEF Listed
  <2>2. Linked(r)
    BY <1>1, <1>8, <1>9, <1>10, <2>1 DEF AgentsBut, Linked
  <2>3. \A x \in Listed(s) : TransactionOf(s, x) \in Tr(s)
    BY <1>1 DEF AgentsBut, Linked
  <2>4. LatestRules(r)
    BY <1>1, <1>8, <1>9, <1>10, <2>1, <2>3 DEF AgentsBut, LatestRules
  <2> QED BY <2>2, <2>4
<1>13. \A x \in Listed(s) : x \in DOMAIN s.dialog /\ Owns(s, x, s.dialog[x].id)
  BY <1>1 DEF AgentsBut, OwnIds, Listed
<1>14. OwnIds(r)
  <2>1. Owns(r, d, r.dialog[d].id)
    BY <1>3, <1>8 DEF Owns
  <2> QED BY <1>8, <1>9, <1>13, <2>1 DEF OwnIds, Owns
<1>15. OneId(r)
  <2>1. \A x \in Listed(s) : x # d => s.dialog[x].id # r.dialog[d].id
    BY <1>3, <1>5, <1>13 DEF Owns, EmptyDialogId
  <2> QED BY <1>1, <1>9, <1>13, <2>1 DEF AgentsBut, OneId
<1>16. AcceptedIds(r)
  <2>1. \A u \in Tr(s) : RequestOf(s, u).method = "INVITE" /\ UserOf(s, u) = d => u = t
    BY <1>1, <1>3 DEF Machines, OneInvite
  <2>2. <<t, "SEND_OK">> \notin s.answers
    BY <1>1 DEF Machines, AnsweredOnce, ServerTypes
  <2> QED BY <1>1, <1>8, <1>9, <1>13, <2>1, <2>2 DEF AgentsBut, AcceptedIds
<1>17. \A x \in Listed(r) : x # Null => Open(r, x)
  <2>1. Open(r, d)
    BY <1>8 DEF Open
  <2>2. \A x \in Listed(s) : x # d => TransactionOf(s, x) \in Tr(s) /\ TransactionOf(s, x) # t
    BY <1>1, <1>3 DEF AgentsBut, Linked
  <2>3. \A x \in Listed(s) : x # d /\ x # Null => Open(r, x)
    BY <1>1, <1>8, <1>9, <1>13, <2>2 DEF AgentsBut, Open
  <2> QED BY <1>9, <2>1, <2>3
<1> QED BY <1>7, <1>11, <1>12, <1>14, <1>15, <1>16, <1>17 DEF Good, GoodBut, AgentsBut

-----------------------------------------------------------------------------
(* What a turn leaves alone *)

AcceptedOf(s) ==
    {t \in Tr(s) : RequestOf(s, t).method = "INVITE" /\ <<t, "SEND_OK">> \in s.answers}

\* What was made stays as it was made, and what is over stays so.
Kept(s, r) ==
    /\ DOMAIN s.dialog \subseteq DOMAIN r.dialog
    /\ \A d \in DOMAIN s.dialog : r.account[d] = s.account[d]
    /\ Tr(s) \subseteq Tr(r)
    /\ \A t \in Tr(s) : /\ TypeOf(r, t) = TypeOf(s, t)
                        /\ RequestOf(r, t) = RequestOf(s, t)
                        /\ UserOf(r, t) = UserOf(s, t)
                        /\ Over(s, t) => Over(r, t)

\* No call begins, is accepted or is established, and none that is left changes.
Calm(s, r) ==
    /\ \A d \in Listed(r) : /\ d \in Listed(s)
                            /\ r.dialog[d].id.call = s.dialog[d].id.call
                            /\ r.dialog[d].id.remote = s.dialog[d].id.remote
    /\ \A t \in Tr(r) \ Tr(s) : TypeOf(r, t) \notin {"SERVER_INVITE", "CLIENT_INVITE"}
    /\ AcceptedOf(r) = AcceptedOf(s)

\* The latest request of some dialog is a BYE.
SomeBye(s) ==
    \E d \in Listed(s) : RequestOf(s, TransactionOf(s, d)).method = "BYE"

\* No call is ended either.
Tame(s, r) == Calm(s, r) /\ (SomeBye(r) => SomeBye(s))

\* Two steps of a turn one after the other.
LEMMA KeptTransitively ==
    ASSUME NEW s, NEW q, NEW r, Kept(s, q), Kept(q, r)
    PROVE  Kept(s, r)
BY DEF Kept

\* The same for calls that are left alone.
LEMMA TameTransitively ==
    ASSUME NEW s, NEW q, NEW r, Tame(s, q), Tame(q, r), Kept(s, q), Kept(q, r)
    PROVE  Tame(s, r)
<1>1. /\ \A d \in Listed(r) : d \in Listed(q)
      /\ \A d \in Listed(q) : d \in Listed(s)
  BY DEF Tame, Calm
<1>2. \A d \in Listed(r) : /\ d \in Listed(s)
                          /\ r.dialog[d].id.call = s.dialog[d].id.call
                          /\ r.dialog[d].id.remote = s.dialog[d].id.remote
  BY <1>1 DEF Tame, Calm
<1>3. \A t \in Tr(r) \ Tr(s) : TypeOf(r, t) \notin {"SERVER_INVITE", "CLIENT_INVITE"}
  BY DEF Tame, Calm, Kept
<1> QED BY <1>2, <1>3 DEF Tame, Calm

\* Steps that touch neither dialogs nor transactions.
LEMMA SameKeeps ==
    ASSUME NEW s, NEW x, GoodBut(s, x), NEW r \in Stacks, SameAgents(s, r), SameMachines(s, r)
    PROVE  GoodBut(r, x) /\ Kept(s, r) /\ Tame(s, r)
             /\ \A t \in Tr(s) : StateOf(r, t) = StateOf(s, t)
<1>1. /\ r.uas = s.uas /\ r.account = s.account /\ r.dialogs = s.dialogs
      /\ r.dialog = s.dialog /\ r.transactions = s.transactions
      /\ r.transaction = s.transaction /\ r.answers = s.answers
  BY DEF SameAgents, SameMachines
<1>2. /\ Tr(r) = Tr(s) /\ Listed(r) = Listed(s)
      /\ \A t : /\ TypeOf(r, t) = TypeOf(s, t) /\ RequestOf(r, t) = RequestOf(s, t)
                /\ UserOf(r, t) = UserOf(s, t) /\ StateOf(r, t) = StateOf(s, t)
      /\ \A d : TransactionOf(r, d) = TransactionOf(s, d)
  BY <1>1 DEF Tr, Listed, TypeOf, RequestOf, UserOf, StateOf, TransactionOf
<1>3. Well(r)
  BY <1>1, <1>2 DEF GoodBut, Well
<1>4. Machines(r)
  BY <1>1, <1>2 DEF GoodBut, Machines, LiveListed, AllRest, AllBegan, OneInvite, OneWaits,
                    AnsweredOnce, Waits, Over
<1>5. AgentsBut(r, x)
  <2>1. Linked(r) /\ LatestRules(r)
    BY <1>1, <1>2 DEF GoodBut, AgentsBut, Linked, LatestRules
  <2>2. OwnIds(r) /\ OneId(r) /\ AcceptedIds(r)
    BY <1>1, <1>2 DEF GoodBut, AgentsBut, OwnIds, Owns, OneId, AcceptedIds
  <2>3. \A d \in Listed(r) : d # x => Open(r, d)
    BY <1>1, <1>2 DEF GoodBut, AgentsBut, Open
  <2> QED BY <2>1, <2>2, <2>3 DEF AgentsBut
<1>6. Kept(s, r)
  BY <1>1, <1>2 DEF Kept, Over
<1>7. Tame(s, r)
  BY <1>1, <1>2 DEF Tame, Calm, SomeBye, AcceptedOf
<1> QED BY <1>2, <1>3, <1>4, <1>5, <1>6, <1>7 DEF GoodBut

\* A step of a machine, when the dialogs stay.
LEMMA SteppedKeeps ==
    ASSUME NEW s \in Stacks, NEW r, SameAgents(s, r), NEW t \in Tr(s), NEW next,
           Stepped(s, r, t, next), Over(s, t) => next \in {"COMPLETED", "TERMINATED"},
           NEW event, event # "SEND_OK",
           r.answers = s.answers \/ r.answers = s.answers \cup {<<t, event>>}
    PROVE  /\ Kept(s, r)
           /\ Linked(s) => Tame(s, r)
<1>1. /\ r.account = s.account /\ r.dialogs = s.dialogs /\ r.dialog = s.dialog
      /\ Listed(r) = Listed(s) /\ \A d : TransactionOf(r, d) = TransactionOf(s, d)
  BY DEF SameAgents, Listed, TransactionOf
<1>2. /\ Tr(r) = Tr(s)
      /\ \A u \in Tr(s) : /\ TypeOf(r, u) = TypeOf(s, u)
                          /\ RequestOf(r, u) = RequestOf(s, u)
                          /\ UserOf(r, u) = UserOf(s, u)
                          /\ StateOf(r, u) = IF u = t THEN next ELSE StateOf(s, u)
  BY SteppedParts
<1>3. Kept(s, r)
  BY <1>1, <1>2 DEF Kept, Over
<1>4. AcceptedOf(r) = AcceptedOf(s)
  <2>1. \A u : <<u, "SEND_OK">> \in r.answers <=> <<u, "SEND_OK">> \in s.answers
    OBVIOUS
  <2> QED BY <1>2, <2>1 DEF AcceptedOf
<1>5. Linked(s) => Tame(s, r)
  BY <1>1, <1>2, <1>4 DEF Tame, Calm, SomeBye, Linked
<1> QED BY <1>3, <1>5

\* A transaction within a dialog, when the others stay.
LEMMA WithinIsTame ==
    ASSUME NEW s, NEW x, GoodBut(s, x), NEW d \in Listed(s), NEW r, NEW m, NEW type,
           NEW state, Within(s, r, d, m, type, state),
           type \notin {"SERVER_INVITE", "CLIENT_INVITE"}
    PROVE  /\ Kept(s, r)
           /\ \A t \in Tr(s) : StateOf(r, t) = StateOf(s, t)
           /\ /\ r.dialog[d].id.call = s.dialog[d].id.call
              /\ r.dialog[d].id.remote = s.dialog[d].id.remote
              => Calm(s, r) /\ (m.method # "BYE" => Tame(s, r))
<1> DEFINE k == Len(s.transaction) + 1
<1>1. s \in Stacks /\ d \in DOMAIN s.dialog
  BY DEF GoodBut, Well, Listed
<1>2. /\ Tr(r) = Tr(s) \cup {k} /\ k \notin Tr(s) /\ TransactionOf(r, d) = k
      /\ \A u \in Tr(s) : /\ TypeOf(r, u) = TypeOf(s, u)
                          /\ RequestOf(r, u) = RequestOf(s, u)
                          /\ UserOf(r, u) = UserOf(s, u)
                          /\ StateOf(r, u) = StateOf(s, u)
      /\ TypeOf(r, k) = type /\ RequestOf(r, k) = m
  BY <1>1, AppendedParts DEF Within
<1>3. /\ DOMAIN r.dialog = DOMAIN s.dialog /\ Listed(r) = Listed(s)
      /\ r.account = s.account
      /\ \A e \in DOMAIN s.dialog : e # d =>
           r.dialog[e] = s.dialog[e] /\ TransactionOf(r, e) = TransactionOf(s, e)
  <2>1. SameDialogsBut(s, r, d)
    BY DEF Within
  <2> QED BY <1>1, <2>1, SameDialogsParts, SMTT(30) DEF SameDialogsBut
<1>4. Kept(s, r)
  BY <1>2, <1>3 DEF Kept, Over
<1>5. m.method # "INVITE" /\ \A t \in Tr(s) : <<t, "SEND_OK">> \in r.answers <=> <<t, "SEND_OK">> \in s.answers
  <2>1. r.answers = s.answers \/ r.answers = s.answers \cup {<<k, "SEND_OK">>}
    BY DEF Within
  <2> QED BY <1>2, <2>1 DEF Within
<1>6. AcceptedOf(r) = AcceptedOf(s)
  BY <1>2, <1>5 DEF AcceptedOf
<1>7. \A e \in Listed(s) : e \in DOMAIN s.dialog /\ TransactionOf(s, e) \in Tr(s)
  BY DEF GoodBut, AgentsBut, Linked, Listed
<1> HIDE DEF k
<1>8. ASSUME r.dialog[d].id.call = s.dialog[d].id.call,
             r.dialog[d].id.remote = s.dialog[d].id.remote
      PROVE  Calm(s, r) /\ (m.method # "BYE" => Tame(s, r))
  <2>1. \A t \in Tr(r) \ Tr(s) : TypeOf(r, t) \notin {"SERVER_INVITE", "CLIENT_INVITE"}
    BY <1>2
  <2>2. Calm(s, r)
    BY <1>3, <1>6, <1>7, <1>8, <2>1 DEF Calm
  <2>3. m.method # "BYE" => (SomeBye(r) => SomeBye(s))
    BY <1>2, <1>3, <1>7 DEF SomeBye
  <2> QED BY <2>2, <2>3 DEF Tame
<1> QED BY <1>2, <1>4, <1>8

\* The invariant between two handlers holds within one, for any dialog.
LEMMA GoodWeakens ==
    ASSUME NEW s, Good(s), NEW x
    PROVE  GoodBut(s, x)
<1>1. \A d \in Listed(s) : d # Null
  BY DialogDomain DEF Good, GoodBut, Well, Listed, Null
<1> QED BY <1>1 DEF Good, GoodBut, AgentsBut

\* A step that changes nothing.
LEMMA SameIsKept ==
    ASSUME NEW s
    PROVE  Kept(s, s) /\ Tame(s, s)
BY DEF Kept, Tame, Calm

-----------------------------------------------------------------------------
(* The requests of the peers *)

\* A CANCEL closes the call it names, if there is one without a tag of ours.
LEMMA CancelHandled ==
    ASSUME NEW s, NEW x, GoodBut(s, x), NEW p \in Calls, NEW b \in Branches,
           \/ x \notin Listed(s)
           \/ Open(s, x)
           \/ s.dialog[x].id = [call |-> p, local |-> Nil, remote |-> p],
           HandleCancelEvent(s, Cancel(p, b)).fault = "none"
    PROVE  LET r == HandleCancelEvent(s, Cancel(p, b)) IN
           /\ Good(r) /\ Kept(s, r) /\ Tame(s, r) /\ SameRest(s, r)
           /\ \A t \in Tr(s) : StateOf(r, t) = StateOf(s, t)
<1> DEFINE m  == Cancel(p, b)
           d  == MatchMessage2Dialog(s, m)
           id == [call |-> p, local |-> Nil, remote |-> p]
           r  == HandleCancelEvent(s, m)
<1>1. s \in Stacks
  BY DEF GoodBut, Well
<1>2. p \in Tags /\ Nil \in Tags /\ <<p, b>> \in BranchNames /\ p # "here" /\ p # Nil
  BY NamesApart DEF Tags, BranchNames
<1>3. /\ m \in Requests /\ m.call = p /\ m.from = p /\ m.to = Nil
      /\ m.method = "CANCEL" /\ m.branch = <<p, b>>
  BY <1>2 DEF Cancel, Request, Requests, Methods
<1>4. Answerable(m)
  BY <1>2, <1>3 DEF Answerable
<1>5. r = IF d = Null THEN s ELSE DialogReceiveCancel(s, d, m)
  BY DEF HandleCancelEvent
<1>5a. r.fault = "none"
  OBVIOUS
<1> HIDE DEF m, r
<1>6. /\ d # Null => d \in Listed(s) /\ s.dialog[d].id = id
      /\ \A e \in Listed(s) : s.dialog[e].id = id => d # Null
  BY <1>1, <1>3, MatchMessage2DialogEffect DEF Listed
<1> HIDE DEF d
<1>7. CASE d = Null
  <2>1. x \notin Listed(s) \/ Open(s, x)
    BY <1>6, <1>7
  <2>2. Good(s)
    BY <2>1 DEF Good, GoodBut, AgentsBut
  <2> QED BY <1>5, <1>7, <2>2, SameIsKept DEF SameRest, m, r
<1>8. CASE d # Null
  <2>1. d \in Listed(s) /\ s.dialog[d].id = id /\ d \in DOMAIN s.dialog
    BY <1>6, <1>8 DEF Listed
  <2>2. x = d \/ x \notin Listed(s) \/ Open(s, x)
    <3>1. CASE x \in Listed(s) /\ s.dialog[x].id = id
      <4>1. s.dialog[x].id = s.dialog[d].id /\ s.dialog[x].id.call # Nil
        BY <1>2, <2>1, <3>1
      <4> QED BY <2>1, <3>1, <4>1 DEF GoodBut, AgentsBut, OneId
    <3> QED BY <3>1
  <2>3. GoodBut(s, d)
    BY <2>2 DEF GoodBut, AgentsBut
  <2>4. AnsweredAtOnce(s, r, d, m) /\ SameRest(s, r)
    BY <1>1, <1>3, <1>5, <1>5a, <1>8, <2>1, DialogReceiveCancelEffect
  <2>5. Good(r)
    BY <1>3, <1>4, <2>1, <2>3, <2>4, CancelMove
  <2>6. Within(s, r, d, m, "SERVER_NON_INVITE", "COMPLETED")
    BY <1>4, <2>4 DEF AnsweredAtOnce, Within, Answerable, Rests, Begins, ServerTypes,
         ClientTypes, TransactionOf
  <2>7. /\ r.dialog[d].id.call = s.dialog[d].id.call
        /\ r.dialog[d].id.remote = s.dialog[d].id.remote
    BY <2>1, <2>4 DEF AnsweredAtOnce
  <2>8. Kept(s, r) /\ Tame(s, r) /\ \A t \in Tr(s) : StateOf(r, t) = StateOf(s, t)
    BY <1>3, <2>1, <2>3, <2>6, <2>7, WithinIsTame
  <2> QED BY <2>4, <2>5, <2>8 DEF m, r
<1> QED BY <1>7, <1>8

\* The call has ended that message m is about.
Ended(s, r, m) ==
    /\ Listed(r) = {} /\ r.told.event = "CALL_FINISHED" /\ r.told.ua \in Listed(s)
    /\ r.told.position \in Nat
    /\ s.dialog[r.told.ua].id = [call |-> m.call, local |-> m.to, remote |-> m.from]

\* A BYE ends the call it names.
LEMMA ByeHandled ==
    ASSUME NEW s, NEW x, GoodBut(s, x), NEW m \in Requests, Answerable(m),
           HandleByeEvent(s, m).fault = "none"
    PROVE  LET r == HandleByeEvent(s, m) IN
           /\ GoodBut(r, x) /\ Kept(s, r) /\ Tame(s, r) /\ r.binded = s.binded
           /\ \A t \in Tr(s) : StateOf(r, t) = StateOf(s, t)
           /\ r.told = s.told \/ Ended(s, r, m)
<1> DEFINE d == MatchMessage2Dialog(s, m)
           r == HandleByeEvent(s, m)
           k == Len(s.transaction) + 1
<1>1. s \in Stacks
  BY DEF GoodBut, Well
<1>2. r = IF d = Null THEN s ELSE DialogReceiveBye(s, d, m)
  BY DEF HandleByeEvent
<1>3. d # Null => d \in Listed(s)
         /\ s.dialog[d].id = [call |-> m.call, local |-> m.to, remote |-> m.from]
  BY <1>1, MatchMessage2DialogEffect DEF Listed
<1> HIDE DEF d
<1>4. CASE d = Null
  BY <1>2, <1>4, SameIsKept
<1>5. CASE d # Null
  <2>1. d \in Listed(s) /\ d \in DOMAIN s.dialog
    BY <1>3, <1>5 DEF Listed
  <2>2. r = DialogReceiveBye(s, d, m)
    BY <1>2, <1>5
  <2>3. /\ HungUp(s, r, d, m)
        /\ r.told = [event |-> "CALL_FINISHED", ua |-> d, position |-> GetUaPosition(s, d)]
    BY <1>1, <1>2, <1>5, <2>1, DialogReceiveByeEffect
  <2> HIDE DEF r
  <2>4. Good(r)
    BY <2>1, <2>3, HangUpMove
  <2>5. GetUaPosition(s, d) \in Nat
    <3>1. InList(s.uas, d)
      BY <2>1 DEF GoodBut, AgentsBut, Linked
    <3> QED BY <1>1, <3>1, PositionOfListed
  <2>6. Listed(r) = {}
    BY <2>3 DEF HungUp, Listed, InList
  <2>7. Ended(s, r, m)
    <3>1. /\ r.told.event = "CALL_FINISHED" /\ r.told.ua = d
          /\ r.told.position = GetUaPosition(s, d)
      BY <2>3
    <3>2. s.dialog[d].id = [call |-> m.call, local |-> m.to, remote |-> m.from]
      BY <1>3, <1>5
    <3> QED BY <2>1, <2>5, <2>6, <3>1, <3>2 DEF Ended
  <2>8. /\ Tr(r) = Tr(s) \cup {k} /\ k \notin Tr(s)
        /\ \A u \in Tr(s) : /\ TypeOf(r, u) = TypeOf(s, u)
                            /\ RequestOf(r, u) = RequestOf(s, u)
                            /\ UserOf(r, u) = UserOf(s, u)
                            /\ StateOf(r, u) = StateOf(s, u)
        /\ TypeOf(r, k) = "SERVER_NON_INVITE" /\ RequestOf(r, k) = m
        /\ r.answers = s.answers \cup {<<k, "SEND_OK">>}
        /\ r.account = s.account /\ r.binded = s.binded
    BY <1>1, <2>3, AppendedParts DEF HungUp
  <2>9. DOMAIN r.dialog = DOMAIN s.dialog
    BY <1>1, <2>3, DialogDomain DEF HungUp
  <2>10. Kept(s, r)
    BY <2>8, <2>9 DEF Kept, Over
  <2>11. Tame(s, r)
    <3> HIDE DEF k
    <3>1. m.method # "INVITE"
      BY DEF Answerable
    <3>2. \A t \in Tr(s) : <<t, "SEND_OK">> \in r.answers <=> <<t, "SEND_OK">> \in s.answers
      BY <2>8
    <3>3. AcceptedOf(r) = AcceptedOf(s)
      BY <2>8, <3>1, <3>2 DEF AcceptedOf
    <3> QED BY <2>6, <2>8, <3>3 DEF Tame, Calm, SomeBye
  <2> QED BY <2>4, <2>7, <2>8, <2>10, <2>11, GoodWeakens DEF r
<1> QED BY <1>4, <1>5

-----------------------------------------------------------------------------
(* Requests that begin something *)

\* What a peer may send: an INVITE or a CANCEL, or the BYE of a call.
PeerSends(m) ==
    \/ \E p \in Calls, b \in Branches : m = Invite(p, b) \/ m = Cancel(p, b)
    \/ m.method = "BYE" /\ m.branch[1] = "bye"

\* A user agent was made, with its first transaction.
Joined(s, r, d, type) ==
    LET t == Len(s.transaction) + 1 IN
    /\ d = Fresh(s) /\ d \notin DOMAIN s.dialog /\ d \in DOMAIN r.dialog
    /\ Listed(r) = Listed(s) \cup {d}
    /\ \A e \in Listed(s) : r.dialog[e] = s.dialog[e]
    /\ Tr(r) = Tr(s) \cup {t} /\ t \notin Tr(s)
    /\ TypeOf(r, t) = type /\ UserOf(r, t) = d /\ ~Over(r, t)
    /\ TransactionOf(r, d) = t /\ RequestOf(r, t).method # "BYE"
    /\ r.dialog[d].id.remote # PeerTag
    /\ type = "SERVER_INVITE" => r.dialog[d].id.call \in Calls
    /\ AcceptedOf(r) = AcceptedOf(s)

\* A user agent that is made leaves every call alone, and begins its own.
LEMMA AgentJoins ==
    ASSUME NEW s, Good(s), NEW account \in Nat, NEW m, NEW type, NEW r,
           AgentMade(s, r, account, m, type),
           type \in {"SERVER_INVITE", "CLIENT_INVITE", "CLIENT_NON_INVITE"},
           Begins(Len(s.transaction) + 1, type, m), m.method # "BYE"
    PROVE  Kept(s, r) /\ Joined(s, r, Fresh(s), type)
<1> DEFINE d == Fresh(s)
           k == Len(s.transaction) + 1
<1>1. s \in Stacks /\ r \in Stacks /\ Len(s.account) = Len(s.dialog)
  BY DEF Good, GoodBut, Well, AgentMade
<1>2. /\ Tr(r) = Tr(s) \cup {k} /\ k \notin Tr(s) /\ k \in Nat
      /\ \A u \in Tr(s) : /\ TypeOf(r, u) = TypeOf(s, u)
                          /\ RequestOf(r, u) = RequestOf(s, u)
                          /\ UserOf(r, u) = UserOf(s, u)
                          /\ StateOf(r, u) = StateOf(s, u)
      /\ TypeOf(r, k) = type /\ RequestOf(r, k) = m /\ UserOf(r, k) = d
      /\ StateOf(r, k) = FirstState(type)
  BY <1>1, AppendedParts DEF AgentMade, Started
<1>3. /\ DOMAIN r.dialog = DOMAIN s.dialog \cup {d} /\ d \notin DOMAIN s.dialog
      /\ d \in Nat
  BY <1>1, DialogDomain DEF AgentMade, Fresh
<1>4. /\ \A e \in DOMAIN s.dialog : r.dialog[e] = s.dialog[e]
      /\ r.dialogs = PutInList(s.dialogs, d)
      /\ TransactionOf(r, d) = k /\ r.answers = s.answers
      /\ r.dialog[d].id = IdAfter(type, m, EmptyDialogId)
      /\ r.account = Append(s.account, account)
  BY DEF AgentMade, TransactionOf
<1>5. Listed(r) = Listed(s) \cup {d}
  <2> HIDE DEF d
  <2>1. s.dialogs \in Seq(Nat)
    BY <1>1 DEF Stacks
  <2>2. \A e : InList(r.dialogs, e) <=> (InList(s.dialogs, e) \/ e = d)
    <3>1. d \in Nat /\ r.dialogs = PutInList(s.dialogs, d)
      BY <1>3, <1>4
    <3> QED BY <2>1, <3>1, PutListed
  <2> QED BY <1>3, <2>2 DEF Listed
<1>6. \A e \in DOMAIN s.dialog : r.account[e] = s.account[e]
  <2>1. s.account \in Seq(Nat) /\ DOMAIN s.dialog = 1 .. Len(s.account)
    BY <1>1, DialogDomain DEF Stacks
  <2> HIDE DEF d
  <2> QED BY <1>4, <2>1
<1>7. AcceptedOf(r) = AcceptedOf(s)
  <2>1. <<k, "SEND_OK">> \notin s.answers
    <3>1. \A a \in s.answers : a[1] \in Tr(s)
      BY DEF Good, GoodBut, Machines, AnsweredOnce
    <3> HIDE DEF k
    <3> QED BY <1>2, <3>1
  <2> QED BY <1>2, <1>4, <2>1 DEF AcceptedOf
<1> HIDE DEF d, k
<1>8. ~Over(r, k)
  BY <1>2 DEF Over, FirstState
<1>9. r.dialog[d].id.remote # PeerTag /\ (type = "SERVER_INVITE" => r.dialog[d].id.call \in Calls)
  <2>1. CASE type = "SERVER_INVITE"
    <3>1. PICK p \in Calls, b \in Branches : m = Invite(p, b)
      BY <2>1 DEF Begins
    <3>2. m.from = p /\ m.call = p
      BY <3>1 DEF Invite, Request
    <3>3. r.dialog[d].id.remote = m.from /\ r.dialog[d].id.call = m.call
      BY <1>4, <2>1 DEF IdAfter, EmptyDialogId
    <3> QED BY <3>2, <3>3, NamesApart
  <2>2. CASE type # "SERVER_INVITE"
    <3>1. r.dialog[d].id.remote = Nil
      BY <1>4, <2>2 DEF IdAfter, EmptyDialogId
    <3> QED BY <2>2, <3>1, NamesApart
  <2> QED BY <2>1, <2>2
<1>10. Kept(s, r)
  BY <1>2, <1>3, <1>6 DEF Kept, Over
<1>11. Joined(s, r, d, type)
  <2>1. \A e \in Listed(s) : r.dialog[e] = s.dialog[e]
    BY <1>4 DEF Listed
  <2> QED BY <1>2, <1>3, <1>4, <1>5, <1>7, <1>8, <1>9, <2>1 DEF Joined, d, k
<1> QED BY <1>10, <1>11 DEF d

\* A call of the peer has come in.
ComesIn(s, r) ==
    /\ Joined(s, r, Fresh(s), "SERVER_INVITE")
    /\ r.told.event = "CALL_INCOMING" /\ r.told.ua = Fresh(s)
    /\ r.told.position \in Nat /\ GetUa(r, r.told.position) = Fresh(s)

Quiet(s, r) == Tame(s, r) /\ r.told = s.told
Finishes(s, r, m) == Tame(s, r) /\ Ended(s, r, m)

\* A request outside any transaction.
LEMMA NewRequestHandled ==
    ASSUME NEW s, Good(s), NEW m \in Requests, PeerSends(m),
           TmNewTransaction(s, m).fault = "none"
    PROVE  LET r == TmNewTransaction(s, m) IN
           /\ Good(r) /\ Kept(s, r) /\ r.binded = s.binded
           /\ Quiet(s, r) \/ ComesIn(s, r) \/ (m.method = "BYE" /\ Finishes(s, r, m))
<1> DEFINE r == TmNewTransaction(s, m)
<1>1. s \in Stacks /\ Len(s.account) = Len(s.dialog)
  BY DEF Good, GoodBut, Well
<1>2. CASE \E p \in Calls, b \in Branches : m = Invite(p, b)
  <2>1. m.method = "INVITE"
    BY <1>2 DEF Invite, Request
  <2>2. r = HandleInviteEvent(s, Null, "NEW", m)
    BY <2>1 DEF TmNewTransaction, OnTransactionEvent
  <2>3. CASE MatchMessage2Dialog(s, m) # Null
    <3>1. r = s
      BY <2>2, <2>3 DEF HandleInviteEvent
    <3> QED BY <3>1, SameIsKept DEF Quiet
  <2>4. CASE MatchMessage2Dialog(s, m) = Null
    <3> DEFINE s1 == AddDialog(AddUa(s, 0))
    <3>1. Len(s1.dialog) = Fresh(s)
      BY <1>1, AddUserAgentEffect
    <3>2. r = DialogNewTransaction(s1, Len(s1.dialog), m, "SERVER_INVITE")
      BY <2>2, <2>4 DEF HandleInviteEvent
    <3>3. r = DialogNewTransaction(s1, Fresh(s), m, "SERVER_INVITE")
      BY <3>1, <3>2
    <3>4. /\ AgentMade(s, r, 0, m, "SERVER_INVITE")
          /\ r.told.event = "CALL_INCOMING" /\ r.told.ua = Fresh(s)
          /\ r.told.position \in Nat /\ GetUa(r, r.told.position) = Fresh(s)
      <4>1. "SERVER_INVITE" \in TransactionTypes /\ r.fault = "none"
        BY DEF TransactionTypes, ServerTypes
      <4> QED BY <1>1, <3>3, <4>1, NewAgentEffect
    <3> HIDE DEF r
    <3>5. Begins(Len(s.transaction) + 1, "SERVER_INVITE", m)
      BY <1>2 DEF Begins, ClientTypes
    <3>6. Good(r)
      BY <2>4, <3>4, <3>5, AgentMove
    <3>7. Kept(s, r) /\ Joined(s, r, Fresh(s), "SERVER_INVITE")
      BY <2>1, <3>4, <3>5, AgentJoins
    <3>8. r.binded = s.binded
      BY <3>4 DEF AgentMade
    <3> QED BY <3>4, <3>6, <3>7, <3>8 DEF ComesIn, r
  <2> QED BY <2>3, <2>4
<1>3. CASE \E p \in Calls, b \in Branches : m = Cancel(p, b)
  <2>1. PICK p \in Calls, b \in Branches : m = Cancel(p, b)
    BY <1>3
  <2>2. m.method = "CANCEL"
    BY <2>1 DEF Cancel, Request
  <2>3. r = HandleCancelEvent(s, Cancel(p, b))
    BY <2>1, <2>2 DEF TmNewTransaction, OnTransactionEvent
  <2>4. Null \notin Listed(s)
    BY <1>1, DialogDomain DEF Listed, Null
  <2>5. GoodBut(s, Null) /\ r.fault = "none"
    BY DEF Good
  <2> HIDE DEF r
  <2>6. Good(r) /\ Kept(s, r) /\ Tame(s, r) /\ SameRest(s, r)
    BY <2>3, <2>4, <2>5, CancelHandled
  <2> QED BY <2>6 DEF Quiet, SameRest, r
<1>4. CASE m.method = "BYE" /\ m.branch[1] = "bye"
  <2>1. r = HandleByeEvent(s, m)
    BY <1>4 DEF TmNewTransaction, OnTransactionEvent
  <2>2. GoodBut(s, Null) /\ r.fault = "none" /\ Answerable(m)
    BY <1>4 DEF Good, Answerable
  <2> HIDE DEF r
  <2>3. /\ GoodBut(r, Null) /\ Kept(s, r) /\ Tame(s, r) /\ r.binded = s.binded
        /\ r.told = s.told \/ Ended(s, r, m)
    BY <2>1, <2>2, ByeHandled
  <2> QED BY <1>4, <2>3 DEF Good, Quiet, Finishes, r
<1> QED BY <1>2, <1>3, <1>4 DEF PeerSends

-----------------------------------------------------------------------------
(* A CANCEL of an INVITE *)

\* The client is told that the peer took back the call of t, which was open.
TakenBack(s, r, t) ==
    /\ TypeOf(s, t) = "SERVER_INVITE" /\ ~Over(s, t)
    /\ UserOf(s, t) \in Listed(s)
    /\ r.told.event = "CALL_PEER_CANCELED" /\ r.told.ua = UserOf(s, t)
    /\ r.told.position \in Nat

\* The user of t is told, in whatever way its latest request decides.
LEMMA UserToldOfCancel ==
    ASSUME NEW s, Good(s), NEW t \in Tr(s), TypeOf(s, t) = "SERVER_INVITE",
           ~Over(s, t), NEW p \in Calls, NEW b \in Branches,
           OnTransactionEvent(s, UserOf(s, t), "CANCEL", Cancel(p, b)).fault = "none"
    PROVE  LET r == OnTransactionEvent(s, UserOf(s, t), "CANCEL", Cancel(p, b)) IN
           /\ Good(r) /\ Kept(s, r) /\ Tame(s, r) /\ r.binded = s.binded
           /\ \A u \in Tr(s) : StateOf(r, u) = StateOf(s, u)
           /\ \/ r.told = s.told \/ TakenBack(s, r, t)
              \/ SomeBye(s) /\ Ended(s, r, Cancel(p, b))
<1> DEFINE d == UserOf(s, t)
           l == TransactionOf(s, d)
           m == Cancel(p, b)
           r == OnTransactionEvent(s, UserOf(s, t), "CANCEL", Cancel(p, b))
           method == RequestOf(s, l).method
<1>1. s \in Stacks /\ d \in DOMAIN s.dialog /\ d # Null /\ GoodBut(s, Null)
  BY DialogDomain DEF Good, GoodBut, Well, Null
<1>2. m \in Requests /\ Answerable(m)
  BY NamesApart DEF Cancel, Request, Requests, Methods, Tags, BranchNames, Answerable
<1>3. ~(InList(s.dialogs, d) /\ Dereferences(s, d)) => r.fault # "none"
  BY <1>1, DieFollows DEF OnTransactionEvent, Deaths, Running, Stacks
<1>4. d \in Listed(s) /\ InList(s.transactions, l)
  BY <1>1, <1>3 DEF Listed, Dereferences
<1>5. /\ l \in Tr(s) /\ UserOf(s, l) = d /\ InList(s.uas, d)
      /\ method = "INVITE" => t = l
      /\ method = "REGISTER" => RequestOf(s, t).method = "REGISTER"
  BY <1>1, <1>4 DEF GoodBut, AgentsBut, Linked, LatestRules
<1>6. RequestOf(s, t).method = "INVITE"
  BY DEF Good, GoodBut, Machines, AllBegan, Begins, Invite, Request
<1>7. r = CASE method = "REGISTER" -> HandleRegisterEvent(s, d, "CANCEL", m)
            [] method = "INVITE"   -> HandleInviteEvent(s, d, "CANCEL", m)
            [] method = "BYE"      -> HandleByeEvent(s, m)
            [] method = "CANCEL"   -> HandleCancelEvent(s, m)
            [] OTHER -> s
  BY <1>1, <1>4 DEF OnTransactionEvent, Listed, Dereferences, RequestOf
<1>7a. r.fault = "none"
  OBVIOUS
<1> HIDE DEF r, method, m
<1>8. method \in {"INVITE", "BYE", "CANCEL"}
  <2>1. RequestOf(s, l) \in Requests
    BY <1>1, <1>5, TransactionDomain DEF Tr, RequestOf, TransactionObjects
  <2> QED BY <1>5, <1>6, <2>1 DEF Requests, Methods, method
<1>9. CASE method = "INVITE"
  <2>1. r = NotifyCm(s, "CALL_PEER_CANCELED", d)
    BY <1>7, <1>9 DEF HandleInviteEvent
  <2>2. d \in Nat /\ "CALL_PEER_CANCELED" \in Life!Events
    BY <1>1, DialogDomain DEF Life!Events
  <2>3. GetUaPosition(s, d) \in Nat
    BY <1>1, <1>5, PositionOfListed
  <2> HIDE DEF d, l
  <2>4. /\ r \in Stacks /\ SameAgents(s, r) /\ SameMachines(s, r)
        /\ r.binded = s.binded
        /\ r.told = [event |-> "CALL_PEER_CANCELED", ua |-> d,
                     position |-> GetUaPosition(s, d)]
    BY <1>1, <2>1, <2>2, NotifyCmEffect
  <2>5. /\ GoodBut(r, Null) /\ Kept(s, r) /\ Tame(s, r)
        /\ \A u \in Tr(s) : StateOf(r, u) = StateOf(s, u)
    BY <1>1, <2>4, SameKeeps
  <2>6. TakenBack(s, r, t)
    <3>1. /\ r.told.event = "CALL_PEER_CANCELED" /\ r.told.ua = d
          /\ r.told.position = GetUaPosition(s, d)
      BY <2>4
    <3> QED BY <1>4, <2>3, <3>1 DEF TakenBack, d
  <2> QED BY <2>4, <2>5, <2>6 DEF Good, r, m
<1>10. CASE method = "BYE"
  <2>1. r = HandleByeEvent(s, m)
    BY <1>7, <1>10
  <2>2. /\ GoodBut(r, Null) /\ Kept(s, r) /\ Tame(s, r) /\ r.binded = s.binded
        /\ \A u \in Tr(s) : StateOf(r, u) = StateOf(s, u)
        /\ r.told = s.told \/ Ended(s, r, m)
    BY <1>1, <1>2, <1>7a, <2>1, ByeHandled
  <2>3. SomeBye(s)
    BY <1>4, <1>10 DEF SomeBye, method
  <2> QED BY <2>2, <2>3 DEF Good, r, m
<1>11. CASE method = "CANCEL"
  <2>1. r = HandleCancelEvent(s, Cancel(p, b))
    BY <1>7, <1>11 DEF m
  <2>2. Null \notin Listed(s)
    BY <1>1, DialogDomain DEF Listed, Null
  <2>3. Good(r) /\ Kept(s, r) /\ Tame(s, r) /\ SameRest(s, r)
        /\ \A u \in Tr(s) : StateOf(r, u) = StateOf(s, u)
    BY <1>1, <1>7a, <2>1, <2>2, CancelHandled
  <2> QED BY <2>3 DEF SameRest, r, m
<1> QED BY <1>8, <1>9, <1>10, <1>11

\* A CANCEL of an INVITE we have, in whatever state the dialog is: the call is
\* taken back; or nobody is told; or, when a BYE of ours is the latest request of
\* its dialog, the call is finished, which the user of that BYE was to be told.
LEMMA CancelOfInviteHandled ==
    ASSUME NEW s, Good(s), NEW t \in Tr(s), InList(s.transactions, t),
           NEW p \in Calls, NEW b \in Branches, TypeOf(s, t) = "SERVER_INVITE",
           RequestOf(s, t) = Invite(p, b),
           TmCancel(s, t, Cancel(p, b)).fault = "none"
    PROVE  LET r == TmCancel(s, t, Cancel(p, b)) IN
           /\ Good(r) /\ Kept(s, r) /\ Tame(s, r) /\ r.binded = s.binded
           /\ \/ r.told = s.told
              \/ TakenBack(s, r, t) /\ Over(r, t)
              \/ SomeBye(s) /\ Ended(s, r, Cancel(p, b))
<1> DEFINE d    == UserOf(s, t)
           m    == Cancel(p, b)
           told == OnTransactionEvent(s, UserOf(s, t), "CANCEL", m)
           q    == ResponseWith(told, t, "SEND_REQUEST_TERMINATED")
           r    == TmCancel(s, t, m)
<1>1. s \in Stacks /\ Running(s) /\ d \in DOMAIN s.dialog
  BY DEF Good, GoodBut, Well, Running, Stacks
<1>2. r = TmNewTransaction(q, m) /\ m.method = "CANCEL"
  BY DEF TmCancel, UserOf, Cancel, Request
<1>3. r = HandleCancelEvent(q, m)
  BY <1>2 DEF TmNewTransaction, OnTransactionEvent
<1>4. Running(told) /\ Running(q) /\ Follows(told, q) /\ Follows(q, r)
  <2>1. Running(told)
    BY <1>1, OnTransactionEventFollows DEF Follows
  <2>2. Follows(told, q)
    BY <2>1, ResponseWithFollows
  <2>3. Running(q)
    BY <2>2 DEF Follows
  <2>4. Follows(q, r)
    BY <1>2, <2>3, OnTransactionEventFollows DEF TmNewTransaction
  <2> QED BY <2>1, <2>2, <2>3, <2>4
<1>5. r.fault = "none" /\ q.fault = "none" /\ told.fault = "none"
  BY <1>4 DEF Follows
<1>6. StateOf(s, t) = "PROCEEDING" /\ ~Over(s, t)
  BY DEF Good, GoodBut, Machines, LiveListed, AllRest, Rests, Over
<1>7. told = OnTransactionEvent(s, UserOf(s, t), "CANCEL", Cancel(p, b))
  OBVIOUS
<1>8. q = ResponseWith(told, t, "SEND_REQUEST_TERMINATED")
  OBVIOUS
<1> HIDE DEF told, q, r
<1>9. /\ Good(told) /\ Kept(s, told) /\ Tame(s, told) /\ told.binded = s.binded
      /\ \A u \in Tr(s) : StateOf(told, u) = StateOf(s, u)
      /\ \/ told.told = s.told \/ TakenBack(s, told, t)
         \/ SomeBye(s) /\ Ended(s, told, Cancel(p, b))
  BY <1>5, <1>6, <1>7, UserToldOfCancel
<1>10. /\ t \in Tr(told) /\ StateOf(told, t) = "PROCEEDING" /\ InList(told.transactions, t)
       /\ TypeOf(told, t) = "SERVER_INVITE" /\ UserOf(told, t) = d /\ ~Over(told, t)
       /\ RequestOf(told, t) = Invite(p, b) /\ told \in Stacks
       /\ Well(told) /\ Machines(told) /\ AgentsBut(told, Null)
  <2>1. t \in Tr(told) /\ StateOf(told, t) = "PROCEEDING" /\ TypeOf(told, t) = "SERVER_INVITE"
          /\ UserOf(told, t) = d /\ RequestOf(told, t) = Invite(p, b)
    BY <1>6, <1>9 DEF Kept
  <2>2. Well(told) /\ Machines(told) /\ AgentsBut(told, Null) /\ told \in Stacks
    BY <1>9 DEF Good, GoodBut, Well
  <2>3. InList(told.transactions, t)
    BY <2>1, <2>2 DEF Machines, LiveListed
  <2> QED BY <2>1, <2>2, <2>3 DEF Over
<1>11. /\ q \in Stacks /\ SameAgents(told, q) /\ SameRest(told, q)
       /\ q.answers = told.answers \cup {<<t, "SEND_REQUEST_TERMINATED">>}
       /\ Stepped(told, q, t, "TERMINATED")
       /\ q.transactions = DelFromList(told.transactions, t)
  <2>1. PICK e \in EntriesFor(told, t, "SEND_REQUEST_TERMINATED") :
             /\ q \in Stacks /\ SameAgents(told, q) /\ SameRest(told, q)
             /\ q.answers = told.answers \cup {<<t, "SEND_REQUEST_TERMINATED">>}
             /\ Stepped(told, q, t, e.nextState)
             /\ q.transactions = IF e.nextState = "TERMINATED"
                                 THEN DelFromList(told.transactions, t)
                                 ELSE told.transactions
    <3>1. told \in Stacks /\ t \in DOMAIN told.transaction
      BY <1>10 DEF Tr
    <3> QED BY <1>5, <1>8, <3>1, ResponseWithEffect
  <2>2. e.nextState = "TERMINATED"
    BY <1>10, OnlyServersRespond
  <2> QED BY <2>1, <2>2
<1>12. GoodBut(q, d)
  <2>1. /\ Rests(TypeOf(told, t), "TERMINATED")
        /\ "TERMINATED" \in {"COMPLETED", "TERMINATED"}
        /\ TypeOf(told, t) \in ServerTypes
    BY <1>10 DEF Rests, ServerTypes
  <2> HIDE DEF d
  <2> QED BY <1>10, <1>11, <2>1, QuietMove
<1>13. Kept(told, q) /\ Tame(told, q) /\ Over(q, t)
  <2>1. Linked(told)
    BY <1>10 DEF AgentsBut
  <2>2. Kept(told, q) /\ Tame(told, q)
    BY <1>10, <1>11, <2>1, SteppedKeeps
  <2>3. StateOf(q, t) = "TERMINATED"
    BY <1>10, <1>11, SteppedParts
  <2> QED BY <2>2, <2>3 DEF Over
<1>14. \/ d \notin Listed(q)
       \/ Open(q, d)
       \/ q.dialog[d].id = [call |-> p, local |-> Nil, remote |-> p]
  <2>1. SUFFICES ASSUME d \in Listed(q)
                 PROVE  Open(q, d) \/ q.dialog[d].id = [call |-> p, local |-> Nil, remote |-> p]
    OBVIOUS
  <2>2. q.dialog = told.dialog /\ d \in Listed(told)
    BY <1>11, <2>1 DEF SameAgents, Listed
  <2>3. d # Null /\ d \in DOMAIN told.dialog
    BY <1>10, <2>2, DialogDomain DEF Listed, Null
  <2>4. Open(told, d) /\ Owns(told, d, told.dialog[d].id)
    BY <1>10, <2>2, <2>3 DEF AgentsBut, OwnIds
  <2>5. CASE TransactionOf(told, d) = t
    <3>1. told.dialog[d].id.call = p /\ told.dialog[d].id.local = Nil
      BY <1>10, <2>4, <2>5 DEF Open, Invite, Request
    <3>2. told.dialog[d].id.remote = p
      <4>1. p \notin Tr(told) /\ p # Nil
        BY <1>10, NamesApart, TransactionDomain DEF Tr
      <4> QED BY <2>4, <3>1, <4>1 DEF Owns, EmptyDialogId
    <3>3. told.dialog[d].id \in DialogIds
      BY <1>10, <2>3, DialogDomain DEF DialogObjects
    <3> QED BY <2>2, <3>1, <3>2, <3>3 DEF DialogIds
  <2>6. CASE TransactionOf(told, d) # t
    <3> DEFINE l == TransactionOf(told, d)
    <3>1. TransactionOf(q, d) = l /\ l \in Tr(told)
      BY <1>10, <2>2 DEF TransactionOf, AgentsBut, Linked
    <3>2. /\ TypeOf(q, l) = TypeOf(told, l) /\ RequestOf(q, l) = RequestOf(told, l)
          /\ StateOf(q, l) = StateOf(told, l)
      BY <1>10, <1>11, <2>6, <3>1, SteppedParts
    <3> QED BY <2>2, <2>4, <3>1, <3>2 DEF Open
  <2> QED BY <2>5, <2>6
<1>15. /\ Good(r) /\ Kept(q, r) /\ Tame(q, r) /\ SameRest(q, r)
       /\ \A u \in Tr(q) : StateOf(r, u) = StateOf(q, u)
  <2> HIDE DEF d
  <2>1. r = HandleCancelEvent(q, Cancel(p, b)) /\ r.fault = "none"
    BY <1>3, <1>5
  <2> QED BY <1>12, <1>14, <2>1, CancelHandled
<1>16. Kept(s, q) /\ Tame(s, q)
  BY <1>9, <1>13, KeptTransitively, TameTransitively
<1>17. Kept(s, r) /\ Tame(s, r)
  BY <1>15, <1>16, KeptTransitively, TameTransitively
<1>18. r.binded = s.binded /\ r.told = told.told
  BY <1>9, <1>11, <1>15 DEF SameRest
<1>19. Over(r, t)
  BY <1>10, <1>13, <1>15 DEF Kept
<1>20. TakenBack(s, told, t) => TakenBack(s, r, t)
  BY <1>18 DEF TakenBack
<1>21. Ended(s, told, Cancel(p, b)) => Ended(s, r, Cancel(p, b))
  <2>1. Listed(r) \subseteq Listed(told)
    BY <1>13, <1>15 DEF Tame, Calm
  <2> QED BY <1>18, <2>1 DEF Ended
<1> QED BY <1>9, <1>15, <1>17, <1>18, <1>19, <1>20, <1>21 DEF r

\* The listed transaction that a peer's INVITE or CANCEL matches is the INVITE.
LEMMA MatchedInvite ==
    ASSUME NEW s, Good(s), NEW t \in Tr(s), InList(s.transactions, t),
           NEW p \in Calls, NEW b \in Branches,
           RequestOf(s, t).method = "INVITE", RequestOf(s, t).branch = <<p, b>>
    PROVE  /\ TypeOf(s, t) = "SERVER_INVITE" /\ StateOf(s, t) = "PROCEEDING"
           /\ RequestOf(s, t) = Invite(p, b)
<1> DEFINE m == RequestOf(s, t)
<1>1. s \in Stacks /\ TypeOf(s, t) \in TransactionTypes
  BY TransactionDomain DEF Good, GoodBut, Well, Tr, TypeOf, TransactionObjects
<1>2. Begins(t, TypeOf(s, t), m) /\ Rests(TypeOf(s, t), StateOf(s, t))
        /\ StateOf(s, t) # "TERMINATED"
  BY DEF Good, GoodBut, Machines, AllBegan, AllRest, LiveListed
<1>3. m.branch # <<"here", t>>
  <2>1. p # "here"
    BY NamesApart
  <2> QED BY <2>1
<1>4. TypeOf(s, t) = "SERVER_INVITE"
  BY <1>1, <1>2, <1>3 DEF Begins, TransactionTypes, ClientTypes, ServerTypes
<1>5. StateOf(s, t) = "PROCEEDING"
  BY <1>2, <1>4 DEF Rests
<1>6. PICK p1 \in Calls, b1 \in Branches : m = Invite(p1, b1)
  BY <1>2, <1>4 DEF Begins
<1>7. <<p1, b1>> = <<p, b>>
  BY <1>6 DEF Invite, Request
<1>8. p1 = p /\ b1 = b
  BY <1>7
<1> QED BY <1>4, <1>5, <1>6, <1>8

\* Whatever a peer sends, a turn that the process survives does one of these.
RequestOutcome(s, r, m) ==
    \/ Quiet(s, r)
    \/ ComesIn(s, r)
    \/ Tame(s, r) /\ \E t \in Tr(s) : TakenBack(s, r, t) /\ Over(r, t)
    \/ Finishes(s, r, m) /\ (m.method = "BYE" \/ SomeBye(s))

\* A request of a peer keeps the invariant and does one of these.
LEMMA RequestHandled ==
    ASSUME NEW s, Good(s), NEW m \in Requests, PeerSends(m),
           TmHandleRequestMessage(s, m).fault = "none"
    PROVE  LET r == TmHandleRequestMessage(s, m) IN
           Good(r) /\ Kept(s, r) /\ r.binded = s.binded /\ RequestOutcome(s, r, m)
<1> DEFINE t == MatchRequest(s, m)
           r == TmHandleRequestMessage(s, m)
<1>1. s \in Stacks /\ Well(s) /\ Machines(s) /\ AgentsBut(s, Null) /\ Linked(s)
  BY DEF Good, GoodBut, Well, AgentsBut
<1>2. r = IF t = Null THEN TmNewTransaction(s, m) ELSE TmRequestInTransaction(s, t, m)
  BY DEF TmHandleRequestMessage
<1>3. t # Null => /\ InList(s.transactions, t) /\ t \in Tr(s)
                  /\ RequestOf(s, t).branch = m.branch
                  /\ RequestOf(s, t).method = IF m.method = "CANCEL" THEN "INVITE"
                                                                    ELSE m.method
  <2> DEFINE method == IF m.method = "CANCEL" THEN "INVITE" ELSE m.method
  <2>1. t = GetTransaction(s, m.branch, method)
    BY DEF MatchRequest
  <2> HIDE DEF t, method
  <2>2. t # Null => /\ InList(s.transactions, t) /\ t \in DOMAIN s.transaction
                    /\ s.transaction[t].request.branch = m.branch
                    /\ s.transaction[t].request.method = method
    BY <1>1, <2>1, GetTransactionEffect
  <2> QED BY <2>2 DEF Tr, RequestOf, method
<1>4. r.fault = "none"
  OBVIOUS
<1> HIDE DEF r, t
<1>5. CASE t = Null
  <2>1. /\ Good(r) /\ Kept(s, r) /\ r.binded = s.binded
        /\ Quiet(s, r) \/ ComesIn(s, r) \/ (m.method = "BYE" /\ Finishes(s, r, m))
    BY <1>2, <1>4, <1>5, NewRequestHandled
  <2> QED BY <2>1 DEF RequestOutcome, r
<1>6. CASE t # Null /\ \E p \in Calls, b \in Branches : m = Invite(p, b)
  <2>1. PICK p \in Calls, b \in Branches : m = Invite(p, b)
    BY <1>6
  <2>2. m.method = "INVITE" /\ m.branch = <<p, b>>
    BY <2>1 DEF Invite, Request
  <2>3. TypeOf(s, t) = "SERVER_INVITE" /\ StateOf(s, t) = "PROCEEDING"
          /\ RequestOf(s, t).method = "INVITE" /\ t \in Tr(s) /\ InList(s.transactions, t)
    BY <1>3, <1>6, <2>2, MatchedInvite
  <2>4. r = RunQuietly(s, t, "INVITE")
    BY <1>2, <1>6, <2>2 DEF TmRequestInTransaction
  <2>5. PICK e \in EntriesFor(s, t, "INVITE") :
             /\ r \in Stacks /\ SameAgents(s, r) /\ SameRest(s, r)
             /\ r.answers = s.answers
             /\ Stepped(s, r, t, e.nextState)
             /\ r.transactions = IF e.nextState = "TERMINATED"
                                 THEN DelFromList(s.transactions, t)
                                 ELSE s.transactions
    BY <1>1, <1>4, <2>3, <2>4, RunQuietlyEffect DEF Tr
  <2>6. e.nextState = "PROCEEDING"
    <3>1. e \in LocateEventEntry(TypeOf(s, t), StateOf(s, t), "INVITE")
      BY <2>5 DEF EntriesFor, TypeOf, StateOf
    <3>2. TypeOf(s, t) \in ServerTypes
      BY <2>3 DEF ServerTypes
    <3> QED BY <2>3, <3>1, <3>2, ServerEntries
  <2>7. /\ Stepped(s, r, t, "PROCEEDING") /\ r.transactions = s.transactions
        /\ r \in Stacks /\ SameAgents(s, r) /\ r.answers = s.answers
    BY <2>5, <2>6
  <2>8. GoodBut(r, Null)
    <3>1. Rests(TypeOf(s, t), "PROCEEDING") /\ ~Over(s, t)
      BY <2>3 DEF Rests, Over
    <3> QED BY <1>1, <2>3, <2>7, <3>1, QuietMove
  <2>9. Kept(s, r) /\ Tame(s, r)
    <3>1. ~Over(s, t)
      BY <2>3 DEF Over
    <3>2. "INVITE" # "SEND_OK"
      OBVIOUS
    <3> QED BY <1>1, <2>3, <2>7, <3>1, <3>2, SteppedKeeps
  <2>10. r.told = s.told /\ r.binded = s.binded
    BY <2>5 DEF SameRest
  <2> QED BY <2>8, <2>9, <2>10 DEF Good, RequestOutcome, Quiet, r
<1>7. CASE t # Null /\ \E p \in Calls, b \in Branches : m = Cancel(p, b)
  <2>1. PICK p \in Calls, b \in Branches : m = Cancel(p, b)
    BY <1>7
  <2>2. m.method = "CANCEL" /\ m.branch = <<p, b>>
    BY <2>1 DEF Cancel, Request
  <2>3. /\ TypeOf(s, t) = "SERVER_INVITE" /\ RequestOf(s, t) = Invite(p, b)
        /\ t \in Tr(s) /\ InList(s.transactions, t)
    BY <1>3, <1>7, <2>2, MatchedInvite
  <2>4. r = TmCancel(s, t, Cancel(p, b))
    BY <1>2, <1>7, <2>1, <2>2 DEF TmRequestInTransaction
  <2>5. /\ Good(r) /\ Kept(s, r) /\ Tame(s, r) /\ r.binded = s.binded
        /\ \/ r.told = s.told
           \/ TakenBack(s, r, t) /\ Over(r, t)
           \/ SomeBye(s) /\ Ended(s, r, Cancel(p, b))
    BY <1>4, <2>3, <2>4, CancelOfInviteHandled
  <2> QED BY <2>1, <2>3, <2>5 DEF RequestOutcome, Quiet, Finishes, r
<1>8. CASE t # Null /\ m.method = "BYE"
  <2>1. r = s
    BY <1>2, <1>8 DEF TmRequestInTransaction
  <2> QED BY <2>1, SameIsKept DEF RequestOutcome, Quiet, r
<1> QED BY <1>5, <1>6, <1>7, <1>8 DEF PeerSends

-----------------------------------------------------------------------------
(* Commands *)

\* The client accepts a call, which is a call of the peer that was open.
Accepts(s, r, t) ==
    /\ TypeOf(s, t) = "SERVER_INVITE" /\ ~Over(s, t)
    /\ AcceptedOf(r) = AcceptedOf(s) \cup {t}
    /\ Tr(r) = Tr(s)
    /\ \A d \in Listed(r) :
         /\ d \in Listed(s) /\ TransactionOf(r, d) = TransactionOf(s, d)
         /\ r.dialog[d].id.call = s.dialog[d].id.call
         /\ r.dialog[d].id.remote = s.dialog[d].id.remote
    /\ UserOf(s, t) \in Listed(s)
    /\ r.told = s.told

\* The client's accept, at whatever position, keeps the invariant.
LEMMA AcceptHandled ==
    ASSUME NEW s, Good(s), NEW position, AcceptCall(s, position).fault = "none"
    PROVE  LET r == AcceptCall(s, position) IN
           /\ Good(r) /\ Kept(s, r) /\ r.binded = s.binded
           /\ \E t \in Tr(s) : Accepts(s, r, t)
<1> DEFINE d == GetDialogByUa(s, GetUa(s, position))
           t == TransactionOf(s, d)
           r == DialogOk(s, d)
<1>1. s \in Stacks /\ Running(s) /\ Well(s) /\ Machines(s) /\ Linked(s)
  BY DEF Good, GoodBut, Well, AgentsBut, Running, Stacks
<1>2. r = AcceptCall(s, position) /\ r.fault = "none"
  BY DEF AcceptCall
<1>3. d # Null
  <2>1. d = Null => r = Die(s, "NO_DIALOG")
    BY DEF DialogOk
  <2> HIDE DEF d
  <2> QED BY <1>1, <1>2, <2>1, DieFollows DEF Deaths
<1>4. InList(s.dialogs, d)
  BY <1>3 DEF GetDialogByUa
<1> HIDE DEF d
<1>5. d \in Listed(s)
  BY <1>4 DEF Listed, Well, Lists, InList, Good, GoodBut
<1>6. t \in Tr(s) /\ UserOf(s, t) = d /\ d \in DOMAIN s.dialog
  BY <1>1, <1>5 DEF Linked, Listed
<1>7. /\ Good(r) /\ r.dialog[d].id.call = s.dialog[d].id.call
      /\ r.dialog[d].id.remote = s.dialog[d].id.remote
      /\ SameDialogsBut(s, r, d) /\ SameRest(s, r)
  BY <1>2, <1>5, AcceptMove
<1> HIDE DEF r
<1>8. /\ InList(s.transactions, t)
      /\ AfterOk(s, d, r.dialog[d])
      /\ r.answers = s.answers \cup {<<t, "SEND_OK">>}
      /\ \E e \in EntriesFor(s, t, "SEND_OK") : Stepped(s, r, t, e.nextState)
  BY <1>1, <1>2, <1>6, DialogOkEffect DEF Tr, r
<1>9. PICK e \in EntriesFor(s, t, "SEND_OK") : Stepped(s, r, t, e.nextState)
  BY <1>8
<1>10. /\ TypeOf(s, t) = "SERVER_INVITE" /\ StateOf(s, t) = "PROCEEDING"
       /\ e.nextState = "TERMINATED"
  BY <1>1, <1>6, <1>8, OnlyServersRespond
<1>11. /\ Tr(r) = Tr(s)
       /\ \A u \in Tr(s) : /\ TypeOf(r, u) = TypeOf(s, u)
                           /\ RequestOf(r, u) = RequestOf(s, u)
                           /\ UserOf(r, u) = UserOf(s, u)
                           /\ StateOf(r, u) = IF u = t THEN "TERMINATED" ELSE StateOf(s, u)
  BY <1>1, <1>9, <1>10, SteppedParts
<1>12. /\ DOMAIN r.dialog = DOMAIN s.dialog /\ Listed(r) = Listed(s)
       /\ r.account = s.account
       /\ \A c \in DOMAIN s.dialog : c # d =>
             r.dialog[c] = s.dialog[c] /\ TransactionOf(r, c) = TransactionOf(s, c)
  BY <1>1, <1>7, SameDialogsParts, SMTT(30) DEF SameDialogsBut
<1>13. TransactionOf(r, d) = t
  BY <1>8 DEF AfterOk, TransactionOf
<1>14. Kept(s, r)
  BY <1>11, <1>12 DEF Kept, Over
<1>15. RequestOf(s, t).method = "INVITE"
  BY <1>1, <1>6, <1>10 DEF Machines, AllBegan, Begins, Invite, Request
<1>16. AcceptedOf(r) = AcceptedOf(s) \cup {t}
  <2>1. \A u : <<u, "SEND_OK">> \in r.answers <=> (<<u, "SEND_OK">> \in s.answers \/ u = t)
    BY <1>8
  <2> QED BY <1>6, <1>11, <1>15, <2>1 DEF AcceptedOf
<1>17. Accepts(s, r, t)
  <2>1. ~Over(s, t)
    BY <1>10 DEF Over
  <2>2. \A c \in Listed(r) : c \in DOMAIN s.dialog /\ c \in Listed(s)
    BY <1>12 DEF Listed
  <2>3. \A c \in Listed(r) :
          /\ TransactionOf(r, c) = TransactionOf(s, c)
          /\ r.dialog[c].id.call = s.dialog[c].id.call
          /\ r.dialog[c].id.remote = s.dialog[c].id.remote
    BY <1>7, <1>12, <1>13, <2>2
  <2>4. r.told = s.told
    BY <1>7 DEF SameRest
  <2> HIDE DEF t
  <2> QED BY <1>5, <1>6, <1>10, <1>11, <1>16, <2>1, <2>2, <2>3, <2>4 DEF Accepts
<1> QED BY <1>2, <1>6, <1>7, <1>14, <1>17 DEF SameRest

\* So does ringing, which changes no call.
LEMMA RingingHandled ==
    ASSUME NEW s, Good(s), NEW position, Ringing(s, position).fault = "none"
    PROVE  LET r == Ringing(s, position) IN
           Good(r) /\ Kept(s, r) /\ r.binded = s.binded /\ Quiet(s, r)
<1> DEFINE d == GetDialogByUa(s, GetUa(s, position))
           t == TransactionOf(s, d)
           r == Ringing(s, position)
<1>1. s \in Stacks /\ Running(s) /\ Well(s) /\ Machines(s) /\ AgentsBut(s, Null)
        /\ Linked(s)
  BY DEF Good, GoodBut, Well, AgentsBut, Running, Stacks
<1>2. /\ d = Null => r = Die(s, "NULL")
      /\ d # Null /\ ~Dereferences(s, d) => r = Die(s, "DANGLED")
      /\ d # Null /\ Dereferences(s, d) => r = ResponseWith(s, t, "SEND_RINGING")
  BY DEF DialogRinging, Ringing
<1>2a. r.fault = "none"
  OBVIOUS
<1>3. d # Null => InList(s.dialogs, d)
  BY DEF GetDialogByUa
<1> HIDE DEF d, r
<1>4. d # Null /\ Dereferences(s, d)
  BY <1>1, <1>2, <1>2a, DieFollows DEF Deaths
<1>5. d \in Listed(s)
  BY <1>3, <1>4 DEF Listed, Well, Lists, InList, Good, GoodBut
<1>6. t \in Tr(s) /\ UserOf(s, t) = d /\ InList(s.transactions, t)
  BY <1>1, <1>4, <1>5 DEF Linked, Dereferences
<1>7. r = ResponseWith(s, t, "SEND_RINGING")
  BY <1>2, <1>4
<1> HIDE DEF t
<1>8. PICK e \in EntriesFor(s, t, "SEND_RINGING") :
             /\ r \in Stacks /\ SameAgents(s, r) /\ SameRest(s, r)
             /\ r.answers = s.answers
             /\ Stepped(s, r, t, e.nextState)
             /\ r.transactions = IF e.nextState = "TERMINATED"
                                 THEN DelFromList(s.transactions, t)
                                 ELSE s.transactions
  BY <1>1, <1>2a, <1>6, <1>7, ResponseWithEffect DEF Tr
<1>9. /\ TypeOf(s, t) = "SERVER_INVITE" /\ StateOf(s, t) = "PROCEEDING"
      /\ e.nextState = "PROCEEDING"
  BY <1>1, <1>6, OnlyServersRespond
<1>10. /\ Stepped(s, r, t, "PROCEEDING") /\ r.transactions = s.transactions
       /\ r \in Stacks /\ SameAgents(s, r) /\ r.answers = s.answers
  BY <1>8, <1>9
<1>11. GoodBut(r, Null)
  <2>1. Rests(TypeOf(s, t), "PROCEEDING") /\ ~Over(s, t)
    BY <1>9 DEF Rests, Over
  <2>2. RequestOf(s, t).method = "INVITE"
    BY <1>1, <1>6, <1>9 DEF Machines, AllBegan, Begins, Invite, Request
  <2> QED BY <1>1, <1>6, <1>9, <1>10, <2>1, <2>2, QuietMove
<1>12. Kept(s, r) /\ Tame(s, r)
  <2>1. ~Over(s, t)
    BY <1>9 DEF Over
  <2>2. "SEND_RINGING" # "SEND_OK"
    OBVIOUS
  <2> QED BY <1>1, <1>6, <1>9, <1>10, <2>1, <2>2, SteppedKeeps
<1> QED BY <1>8, <1>11, <1>12 DEF Good, Quiet, SameRest, r

\* A request of our own is the first of a user agent made for it.
GoesOut(s, r) ==
    \E type \in ClientTypes : Joined(s, r, Fresh(s), type) /\ r.told = s.told

\* So does a request of our own with which a user agent is made.
LEMMA NewAgentHandled ==
    ASSUME NEW s, Good(s), NEW account \in Nat, NEW type \in ClientTypes,
           NEW m \in Requests,
           Begins(Len(s.transaction) + 1, type, m),
           type = "CLIENT_NON_INVITE" => m.method = "REGISTER",
           DialogNewTransaction(AddDialog(AddUa(s, account)), Fresh(s), m, type).fault
              = "none"
    PROVE  LET r == DialogNewTransaction(AddDialog(AddUa(s, account)), Fresh(s), m, type)
           IN  /\ Good(r) /\ Kept(s, r) /\ r.binded = s.binded /\ GoesOut(s, r)
               /\ AgentMade(s, r, account, m, type)
<1> DEFINE r == DialogNewTransaction(AddDialog(AddUa(s, account)), Fresh(s), m, type)
<1>1. s \in Stacks /\ Len(s.account) = Len(s.dialog)
  BY DEF Good, GoodBut, Well
<1>2. AgentMade(s, r, account, m, type) /\ r.told = s.told
  <2>1. type \in TransactionTypes /\ type # "SERVER_INVITE"
    BY DEF TransactionTypes, ClientTypes
  <2> QED BY <1>1, <2>1, NewAgentEffect
<1> HIDE DEF r
<1>3. /\ type \in {"SERVER_INVITE", "CLIENT_INVITE", "CLIENT_NON_INVITE"}
      /\ m.method # "BYE" /\ type # "SERVER_INVITE"
  BY DEF ClientTypes, Begins
<1>4. Good(r)
  BY <1>2, <1>3, AgentMove
<1>5. Kept(s, r) /\ Joined(s, r, Fresh(s), type)
  BY <1>2, <1>3, AgentJoins
<1> QED BY <1>2, <1>4, <1>5 DEF GoesOut, AgentMade, r

\* So does a call of the client.
LEMMA CallOutHandled ==
    ASSUME NEW s, Good(s), CallOut(s).fault = "none"
    PROVE  LET r == CallOut(s) IN
           Good(r) /\ Kept(s, r) /\ r.binded = s.binded /\ GoesOut(s, r)
<1> DEFINE s1 == AddDialog(AddUa(s, 1))
           n  == Len(s.transaction) + 1
           m  == Request("INVITE", <<"here", n>>, n, n, Nil)
<1>1. s \in Stacks /\ Len(s.account) = Len(s.dialog)
  BY DEF Good, GoodBut, Well
<1>2. Len(s1.dialog) = Fresh(s) /\ s1.transaction = s.transaction
  BY <1>1, AddUserAgentEffect DEF SameMachines
<1>3. CallOut(s) = DialogNewTransaction(s1, Fresh(s), m, "CLIENT_INVITE")
  BY <1>2 DEF CallOut, DialogInvite, BuildRequest
<1>5. /\ m \in Requests /\ m.method = "INVITE" /\ m.branch = <<"here", n>>
      /\ m.call = n /\ m.from = n /\ m.to = Nil
  <2>1. n \in Nat
    BY <1>1, TransactionDomain
  <2> HIDE DEF n
  <2> QED BY <2>1 DEF Request, Requests, Methods, Tags, BranchNames
<1> HIDE DEF m
<1>6. Begins(n, "CLIENT_INVITE", m) /\ "CLIENT_INVITE" \in ClientTypes
  BY <1>5 DEF Begins, ClientTypes
<1> QED BY <1>3, <1>5, <1>6, NewAgentHandled

\* So does binding an account, and unbinding it.
LEMMA BindingRequestHandled ==
    ASSUME NEW s, Good(s), NEW account \in Nat,
           NEW handler \in {AccountAddBinding(s, account), AccountRemoveBinding(s, account)},
           handler.fault = "none"
    PROVE  /\ Good(handler) /\ Kept(s, handler) /\ handler.binded = s.binded
           /\ GoesOut(s, handler)
           /\ \E m : AgentMade(s, handler, account, m, "CLIENT_NON_INVITE")
<1> DEFINE s1 == AddDialog(AddUa(s, account))
           n  == Len(s.transaction) + 1
           m(expires) == [Request("REGISTER", <<"here", n>>, n, n, Nil)
                             EXCEPT !.expires = expires]
<1>1. s \in Stacks /\ Len(s.account) = Len(s.dialog)
  BY DEF Good, GoodBut, Well
<1>2. Len(s1.dialog) = Fresh(s) /\ s1.transaction = s.transaction
  BY <1>1, AddUserAgentEffect DEF SameMachines
<1>3. /\ BuildAddBindingMessage(s1) = m(Lifetime)
      /\ BuildRemoveBindingMessage(s1) = m(0)
  BY <1>2 DEF BuildAddBindingMessage, BuildRemoveBindingMessage, BuildRequest, Request
<1>4. /\ AccountAddBinding(s, account)
            = DialogNewTransaction(s1, Fresh(s), m(Lifetime), "CLIENT_NON_INVITE")
      /\ AccountRemoveBinding(s, account)
            = DialogNewTransaction(s1, Fresh(s), m(0), "CLIENT_NON_INVITE")
  BY <1>2, <1>3 DEF AccountAddBinding, AccountRemoveBinding
<1>5. PICK expires \in {0, Lifetime} :
         handler = DialogNewTransaction(s1, Fresh(s), m(expires), "CLIENT_NON_INVITE")
  BY <1>4
<1>6. /\ m(expires) \in Requests /\ m(expires).method = "REGISTER"
      /\ m(expires).branch = <<"here", n>>
      /\ m(expires).call = n /\ m(expires).from = n /\ m(expires).to = Nil
  <2>1. n \in Nat
    BY <1>1, TransactionDomain
  <2> HIDE DEF n
  <2> QED BY <2>1 DEF Request, Requests, Methods, Tags, BranchNames
<1> HIDE DEF m
<1>7. Begins(n, "CLIENT_NON_INVITE", m(expires)) /\ "CLIENT_NON_INVITE" \in ClientTypes
  BY <1>6 DEF Begins, ClientTypes
<1> QED BY <1>5, <1>6, <1>7, NewAgentHandled

\* A call is ended by a BYE of ours, which ends no other.
Leaves(s, r) == Calm(s, r) /\ r.told = s.told

\* So does ending the first call of the list.
LEMMA EndCallHandled ==
    ASSUME NEW s, Good(s), NEW known, EndCall(s, known).fault = "none"
    PROVE  LET r == EndCall(s, known) IN
           Good(r) /\ Kept(s, r) /\ r.binded = s.binded /\ Leaves(s, r)
<1> DEFINE d == GetDialog(s, 0)
           n == Len(s.transaction) + 1
           m == BuildRequest(s, "BYE")
           r == DialogTerminate(s, d, known)
<1>1. s \in Stacks /\ Running(s) /\ Well(s)
  BY DEF Good, GoodBut, Well, Running, Stacks
<1>2. r = EndCall(s, known) /\ r.fault = "none"
  BY DEF EndCall
<1>3. d # Null
  <2>1. d = Null => r = Die(s, "NO_DIALOG")
    BY DEF DialogTerminate
  <2> HIDE DEF d
  <2> QED BY <1>1, <1>2, <2>1, DieFollows DEF Deaths
<1>4. d \in Listed(s)
  BY <1>1, <1>3 DEF GetDialog, Listed, Well, Lists, InList
<1>5. m = Request("BYE", <<"here", n>>, n, n, Nil)
  BY DEF BuildRequest
<1>6. /\ m \in Requests /\ m.method = "BYE" /\ m.branch = <<"here", n>>
      /\ m.call = n /\ m.from = n /\ m.to = Nil
  <2>1. n \in Nat
    BY <1>1, TransactionDomain
  <2> HIDE DEF n, m
  <2> QED BY <1>5, <2>1 DEF Request, Requests, Methods, Tags, BranchNames
<1> HIDE DEF d
<1>7. /\ r \in Stacks /\ SameDialogsBut(s, r, d) /\ SameRest(s, r)
      /\ r.dialog[d].id = s.dialog[d].id
      /\ r.dialog[d].state = "TERMINATED"
      /\ r.dialog[d].transaction = n
      /\ r.answers = s.answers
      /\ r.transactions = PutInList(s.transactions, n)
      /\ Started(s, r, m, d, "CLIENT_NON_INVITE")
  BY <1>1, <1>2, <1>4, <1>6, DialogTerminateEffect DEF Listed
<1> HIDE DEF m, r
<1>8. Within(s, r, d, m, "CLIENT_NON_INVITE", "TRYING")
  <2>1. Begins(n, "CLIENT_NON_INVITE", m) /\ Rests("CLIENT_NON_INVITE", "TRYING")
    BY <1>6 DEF Begins, ClientTypes, Rests
  <2>2. Appended(s, r, m, d, "CLIENT_NON_INVITE", "TRYING")
    BY <1>7 DEF Started, FirstState
  <2> QED BY <1>6, <1>7, <2>1, <2>2 DEF Within, TransactionOf
<1>9. Good(r)
  BY <1>4, <1>6, <1>7, <1>8, RequestMove
<1>10. Kept(s, r) /\ Calm(s, r)
  <2>1. r.dialog[d].id.call = s.dialog[d].id.call /\ r.dialog[d].id.remote = s.dialog[d].id.remote
    BY <1>7
  <2>2. GoodBut(s, Null)
    BY DEF Good
  <2> QED BY <1>4, <1>8, <2>1, <2>2, WithinIsTame
<1> QED BY <1>2, <1>7, <1>9, <1>10 DEF Leaves, SameRest

-----------------------------------------------------------------------------
(* The responses of a peer *)

\* What a response does to the machine of its request.
ResponseSteps(s, q, t, code, next) ==
    /\ q \in Stacks /\ SameAgents(s, q) /\ SameRest(s, q)
    /\ q.transactions = s.transactions /\ q.answers = s.answers
    /\ Stepped(s, q, t, next)
    /\ Rests(TypeOf(s, t), next)
    /\ Over(s, t) => next \in {"COMPLETED", "TERMINATED"}
    /\ RequestOf(s, t).method = "REGISTER" /\ next \in {"TRYING", "PROCEEDING"} => Waits(s, t)
    /\ code \in FinalEvents => next \in {"COMPLETED", "TERMINATED"}
    /\ code = "2XX" => ~Over(s, t)
    /\ next = "TERMINATED" => code = "2XX"
    /\ next = "TERMINATED" <=> code = "2XX" /\ TypeOf(s, t) = "CLIENT_INVITE"
    /\ Informs(s, t, code) =>
         /\ ~Over(s, t)
         /\ code \in {"1XX", "2XX"} \/ (code = "4XX" /\ TypeOf(s, t) = "CLIENT_NON_INVITE")

\* A response that the process survives takes the machine where its entry says.
LEMMA ResponseStep ==
    ASSUME NEW s, Good(s), NEW t \in Tr(s), InList(s.transactions, t),
           TypeOf(s, t) \in ClientTypes, NEW code \in ResponseEvents,
           Advance(s, t, code).fault = "none"
    PROVE  \E next : ResponseSteps(s, Advance(s, t, code), t, code, next)
<1> DEFINE q == Advance(s, t, code)
<1>1. s \in Stacks
  BY DEF Good, GoodBut, Well
<1>2. PICK e \in EntriesFor(s, t, code) :
             /\ q \in Stacks /\ SameAgents(s, q) /\ SameRest(s, q)
             /\ q.transactions = s.transactions /\ q.answers = s.answers
             /\ Stepped(s, q, t, e.nextState)
  BY <1>1, AdvanceEffect DEF Tr
<1>3. \A f \in EntriesFor(s, t, code) :
           /\ StateOf(s, t) \in {"CALLING", "TRYING", "PROCEEDING", "COMPLETED"}
           /\ code = "1XX" => f.nextState = "PROCEEDING" /\ StateOf(s, t) # "COMPLETED"
           /\ code # "1XX" => f.nextState \in {"COMPLETED", "TERMINATED"}
           /\ f.nextState = "TERMINATED" => TypeOf(s, t) = "CLIENT_INVITE" /\ code = "2XX"
           /\ code = "2XX" /\ TypeOf(s, t) = "CLIENT_INVITE" => f.nextState = "TERMINATED"
           /\ TypeOf(s, t) = "CLIENT_NON_INVITE" => StateOf(s, t) # "COMPLETED"
           /\ code = "2XX" => StateOf(s, t) # "COMPLETED"
           /\ (\E i \in DOMAIN f.actions : f.actions[i] = "InformTU") =>
                /\ StateOf(s, t) # "COMPLETED"
                /\ code \in {"1XX", "2XX"}
                     \/ (code = "4XX" /\ TypeOf(s, t) = "CLIENT_NON_INVITE")
  <2>1. \A f \in EntriesFor(s, t, code) :
             f \in LocateEventEntry(TypeOf(s, t), StateOf(s, t), code)
    BY DEF EntriesFor, TypeOf, StateOf
  <2> QED BY <2>1, ClientEntries
<1> DEFINE next == e.nextState
<1> HIDE DEF q
<1>4. Rests(TypeOf(s, t), StateOf(s, t)) /\ Begins(t, TypeOf(s, t), RequestOf(s, t))
  BY DEF Good, GoodBut, Machines, AllRest, AllBegan
<1>5. Rests(TypeOf(s, t), next)
  BY <1>3 DEF Rests, ClientTypes
<1>6. /\ Over(s, t) => next \in {"COMPLETED", "TERMINATED"}
      /\ code = "2XX" => ~Over(s, t)
  BY <1>3 DEF Over
<1>7. RequestOf(s, t).method = "REGISTER" /\ next \in {"TRYING", "PROCEEDING"} => Waits(s, t)
  <2>1. SUFFICES ASSUME RequestOf(s, t).method = "REGISTER"
                 PROVE  Waits(s, t)
    OBVIOUS
  <2>2. TypeOf(s, t) = "CLIENT_NON_INVITE"
    BY <1>4, <2>1 DEF Begins, ClientTypes
  <2> QED BY <1>3, <1>4, <2>2 DEF Waits, Rests
<1>8. Informs(s, t, code) =>
         /\ ~Over(s, t)
         /\ code \in {"1XX", "2XX"} \/ (code = "4XX" /\ TypeOf(s, t) = "CLIENT_NON_INVITE")
  BY <1>3 DEF Informs, Over
<1>9. /\ code \in FinalEvents => next \in {"COMPLETED", "TERMINATED"}
      /\ next = "TERMINATED" => code = "2XX"
      /\ next = "TERMINATED" <=> code = "2XX" /\ TypeOf(s, t) = "CLIENT_INVITE"
  BY <1>3 DEF FinalEvents, RejectEvents
<1>10. ResponseSteps(s, q, t, code, next)
  BY <1>2, <1>5, <1>6, <1>7, <1>8, <1>9 DEF ResponseSteps
<1> QED BY <1>10 DEF q

\* A machine that has stepped and is still listed.
LEMMA SteppedOn ==
    ASSUME NEW s, Good(s), NEW t \in Tr(s), InList(s.transactions, t),
           TypeOf(s, t) \in ClientTypes, NEW q, NEW code, NEW next,
           ResponseSteps(s, q, t, code, next)
    PROVE  LET r == RemoveTerminatedTransaction(q, t) IN
           /\ Good(r) /\ Kept(s, r) /\ Tame(s, r) /\ SameRest(s, r)
           /\ code \in FinalEvents => Over(r, t)
           /\ next # "TERMINATED" => r = q
<1> DEFINE r == RemoveTerminatedTransaction(q, t)
<1>1. s \in Stacks /\ Well(s) /\ Machines(s) /\ AgentsBut(s, Null) /\ Linked(s)
  BY DEF Good, GoodBut, Well, AgentsBut
<1>2. /\ q \in Stacks /\ SameAgents(s, q) /\ SameRest(s, q)
      /\ q.transactions = s.transactions /\ q.answers = s.answers
      /\ Stepped(s, q, t, next)
      /\ Rests(TypeOf(s, t), next)
      /\ Over(s, t) => next \in {"COMPLETED", "TERMINATED"}
      /\ RequestOf(s, t).method = "REGISTER" /\ next \in {"TRYING", "PROCEEDING"} => Waits(s, t)
      /\ code \in FinalEvents => next \in {"COMPLETED", "TERMINATED"}
  BY DEF ResponseSteps
<1>3. StateOf(q, t) = next
  BY <1>1, <1>2, SteppedParts
<1>4. /\ r \in Stacks /\ SameAgents(q, r) /\ SameRest(q, r)
      /\ r.transaction = q.transaction /\ r.answers = q.answers
      /\ r.transactions = IF StateOf(q, t) = "TERMINATED"
                          THEN DelFromList(q.transactions, t)
                          ELSE q.transactions
  BY <1>2, RemoveTerminatedTransactionEffect DEF StateOf
<1>5. next # "TERMINATED" => r = q
  BY <1>3 DEF RemoveTerminatedTransaction, StateOf
<1> HIDE DEF r
<1>6. SameAgents(s, r) /\ SameRest(s, r) /\ r.answers = s.answers /\ Stepped(s, r, t, next)
  BY <1>2, <1>4 DEF SameAgents, SameRest, Stepped, SameMaking
<1>7. r.transactions = IF next = "TERMINATED" THEN DelFromList(s.transactions, t)
                                              ELSE s.transactions
  BY <1>2, <1>3, <1>4
<1>8. GoodBut(r, Null)
  <2>1. TypeOf(s, t) # "SERVER_INVITE"
    BY DEF ClientTypes
  <2> QED BY <1>1, <1>2, <1>4, <1>6, <1>7, <2>1, QuietMove
<1>9. Kept(s, r) /\ Tame(s, r)
  <2>1. "1XX" # "SEND_OK"
    OBVIOUS
  <2> QED BY <1>1, <1>2, <1>6, <2>1, SteppedKeeps
<1>10. code \in FinalEvents => Over(r, t)
  <2>1. StateOf(r, t) = next
    BY <1>3, <1>4 DEF StateOf
  <2> QED BY <1>2, <2>1 DEF Over
<1> QED BY <1>5, <1>6, <1>8, <1>9, <1>10 DEF Good, r

\* The response m of a peer to the request of t.
Answers(s, t, m) ==
    LET request == RequestOf(s, t) IN
    /\ m \in Requests /\ m.method = request.method /\ m.branch = request.branch
    /\ m.call = request.call /\ m.from = request.from /\ m.to = PeerTag

\* The client is told that the peer of our call t rings.
Rings(s, r, t) ==
    /\ TypeOf(s, t) = "CLIENT_INVITE" /\ ~Over(s, t)
    /\ UserOf(s, t) \in Listed(s)
    /\ r.told.event = "CALL_REMOTE_RINGING" /\ r.told.ua = UserOf(s, t)
    /\ r.told.position \in Nat

\* The client is told that our call t is established.
Establishes(s, r, t) ==
    /\ TypeOf(s, t) = "CLIENT_INVITE" /\ ~Over(s, t) /\ Over(r, t)
    /\ UserOf(s, t) \in Listed(s) /\ r.dialog[UserOf(s, t)].id.remote = PeerTag
    /\ \A d \in Listed(r) :
         /\ d \in Listed(s) /\ TransactionOf(r, d) = TransactionOf(s, d)
         /\ d # UserOf(s, t) => r.dialog[d].id = s.dialog[d].id
    /\ Tr(r) = Tr(s) /\ AcceptedOf(r) = AcceptedOf(s)
    /\ r.told.event = "CALL_ESTABLISHED" /\ r.told.ua = UserOf(s, t)
    /\ r.told.position \in Nat

\* The account of REGISTER t is marked as its 200 has it.
Binds(s, r, t, code, m) ==
    /\ Quiet(s, r) /\ code = "2XX"
    /\ RequestOf(s, t).method = "REGISTER" /\ ~Over(s, t)
    /\ m.expires # Nil
    /\ \A a \in 0 .. Accounts :
         r.binded[a] = IF a = s.account[UserOf(s, t)] THEN m.expires # 0
                                                     ELSE s.binded[a]

\* No dialog has the tag of the peer for its own.
LEMMA NobodyIsMeant ==
    ASSUME NEW s, Good(s), NEW q \in Stacks, SameAgents(s, q), NEW m, m.to = PeerTag
    PROVE  MatchMessage2Dialog(q, m) = Null
<1> DEFINE d == MatchMessage2Dialog(q, m)
<1>1. s \in Stacks /\ q.dialogs = s.dialogs /\ q.dialog = s.dialog /\ OwnIds(s)
  BY DEF Good, GoodBut, Well, AgentsBut, SameAgents
<1>2. d # Null => /\ InList(q.dialogs, d) /\ d \in DOMAIN q.dialog
                  /\ q.dialog[d].id = [call |-> m.call, local |-> m.to, remote |-> m.from]
  BY MatchMessage2DialogEffect
<1> HIDE DEF d
<1>3. SUFFICES ASSUME d # Null
               PROVE  FALSE
  BY DEF d
<1>4. Owns(s, d, s.dialog[d].id) /\ s.dialog[d].id.local = PeerTag
  BY <1>1, <1>2, <1>3 DEF OwnIds, Listed
<1>5. \A u \in Tr(s) : u # PeerTag
  BY <1>1, NamesApart, TransactionDomain DEF Tr
<1> QED BY <1>4, <1>5, NamesApart DEF Owns, EmptyDialogId

\* What a response that ends no call attempt makes of the accounts and the client.
TellsResponse(s, r, t, code, m) ==
    \/ r.told = s.told /\ (r.binded = s.binded \/ Binds(s, r, t, code, m))
    \/ Rings(s, r, t) /\ r.binded = s.binded

\* The user of a request is told of a response that ends no call attempt.
LEMMA UserToldOfResponse ==
    ASSUME NEW s, Good(s), NEW t \in Tr(s), InList(s.transactions, t),
           TypeOf(s, t) \in ClientTypes, NEW q, NEW code \in ResponseEvents, NEW next,
           ResponseSteps(s, q, t, code, next), next # "TERMINATED",
           ~Over(s, t), NEW m, Answers(s, t, m),
           OnTransactionEvent(q, UserOf(s, t), code, m).fault = "none"
    PROVE  LET r == OnTransactionEvent(q, UserOf(s, t), code, m) IN
           /\ Good(r) /\ Kept(s, r) /\ Tame(s, r) /\ Kept(q, r) /\ Kept(s, q)
           /\ StateOf(r, t) = next
           /\ TellsResponse(s, r, t, code, m)
<1> USE DEF TellsResponse
<1> DEFINE d == UserOf(s, t)
           l == TransactionOf(q, d)
           r == OnTransactionEvent(q, UserOf(s, t), code, m)
           method == RequestOf(q, l).method
<1>1. /\ s \in Stacks /\ q \in Stacks /\ d \in DOMAIN s.dialog /\ d # Null /\ Machines(s)
      /\ AgentsBut(s, Null) /\ Begins(t, TypeOf(s, t), RequestOf(s, t))
  BY DialogDomain DEF Good, GoodBut, Well, Machines, AllBegan, ResponseSteps, Null
<1>2. /\ Good(q) /\ Kept(s, q) /\ Tame(s, q) /\ SameRest(s, q)
  BY SteppedOn
<1>3. /\ SameAgents(s, q) /\ Stepped(s, q, t, next)
  BY DEF ResponseSteps
<1>4. /\ Tr(q) = Tr(s)
      /\ \A u \in Tr(s) : /\ TypeOf(q, u) = TypeOf(s, u)
                          /\ RequestOf(q, u) = RequestOf(s, u)
                          /\ UserOf(q, u) = UserOf(s, u)
                          /\ StateOf(q, u) = IF u = t THEN next ELSE StateOf(s, u)
  BY <1>1, <1>3, SteppedParts
<1>5. ~(InList(q.dialogs, d) /\ Dereferences(q, d)) => r.fault # "none"
  BY <1>1, DieFollows DEF OnTransactionEvent, Deaths, Running, Stacks
<1>6. d \in Listed(q) /\ InList(q.transactions, l) /\ d \in Listed(s)
  BY <1>1, <1>3, <1>5 DEF Listed, Dereferences, SameAgents
<1>7. /\ l \in Tr(q) /\ UserOf(q, l) = d /\ InList(q.uas, d)
      /\ method = "INVITE" => t = l
      /\ method = "REGISTER" => RequestOf(q, t).method = "REGISTER"
  BY <1>2, <1>4, <1>6 DEF Good, GoodBut, AgentsBut, Linked, LatestRules
<1>8. r = CASE method = "REGISTER" -> HandleRegisterEvent(q, d, code, m)
            [] method = "INVITE"   -> HandleInviteEvent(q, d, code, m)
            [] method = "BYE"      -> HandleByeEvent(q, m)
            [] method = "CANCEL"   -> HandleCancelEvent(q, m)
            [] OTHER -> q
  BY <1>1, <1>6 DEF OnTransactionEvent, Listed, Dereferences, RequestOf
<1>9. r.fault = "none"
  OBVIOUS
<1> HIDE DEF r, method
<1>10. /\ method = "REGISTER" \/ method = "INVITE" \/ method = "BYE" \/ method = "CANCEL"
  <2>1. RequestOf(q, l) \in Requests
    BY <1>1, <1>7, TransactionDomain DEF Tr, RequestOf, TransactionObjects
  <2> QED BY <2>1 DEF Requests, Methods, method
<1>11. /\ m.to = PeerTag /\ code \notin {"NEW", "CANCEL"}
  BY DEF Answers, ResponseEvents, FinalEvents, RejectEvents, ProvisionalEvent
<1>12. ASSUME r = q
       PROVE  /\ Good(r) /\ Kept(s, r) /\ Tame(s, r) /\ Kept(q, r) /\ Kept(s, q)
              /\ StateOf(r, t) = next
              /\ r.told = s.told /\ r.binded = s.binded
  BY <1>2, <1>4, <1>12, SameIsKept DEF SameRest
<1>13. CASE method = "BYE" \/ method = "CANCEL"
  <2>1. r = q
    BY <1>1, <1>3, <1>8, <1>11, <1>13, NobodyIsMeant DEF HandleByeEvent, HandleCancelEvent
  <2> QED BY <1>12, <2>1 DEF r
<1>14. CASE method = "INVITE"
  <2>1. t = l /\ RequestOf(s, t).method = "INVITE"
    BY <1>4, <1>7, <1>14 DEF method
  <2>2. TypeOf(s, t) = "CLIENT_INVITE"
    BY <1>1, <2>1 DEF Begins, ClientTypes
  <2>3. code # "2XX"
    BY <2>2 DEF ResponseSteps
  <2>4. CASE code # "1XX"
    <3>1. r = q
      BY <1>8, <1>11, <1>14, <2>3, <2>4 DEF HandleInviteEvent
    <3> QED BY <1>12, <3>1 DEF r
  <2>5. CASE code = "1XX"
    <3>1. r = NotifyCm(q, "CALL_REMOTE_RINGING", d)
      BY <1>8, <1>14, <2>5 DEF HandleInviteEvent, DialogReceiveRinging
    <3>2. d \in Nat /\ "CALL_REMOTE_RINGING" \in Life!Events
      BY <1>1, DialogDomain DEF Life!Events
    <3>3. GetUaPosition(q, d) \in Nat
      BY <1>1, <1>7, PositionOfListed
    <3> HIDE DEF d, l
    <3>4. /\ r \in Stacks /\ SameAgents(q, r) /\ SameMachines(q, r)
          /\ r.binded = q.binded
          /\ r.told = [event |-> "CALL_REMOTE_RINGING", ua |-> d,
                       position |-> GetUaPosition(q, d)]
      BY <1>1, <3>1, <3>2, NotifyCmEffect
    <3>5. /\ GoodBut(r, Null) /\ Kept(q, r) /\ Tame(q, r)
          /\ \A u \in Tr(q) : StateOf(r, u) = StateOf(q, u)
      BY <1>2, <3>4, SameKeeps DEF Good
    <3>6. Rings(s, r, t)
      <4>1. /\ r.told.event = "CALL_REMOTE_RINGING" /\ r.told.ua = d
            /\ r.told.position = GetUaPosition(q, d)
        BY <3>4
      <4> QED BY <1>6, <2>2, <3>3, <4>1 DEF Rings, d
    <3>7. Kept(s, r) /\ Tame(s, r)
      BY <1>2, <3>5, KeptTransitively, TameTransitively
    <3> QED BY <1>2, <1>4, <3>4, <3>5, <3>6, <3>7 DEF Good, SameRest, r
  <2> QED BY <2>4, <2>5
<1>15. CASE method = "REGISTER"
  <2>1. RequestOf(s, t).method = "REGISTER"
    BY <1>4, <1>7, <1>15
  <2>2. TypeOf(s, t) = "CLIENT_NON_INVITE"
    BY <1>1, <2>1 DEF Begins, ClientTypes
  <2>3. r = HandleRegisterEvent(q, d, code, m)
    BY <1>8, <1>15
  <2>4. CASE code = "2XX"
    <3> DEFINE a == q.account[d]
    <3>0. m.expires # Nil
      <4>1. m.expires = Nil => r = Die(q, "ASSERTED")
        BY <2>3, <2>4, NamesApart DEF HandleRegisterEvent
      <4>2. Die(q, "ASSERTED").fault # "none"
        BY <1>1, DieFollows DEF Deaths, Running, Stacks
      <4> QED BY <1>9, <4>1, <4>2 DEF r
    <3>1. PICK f : /\ r = [q EXCEPT !.binded = f] /\ f \in [0 .. Accounts -> BOOLEAN]
                   /\ \A x \in 0 .. Accounts :
                        f[x] = IF x = a THEN m.expires # 0 ELSE q.binded[x]
      <4>1. q.binded \in [0 .. Accounts -> BOOLEAN]
        BY <1>1 DEF Stacks
      <4>2. CASE m.expires # 0
        <5> DEFINE f == [q.binded EXCEPT ![a] = TRUE]
        <5>1. r = [q EXCEPT !.binded = f]
          BY <2>3, <2>4, <3>0, <4>2 DEF HandleRegisterEvent, UaSetBinded
        <5>2. f \in [0 .. Accounts -> BOOLEAN]
                /\ \A x \in 0 .. Accounts : f[x] = IF x = a THEN TRUE ELSE q.binded[x]
          BY <4>1
        <5> HIDE DEF f
        <5>3. \A x \in 0 .. Accounts : f[x] = IF x = a THEN m.expires # 0 ELSE q.binded[x]
          BY <4>2, <5>2
        <5> QED BY <5>1, <5>2, <5>3
      <4>3. CASE m.expires = 0
        <5> DEFINE f == [q.binded EXCEPT ![a] = FALSE]
        <5>1. r = [q EXCEPT !.binded = f]
          BY <2>3, <2>4, <3>0, <4>3 DEF HandleRegisterEvent, UaSetUnbinded
        <5>2. f \in [0 .. Accounts -> BOOLEAN]
                /\ \A x \in 0 .. Accounts : f[x] = IF x = a THEN FALSE ELSE q.binded[x]
          BY <4>1
        <5> HIDE DEF f
        <5>3. \A x \in 0 .. Accounts : f[x] = IF x = a THEN m.expires # 0 ELSE q.binded[x]
          BY <4>3, <5>2
        <5> QED BY <5>1, <5>2, <5>3
      <4> QED BY <4>2, <4>3
    <3> HIDE DEF a
    <3>2. /\ r \in Stacks /\ SameAgents(q, r) /\ SameMachines(q, r)
          /\ r.told = q.told /\ r.binded = f
      BY <1>1, <3>1, SetBinded
    <3>3. /\ GoodBut(r, Null) /\ Kept(q, r) /\ Tame(q, r)
          /\ \A u \in Tr(q) : StateOf(r, u) = StateOf(q, u)
      BY <1>2, <3>2, SameKeeps DEF Good
    <3>4. Kept(s, r) /\ Tame(s, r)
      BY <1>2, <3>3, KeptTransitively, TameTransitively
    <3>5. r.told = s.told /\ q.binded = s.binded
      BY <1>2, <3>2 DEF SameRest
    <3>6. a = s.account[d]
      BY <1>3 DEF SameAgents, a
    <3>7. Binds(s, r, t, code, m)
      BY <2>1, <2>4, <3>0, <3>1, <3>2, <3>4, <3>5, <3>6 DEF Binds, Quiet
    <3> QED BY <1>2, <1>4, <3>3, <3>4, <3>5, <3>7 DEF Good, r
  <2>5. CASE code = "4XX"
    <3> DEFINE n == Len(q.transaction) + 1
               c == BuildAuthorizationMessage(q, m)
    <3>1. r = DialogNewTransaction(q, d, c, "CLIENT_NON_INVITE")
      BY <2>3, <2>5 DEF HandleRegisterEvent
    <3>2. /\ c \in Requests /\ c.method = "REGISTER" /\ c.branch = <<"here", n>>
          /\ c.from = n /\ c.to = Nil
      <4>1. n \in Nat /\ m.call \in Tags
        BY <1>1, TransactionDomain DEF Answers, Requests
      <4> HIDE DEF n
      <4>2. c = Request("REGISTER", <<"here", n>>, m.call, n, Nil)
        BY DEF BuildAuthorizationMessage, n
      <4> HIDE DEF c
      <4> QED BY <4>1, <4>2 DEF Request, Requests, Methods, Tags, BranchNames
    <3>3. d \in DOMAIN q.dialog /\ "CLIENT_NON_INVITE" \in TransactionTypes
      BY <1>6 DEF Listed, TransactionTypes, ClientTypes
    <3> HIDE DEF c, d, l
    <3>4. /\ r \in Stacks /\ SameDialogsBut(q, r, d)
          /\ r.dialog[d].id = IdAfter("CLIENT_NON_INVITE", c, q.dialog[d].id)
          /\ r.dialog[d].state = q.dialog[d].state
          /\ r.dialog[d].transaction = n
          /\ r.answers = q.answers
          /\ r.transactions = PutInList(q.transactions, n)
          /\ Started(q, r, c, d, "CLIENT_NON_INVITE")
          /\ r.binded = q.binded
          /\ r.told = q.told
      BY <1>1, <1>9, <3>1, <3>2, <3>3, DialogNewTransactionEffect, ZenonT(30)
    <3>5. r.dialog[d].id = q.dialog[d].id
      BY <3>4 DEF IdAfter
    <3>6. Over(q, t)
      BY <1>4, <2>5 DEF ResponseSteps, Over, FinalEvents, RejectEvents
    <3>7. \A u \in Tr(q) : RequestOf(q, u).method = "REGISTER" /\ Waits(q, u)
                             => UserOf(q, u) # d
      <4>1. SUFFICES ASSUME NEW u \in Tr(q), RequestOf(q, u).method = "REGISTER",
                            Waits(q, u), UserOf(q, u) = d
                     PROVE  FALSE
        OBVIOUS
      <4>2. u # t
        BY <3>6, <4>1 DEF Waits, Over
      <4>3. /\ u \in Tr(s) /\ RequestOf(s, u).method = "REGISTER" /\ Waits(s, u)
            /\ UserOf(s, u) = UserOf(s, t)
        BY <1>4, <4>1, <4>2 DEF Waits, d
      <4>4. Waits(s, t)
        <5>1. Rests(TypeOf(s, t), StateOf(s, t))
          BY <1>1 DEF Machines, AllRest
        <5> QED BY <2>2, <5>1 DEF Rests, Over, Waits
      <4> QED BY <1>1, <2>1, <4>2, <4>3, <4>4 DEF Machines, OneWaits
    <3>8. Within(q, r, d, c, "CLIENT_NON_INVITE", "TRYING")
      <4>1. Begins(n, "CLIENT_NON_INVITE", c) /\ Rests("CLIENT_NON_INVITE", "TRYING")
        BY <3>2 DEF Begins, ClientTypes, Rests
      <4>2. Appended(q, r, c, d, "CLIENT_NON_INVITE", "TRYING")
        BY <3>4 DEF Started, FirstState
      <4>3. RequestOf(q, TransactionOf(q, d)).method = "REGISTER"
        BY <1>15 DEF method, l
      <4> QED BY <3>2, <3>4, <3>7, <4>1, <4>2, <4>3 DEF Within, TransactionOf
    <3>9. Good(r)
      BY <1>2, <1>6, <3>2, <3>4, <3>5, <3>8, RequestMove
    <3>10. /\ Kept(q, r) /\ Tame(q, r)
           /\ \A u \in Tr(q) : StateOf(r, u) = StateOf(q, u)
      BY <1>2, <1>6, <3>2, <3>5, <3>8, WithinIsTame DEF Good
    <3>11. Kept(s, r) /\ Tame(s, r)
      BY <1>2, <3>10, KeptTransitively, TameTransitively
    <3> QED BY <1>2, <1>4, <3>4, <3>9, <3>10, <3>11 DEF SameRest, r, d
  <2>6. CASE code \notin {"2XX", "4XX"}
    <3>1. r = q
      BY <2>3, <2>6 DEF HandleRegisterEvent
    <3> QED BY <1>12, <3>1 DEF r
  <2> QED BY <2>4, <2>5, <2>6
<1> QED BY <1>10, <1>13, <1>14, <1>15

\* The peer accepts our call: the one response that ends a call attempt.
LEMMA AcceptedByPeer ==
    ASSUME NEW s, Good(s), NEW t \in Tr(s), InList(s.transactions, t),
           TypeOf(s, t) \in ClientTypes, NEW q,
           ResponseSteps(s, q, t, "2XX", "TERMINATED"), NEW m, Answers(s, t, m),
           OnTransactionEvent(q, UserOf(s, t), "2XX", m).fault = "none"
    PROVE  LET r == RemoveTerminatedTransaction(
                        OnTransactionEvent(q, UserOf(s, t), "2XX", m), t) IN
           /\ Good(r) /\ Kept(s, r) /\ Over(r, t) /\ r.binded = s.binded
           /\ Quiet(s, r) \/ Establishes(s, r, t)
<1> DEFINE d == UserOf(s, t)
           l == TransactionOf(q, d)
           n == OnTransactionEvent(q, UserOf(s, t), "2XX", m)
           r == RemoveTerminatedTransaction(n, t)
           method == RequestOf(q, l).method
<1>1. /\ s \in Stacks /\ q \in Stacks /\ d \in DOMAIN s.dialog /\ d # Null /\ Machines(s)
      /\ AgentsBut(s, Null) /\ Begins(t, TypeOf(s, t), RequestOf(s, t))
  BY DialogDomain DEF Good, GoodBut, Well, Machines, AllBegan, ResponseSteps, Null
<1>2. TypeOf(s, t) = "CLIENT_INVITE" /\ ~Over(s, t)
  BY DEF ResponseSteps
<1>3. /\ SameAgents(s, q) /\ SameRest(s, q) /\ Stepped(s, q, t, "TERMINATED")
      /\ q.transactions = s.transactions /\ q.answers = s.answers
  BY DEF ResponseSteps
<1>4. /\ Tr(q) = Tr(s)
      /\ \A u \in Tr(s) : /\ TypeOf(q, u) = TypeOf(s, u)
                          /\ RequestOf(q, u) = RequestOf(s, u)
                          /\ UserOf(q, u) = UserOf(s, u)
                          /\ StateOf(q, u) = IF u = t THEN "TERMINATED" ELSE StateOf(s, u)
  BY <1>1, <1>3, SteppedParts
<1>5. ~(InList(q.dialogs, d) /\ Dereferences(q, d)) => n.fault # "none"
  BY <1>1, DieFollows DEF OnTransactionEvent, Deaths, Running, Stacks
<1>6. d \in Listed(q) /\ InList(q.transactions, l) /\ d \in Listed(s)
        /\ l = TransactionOf(s, d)
  BY <1>1, <1>3, <1>5 DEF Listed, Dereferences, SameAgents, TransactionOf
<1>7. /\ l \in Tr(s) /\ UserOf(s, l) = d /\ InList(s.uas, d)
      /\ method = RequestOf(s, l).method
      /\ method = "INVITE" => t = l
      /\ method = "REGISTER" => RequestOf(s, t).method = "REGISTER"
  BY <1>1, <1>4, <1>6 DEF AgentsBut, Linked, LatestRules
<1>8. n = CASE method = "REGISTER" -> HandleRegisterEvent(q, d, "2XX", m)
            [] method = "INVITE"   -> HandleInviteEvent(q, d, "2XX", m)
            [] method = "BYE"      -> HandleByeEvent(q, m)
            [] method = "CANCEL"   -> HandleCancelEvent(q, m)
            [] OTHER -> q
  BY <1>1, <1>6 DEF OnTransactionEvent, Listed, Dereferences, RequestOf
<1>9. RequestOf(s, t).method = "INVITE" /\ RequestOf(s, t).call = t /\ RequestOf(s, t).from = t
  BY <1>1, <1>2 DEF Begins, ClientTypes
<1>10. method \in {"INVITE", "BYE", "CANCEL"}
  <2>1. RequestOf(s, l) \in Requests
    BY <1>1, <1>7, TransactionDomain DEF Tr, RequestOf, TransactionObjects
  <2> QED BY <1>7, <1>9, <2>1 DEF Requests, Methods
<1>10a. r = RemoveTerminatedTransaction(n, t)
  OBVIOUS
<1> HIDE DEF n, r, method
<1>11. CASE method \in {"BYE", "CANCEL"}
  <2>1. n = q
    BY <1>1, <1>3, <1>8, <1>11, NobodyIsMeant
       DEF HandleByeEvent, HandleCancelEvent, Answers
  <2>2. /\ Good(r) /\ Kept(s, r) /\ Tame(s, r) /\ SameRest(s, r)
        /\ "2XX" \in FinalEvents => Over(r, t)
    BY <1>10a, <2>1, SteppedOn
  <2> QED BY <2>2 DEF FinalEvents, Quiet, SameRest, r, n
<1>12. CASE method = "INVITE"
  <2>1. n = DialogReceiveOk(q, d, m) /\ t = l
    BY <1>7, <1>8, <1>12 DEF HandleInviteEvent
  <2>2. m \in Requests /\ m.call = t /\ m.from = t /\ m.to = PeerTag
    BY <1>9 DEF Answers
  <2>3. d \in DOMAIN q.dialog
    BY <1>6 DEF Listed
  <2>4. GetUaPosition(q, d) \in Nat
    BY <1>1, <1>3, <1>7, PositionOfListed DEF SameAgents
  <2> HIDE DEF d, l
  <2>5. /\ n \in Stacks /\ SameMachines(q, n) /\ SameDialogsBut(q, n, d)
        /\ n.dialog[d].id = [call |-> m.call, local |-> m.from, remote |-> m.to]
        /\ n.dialog[d].state = "CONFIRMED"
        /\ n.dialog[d].transaction = q.dialog[d].transaction
        /\ n.binded = q.binded /\ n.fault = q.fault
        /\ n.told = [event |-> "CALL_ESTABLISHED", ua |-> d,
                     position |-> GetUaPosition(q, d)]
    BY <1>1, <2>1, <2>2, <2>3, DialogReceiveOkEffect
  <2>6. StateOf(n, t) = "TERMINATED"
    BY <1>4, <2>5 DEF SameMachines, StateOf
  <2>7. /\ r \in Stacks /\ SameAgents(n, r) /\ SameRest(n, r)
        /\ r.transaction = n.transaction /\ r.answers = n.answers
        /\ r.transactions = DelFromList(n.transactions, t)
    BY <1>10a, <2>5, <2>6, RemoveTerminatedTransactionEffect DEF StateOf
  <2>8. Stepped(s, r, t, "TERMINATED")
    BY <1>3, <2>5, <2>7 DEF SameMachines, Stepped, SameMaking
  <2>9. r.transactions = DelFromList(s.transactions, t) /\ r.answers = s.answers
    BY <1>3, <2>5, <2>7 DEF SameMachines
  <2>10. SameDialogsBut(s, r, d)
    BY <1>3, <2>5, <2>7 DEF SameDialogsBut, SameAgents
  <2>11. r.dialog = n.dialog /\ r.told = n.told /\ r.binded = s.binded
    BY <1>3, <2>5, <2>7 DEF SameAgents, SameRest
  <2>12. /\ r.dialog[d].id = [call |-> t, local |-> t, remote |-> PeerTag]
         /\ r.dialog[d].state = "CONFIRMED"
    BY <2>2, <2>5, <2>11
  <2>13. TransactionOf(r, d) = t /\ t = TransactionOf(s, d)
    BY <1>3, <1>6, <2>1, <2>5, <2>11 DEF TransactionOf, SameAgents, l
  <2>14. Good(r)
    BY <1>2, <1>6, <2>7, <2>8, <2>9, <2>10, <2>12, <2>13, EstablishMove
  <2>15. /\ Tr(r) = Tr(s)
         /\ \A u \in Tr(s) : /\ TypeOf(r, u) = TypeOf(s, u)
                             /\ RequestOf(r, u) = RequestOf(s, u)
                             /\ UserOf(r, u) = UserOf(s, u)
                             /\ StateOf(r, u) = IF u = t THEN "TERMINATED" ELSE StateOf(s, u)
    BY <1>1, <2>8, SteppedParts
  <2>16. /\ DOMAIN r.dialog = DOMAIN s.dialog /\ Listed(r) = Listed(s)
         /\ r.account = s.account
         /\ \A c \in DOMAIN s.dialog : c # d =>
               r.dialog[c] = s.dialog[c] /\ TransactionOf(r, c) = TransactionOf(s, c)
    BY <1>1, <2>10, SameDialogsParts DEF SameDialogsBut
  <2>17. Kept(s, r) /\ Over(r, t)
    BY <2>15, <2>16 DEF Kept, Over
  <2>18. AcceptedOf(r) = AcceptedOf(s)
    BY <2>9, <2>15 DEF AcceptedOf
  <2>19. Establishes(s, r, t)
    <3>1. \A c \in Listed(r) :
            /\ c \in Listed(s) /\ TransactionOf(r, c) = TransactionOf(s, c)
            /\ c # d => r.dialog[c].id = s.dialog[c].id
      BY <2>13, <2>16 DEF Listed
    <3>2. /\ r.told.event = "CALL_ESTABLISHED" /\ r.told.ua = d
          /\ r.told.position = GetUaPosition(q, d)
      BY <2>5, <2>11
    <3>3. r.dialog[d].id.remote = PeerTag
      BY <2>12
    <3> QED BY <1>2, <1>6, <2>4, <2>15, <2>17, <2>18, <3>1, <3>2, <3>3 DEF Establishes, d
  <2> QED BY <2>11, <2>14, <2>17, <2>19 DEF r, n
<1> QED BY <1>10, <1>11, <1>12

\* Whatever a peer answers, a turn that the process survives does one of these.
ResponseOutcome(s, r, t, code, m) ==
    \/ Quiet(s, r) /\ r.binded = s.binded
    \/ Tame(s, r) /\ Rings(s, r, t) /\ r.binded = s.binded
    \/ Establishes(s, r, t) /\ r.binded = s.binded
    \/ Binds(s, r, t, code, m)

\* A response of a peer keeps the invariant and does one of these.
LEMMA ResponseHandled ==
    ASSUME NEW s, Good(s), NEW t \in Tr(s), TypeOf(s, t) \in ClientTypes,
           NEW code \in ResponseEvents, NEW m, Answers(s, t, m),
           TmHandleReponseMessage(s, code, m).fault = "none"
    PROVE  LET r == TmHandleReponseMessage(s, code, m) IN
           /\ Good(r) /\ Kept(s, r) /\ ResponseOutcome(s, r, t, code, m)
           /\ code \in FinalEvents => Over(r, t)
<1> DEFINE u == MatchResponse(s, m)
           r == TmHandleReponseMessage(s, code, m)
<1>1. s \in Stacks /\ Machines(s) /\ Running(s)
  BY DEF Good, GoodBut, Well, Running, Stacks
<1>2. /\ u # Null => /\ InList(s.transactions, u) /\ u \in Tr(s)
                     /\ RequestOf(s, u).branch = RequestOf(s, t).branch
      /\ InList(s.transactions, t) => u # Null
  BY <1>1, GetTransactionEffect DEF MatchResponse, Answers, RequestOf, Tr
<1>3. r = IF u = Null THEN s ELSE RunFsm(s, u, code, m)
  BY DEF TmHandleReponseMessage
<1>3a. r.fault = "none"
  OBVIOUS
<1> HIDE DEF r, u
<1>4. CASE u = Null
  <2>1. Over(s, t)
    BY <1>1, <1>2, <1>4 DEF Machines, LiveListed, Over
  <2> QED BY <1>3, <1>4, <2>1, SameIsKept DEF ResponseOutcome, Quiet, r
<1>5. CASE u # Null
  <2>1. u = t
    <3>1. RequestOf(s, t).branch = <<"here", t>> /\ Begins(u, TypeOf(s, u), RequestOf(s, u))
      BY <1>1, <1>2, <1>5 DEF Machines, AllBegan, Begins
    <3>2. TypeOf(s, u) \in TransactionTypes
      BY <1>1, <1>2, <1>5, TransactionDomain DEF Tr, TypeOf, TransactionObjects
    <3>3. TypeOf(s, u) # "SERVER_INVITE"
      <4>1. SUFFICES ASSUME TypeOf(s, u) = "SERVER_INVITE"
                     PROVE  FALSE
        OBVIOUS
      <4>2. PICK p \in Calls, b \in Branches : RequestOf(s, u).branch = <<p, b>>
        BY <3>1, <4>1 DEF Begins, Invite, Request
      <4>3. p = "here"
        BY <1>2, <1>5, <3>1, <4>2
      <4> QED BY <4>3, NamesApart
    <3>4. TypeOf(s, u) # "SERVER_NON_INVITE"
      BY <1>2, <1>5, <3>1 DEF Begins
    <3>5. TypeOf(s, u) \in ClientTypes
      BY <3>2, <3>3, <3>4 DEF TransactionTypes, ServerTypes
    <3>6. <<"here", u>> = <<"here", t>>
      BY <1>2, <1>5, <3>1, <3>5 DEF Begins
    <3> QED BY <3>6
  <2>2. InList(s.transactions, t)
    BY <1>2, <1>5, <2>1
  <2> DEFINE q == Advance(s, t, code)
             n == IF Informs(s, t, code)
                  THEN OnTransactionEvent(q, UserOf(s, t), code, m) ELSE q
  <2>3. r = RemoveTerminatedTransaction(n, t)
    BY <1>3, <1>5, <2>1 DEF RunFsm, UserOf
  <2>4. Running(q) /\ Running(n) /\ Follows(q, n) /\ Follows(n, r)
    <3>1. Running(q)
      BY <1>1, AdvanceFollows DEF Follows
    <3>2. Follows(q, n)
      <4>1. Follows(q, q)
        BY <3>1 DEF Follows
      <4> HIDE DEF q
      <4> QED BY <3>1, <4>1, OnTransactionEventFollows
    <3>3. Running(n)
      BY <3>2 DEF Follows
    <3>4. Follows(n, r)
      <4> HIDE DEF n
      <4> QED BY <2>3, <3>3, RemoveTerminatedTransactionFollows
    <3> QED BY <3>1, <3>2, <3>3, <3>4
  <2>5. q.fault = "none" /\ n.fault = "none"
    BY <1>3a, <2>4 DEF Follows
  <2>6. PICK next : ResponseSteps(s, q, t, code, next)
    BY <2>2, <2>5, ResponseStep
  <2>6a. n = IF Informs(s, t, code) THEN OnTransactionEvent(q, UserOf(s, t), code, m) ELSE q
    OBVIOUS
  <2> HIDE DEF q, n
  <2>7. CASE ~Informs(s, t, code)
    <3>1. r = RemoveTerminatedTransaction(q, t)
      BY <2>3, <2>6a, <2>7
    <3>2. /\ Good(r) /\ Kept(s, r) /\ Tame(s, r) /\ SameRest(s, r)
          /\ code \in FinalEvents => Over(r, t)
      BY <2>2, <2>6, <3>1, SteppedOn
    <3> QED BY <3>2 DEF ResponseOutcome, Quiet, SameRest, r
  <2>8. CASE Informs(s, t, code) /\ next = "TERMINATED"
    <3>1. code = "2XX"
      BY <2>6, <2>8 DEF ResponseSteps
    <3>2. /\ n = OnTransactionEvent(q, UserOf(s, t), "2XX", m)
          /\ ResponseSteps(s, q, t, "2XX", "TERMINATED")
      BY <2>6, <2>6a, <2>8, <3>1
    <3>3. /\ Good(r) /\ Kept(s, r) /\ Over(r, t) /\ r.binded = s.binded
          /\ Quiet(s, r) \/ Establishes(s, r, t)
      BY <2>2, <2>3, <2>5, <3>2, AcceptedByPeer
    <3> QED BY <3>3 DEF ResponseOutcome, r
  <2>9. CASE Informs(s, t, code) /\ next # "TERMINATED"
    <3>1. ~Over(s, t) /\ (code \in FinalEvents => next \in {"COMPLETED", "TERMINATED"})
      BY <2>6, <2>9 DEF ResponseSteps
    <3>2. n = OnTransactionEvent(q, UserOf(s, t), code, m)
      BY <2>6a, <2>9
    <3>3. /\ Good(n) /\ Kept(s, n) /\ Tame(s, n) /\ StateOf(n, t) = next
          /\ TellsResponse(s, n, t, code, m)
      <4>1. OnTransactionEvent(q, UserOf(s, t), code, m).fault = "none"
              /\ next # "TERMINATED" /\ ~Over(s, t)
        BY <2>5, <2>9, <3>1, <3>2
      <4>2. Good(s) /\ t \in Tr(s) /\ InList(s.transactions, t)
              /\ TypeOf(s, t) \in ClientTypes /\ code \in ResponseEvents
              /\ ResponseSteps(s, q, t, code, next) /\ Answers(s, t, m)
        BY <2>2, <2>6
      <4>3. LET e == OnTransactionEvent(q, UserOf(s, t), code, m) IN
            /\ Good(e) /\ Kept(s, e) /\ Tame(s, e) /\ Kept(q, e) /\ Kept(s, q)
            /\ StateOf(e, t) = next
            /\ TellsResponse(s, e, t, code, m)
        BY <4>1, <4>2, UserToldOfResponse, SMTT(60)
      <4> QED BY <3>2, <4>3
    <3>4. r = n
      BY <2>3, <2>9, <3>3 DEF RemoveTerminatedTransaction, StateOf
    <3> QED BY <3>1, <3>3, <3>4 DEF TellsResponse, ResponseOutcome, Quiet, Over, r
  <2> QED BY <2>7, <2>8, <2>9
<1> QED BY <1>4, <1>5
=============================================================================
