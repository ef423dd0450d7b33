# A verification project for x-sip

x-sip is a SIP phone in C: a stack process that speaks SIP to its peers and to a
registrar, and a GUI process that speaks a one-line text protocol to the stack.
This directory holds TLA+ modules that model its core, the TLC configurations
that check them, and theorems about them that TLAPS proves.

    tlc -workers 2 -config stack_calls.cfg MCSipStack.tla     # one run
    tlapm SipStack_proofs.tla                                 # proofs of a module

`PROJECT.json` maps every definition to the lines of C it stands for, lists the
runs and gives, for every property, a mutant of the model (a plausible bug of
the code, marked `FAULT` in the modules) under which TLC finds it violated.

## 1. Inventory

| component | source | state | operations | modelled |
|---|---|---|---|---|
| transaction machines | `Transaction.c`, `Timer.h` | type, state, retransmits, responses, armed timers | four tables, `RunFsm`, actions, timer callbacks, `Response`, `ResponseWith` | yes |
| transaction manager | `TransactionManager.c` | list of transactions | match, add, remove, dispatch of requests and responses, CANCEL | all but the removals only tests call |
| dialogs | `Dialog.c`, `DialogId.c`, `DialogManager.c` | id (Call-ID and two tags), state, latest transaction, session | handlers of events, OK, ringing, BYE, CANCEL, INVITE | all but sequence numbers and URIs |
| user agents | `UserAgent.c`, `UserAgentManager.c` | list; a call is named by its position in it | add, find, remove, commands | yes, but for clearing |
| accounts | `Accounts.c`, `AccountManager.c` | three accounts, a binded flag each | bind all, bind, unbind, find by user name | all but which account a name finds |
| call manager | `CallManager.c`, `ClientUdp.c` | none | three commands, five events, one line of text each | yes |
| timers | `Timer.c` | none: a stub that forgets the timer | `AddTimer` | yes, stub and service |
| select loop, transporters | `Init.c`, `Transporter*.c`, `*Udp.c` | sockets, one receive buffer | select, receive, callback, send | yes, but for sockets that do not open |
| GUI | `gui/gui.c` | the last event received | ring by itself, call out | yes, but for the widgets |
| message builder | `MessageBuilder.c` | none | requests, responses, ACK, BYE, credentials | all but the headers of the BYE |
| parser, headers, URIs, parameters | `Parser.c` and the header files | tables of patterns, some put together anew for each text | strings to structures and back | on tokens |
| sessions, media, SDP | `Session.c`, ... | none: stubs | | a flag |
| digest | `md5.c`, `WWW_AuthenticationHeader.c` | none | hash, quotes | what is hashed |
| lists, maps, CLI | `utils/`, `cli/` | | | lists and the map of events; the CLI is empty |

How they interact.  `InitStack` forks: the child binds all accounts and then
serves one datagram at a time.  A SIP datagram goes to `SipMessageInput`, which
matches it to a transaction and runs the machine (`RunFsm`) or, outside any
transaction, calls `OnTransactionEvent` itself.  The last action of a table
entry may be `InformTU`, which calls `OnTransactionEvent` for the dialog of the
transaction; the dialog may start a transaction, answer one, tell the client
(`NotifyCm`) or remove its user agent, all inside the same call.  A client
datagram goes to `HandleClientMessage`, which finds a user agent by position and
has its dialog answer, ring or call out.  There are no threads and no locks.

What is hard here is therefore not preemption but

* order: peers and the client act at any moment between two handlers, UDP
  delays, repeats and reorders; an INVITE arrives on several branches;
* re-entry: a handler calls back into the dialog that calls back into the
  transaction list, and objects are freed on the way;
* stale names: `dialog->transaction`, `t->user`, positions of user agents held by
  the other process, a set of ready descriptors, a buffer used twice;
* the tables: four machines with 15 tables, each with its own set of expected
  events, and `assert (0)` for the others;
* timers that nobody cancels, and a transport that may refuse in mid-handler;
* two phones of this program with each other, copies and crossing calls included;
* texts: peers write the same message in several forms, and one set of tables
  must read all of them and write what peers can read.

`PROJECT.json` lists each of these hazards at its line, with the property that
would catch it going wrong, or the reason why none does.

What makes each component correct:

* machine: an event the environment can produce is handled; every timer that the
  table of a state relies on is pending in that state; retransmissions follow the
  back-off; the user is told one outcome, at the decision; copies get the final
  response; rejections are acknowledged with their own tag.
* manager and dialogs: the lists agree; one dialog per id; an INVITE is accepted or
  ended for its CANCEL and never both; an unanswered call can be answered; a BYE
  finds its call.
* call manager: each event names a listed call, and the events of one user agent
  are the life of one call.
* accounts: an account is bound or unbound by the answer to its own request, as
  that answer grants; a user agent has one REGISTER outstanding at a time.
* the two processes: a call that comes in is rung, and a RINGING that is late
  rings the call it was meant for.
* two phones: neither dies of the other; the two ends of a call agree on its
  names; an accepted call is established at its caller.
* select loop: it never blocks, loses, mixes or reorders datagrams.
* texts: what was meant is what is read, in all but the forms that are listed; an
  answer names what it answers.

## 2. Modules

    TransactionFsm ──> Transaction ──────── implements ──> TransactionContract
         └──> StackObjects ──> StackDialogs ──> StackHandlers ──┬──> SipStack
                                                                └──> TwoPhones
    SipStack ── implements ──> CallLife
       ├──> MCSipStack
       └──> Softphone ── implements ──> SipStack

    SelectLoop ── implements ──> DatagramService        Syntax ──> MessageText
         └──> MCSelectLoop                                  └──> MessageTrip

and the modules with proofs, each extending the module it is about:

    Transaction ──> Transaction_proofs
    SipStack ──> StackEffects_proofs ──> StackMoves_proofs ──> SipStack_proofs
    Softphone, SipStack_proofs ──> Softphone_proofs
    SelectLoop, Induction_proofs ──> SelectLoop_proofs
    TwoPhones, Induction_proofs ──> TwoPhones_proofs

**TransactionFsm** is the data of `Transaction.c`: the four tables, one
definition per `struct FsmState`, and their lookup.  Sets of entries stand for
arrays; no table lists an event twice.  It is shared, so that both halves of the
project run the same tables.

**Transaction** is one transaction.  `RunFsm` is a relation of its entry, the
message recorded before it, the pending timers and the transport's answer;
every operation of `Transaction.h` and every timer callback is an action that
runs it to its end.  A refused send runs the nested `TRANSPORT_ERROR` event and
the actions after it are skipped, as `InvokeActions` does.  Two constants stand
for what the code reaches through function pointers:

* `TimersFire` FALSE is `Timer.c` as it is.  TRUE is a timer service: each timer
  fires when its delay has passed, before more time passes.
* `SendMayFail` TRUE lets the transport refuse any message.

`WholeApi` adds the operations only the tests call.  Time advances in steps of
`T1` (all delays are multiples of 500 ms).  Timers of one kind that are due at
the same moment are one: the set of delays left forgets how many.  Deaths of the
process are states: `ASSERTED` (assert 0), `OVERRAN` (two tables lack their
terminator, and the lookup of an event they do not list reads on past the
array; reading on is recorded as a death because what follows in memory is not
known), `DANGLED` (a timer fires for a freed transaction).
After a refused send that ends the transaction, the outer `RunFsm` reads the
freed transaction once more in `RemoveTerminatedTransaction`; it looks for it in
the list, finds nothing, and has no further effect in the model.

**TransactionContract** is what a transaction promises: it starts once, repeats
its request while undecided, decides once, tells its user at most one outcome,
then, and is disposed of.

**StackObjects**, **StackDialogs**, **StackHandlers** and **SipStack** are the
stack process as it is built: no timers, a transport that never refuses.  Handlers call each other
and back, so each C function is an operator from a stack (a record of the lists
and the objects) to a stack, and an action is the composition the C code makes,
with everything it does inside one call.  An object is a number; it is allocated
while its manager lists it, and using a number that is not listed is a dangling
pointer.  A handler in which the process dies is recorded as the death alone
(`fault`), since nothing survives it.  `SipStack` adds the environment:

* the peers send INVITEs and CANCELs of their calls on any branch, and BYEs of
  calls that were accepted with the tags the 200 carried, at any moment, any
  number of times, in any order.  Loss, delay, duplication and reordering need
  no queue: a message not sent yet is one not arrived yet.  Their ACKs match no
  transaction and no handler, and are left out;
* every request of ours may get any provisional responses and copies of one
  final response;
* the client commands any call whose position it was told, at any later moment,
  and calls out whenever it likes.

What is abstracted: a fresh branch, Call-ID or tag is the number of the
transaction it was made for (the code draws eight or ten random digits).  The
tags of 100, 180 and 487 responses are not kept, since no dialog does.  A 4XX to
a REGISTER carries a challenge; the Expires of a 2XX is the registrar's choice
(`Grants`): a time, 0 or none, whatever the REGISTER asked for.  It cannot be tied to
what was asked, because the 0 of a removal is never written (`message_unbinding`) and
the answer to a challenge asks for nothing; and without an Expires
`HandleRegisterEvent` dies of the assertion in `ExpiresHeaderGetExpires`.  The account
of an incoming call is 0 in the model: in the code it is whichever of the three the To
of the INVITE names, or none, and is read for names only, so the one thing that
depends on it is the assertion of `UaGetProxy` in `EndCall`, whose parameter `known`
says which it is.  A response carries the CSeq of the request it is built from,
which for the 487 is the CANCEL and not the INVITE it ends: the peer sees its CANCEL
answered twice, 487 and 200, and its INVITE never.  `CSeqMethod` says so; `answers`
keeps the final responses by the transaction that sent them.  In `DialogReceiveBye` the id
of the freed dialog is read once more and looked for in a list that is empty by
then: no effect.  A tag of a response is written one byte past its buffer
(`MessageBuilder.c:302`): that byte is not modelled.  Re-INVITEs are left out.

**CallLife** is what the client is promised about one user agent: it comes in or
goes out, is established or taken back, ends once, and is never heard of again.

**Softphone** adds the GUI process of `gui/gui.c` to `SipStack`, and the datagrams
between them.  They are sets: a datagram that was sent may arrive at any later
moment, again, or before an older one, and one that never arrives is lost.
`SockCallback` overwrites `CurrEvent` and rings if it is `CALL_INCOMING`; the
button sends `MAKE_CALL`.  `send_accept` is wired to no widget and is no action.
The position in a `MAKE_CALL` is left out, since `HandleClientMessage` looks it up
and makes no use of it.  `ImplementsSipStack` shows that this GUI is one of the
clients `SipStack` admits, so that what holds there holds for the phone.  Each
datagram carries, as history, the user agent it is about and how many had been
removed when it was told of: `RingsItsCall` needs both to say which call was
meant.

**TwoPhones** puts the stack process of a second phone in the place of the peers:
a request on the network is a request the other one built, a response is built
from the request it answers (`ResponseOf`), and the ACK is the one of `DialogAck`.
Phones number what they make; `Swap` is the name as the other one has it.  The
clients ring and accept calls that wait, and call out.  No call ends here: a phone
that ends one sends a BYE without names, which the other drops, and none cancels.
The proxy forwards messages as they are.

**SelectLoop** is `InitStack`'s loop: `BeginTurn` (select, and the buffer is
cleared), then one step per transporter, `Skip` or `ReceiveAndHandle`.  Datagrams
arrive between any two steps.  The buffer is a sequence of characters of which
NUL and the line end matter; one line end stands for CR LF.  Descriptors come in
any order, because the system numbers them.  **DatagramService** is what the
handlers rely on: a queue per socket, every datagram whole, once, in order.

**Syntax** is `Parser.c` over header patterns, with parameters and URIs;
**MessageText** is the messages, the message builder, the credentials and the
lines of the client protocol on top of it; **MessageTrip** sends them.  A text is
a sequence of tokens, each a separator or a word; what is written and what is
read go through the same tables, as in the code, and the tables of a URI and of a
contact header are chosen from the text as the code chooses them.  A trip begins
with a message of a peer, in one of twelve styles (From and To bare, in brackets, or
with the name in quotes; with and without blanks around separators; with and without
one in front of the colon of an address), or with one the phone builds; it is
written, read, and answered.  `Written` is how peers write and `MayWrite` what the
grammar admits of it; neither is code of the repository.  `meant`, `style` and `asked`
remember what the authors meant and how they wrote it.  The phone misreads some of
these forms, and `Readable` lists them, with their causes: a blank before an address
without brackets (`To: sip:u@h`), a blank before the colon of an address that is
bare or has a quoted name, a second parameter of an address, and a single character
behind a blank.  `Understood` says that the list is exact: what it admits is read as
meant, what it excludes is not.  What the phone makes of a message it misread is not
followed further.

## 3. Runs

| run | question | bounds |
|---|---|---|
| `transaction_timers` | with a timer service and a transport that may refuse anything: types, timers, back-off, final responses, ACKs, contract, and the end of unanswered requests | all four types, two tags, 3 waiting timers |
| `transaction_shipped` | *violated:* is every event expected, in the program as built? | two tags |
| `transaction_late_timer` | *violated:* is every timer expected when it fires? | client types, one tag |
| `stack_calls` | two calls of the peers on two branches each and one more user agent for a call of our own: lists, ids, answers, tags, events | 3 user agents, 5 transactions |
| `stack_registrations` | two accounts register, challenged or not, granted a time, none or nothing, and one is removed, or a call comes or goes, and `EndCall` is used | 3 user agents, 5 transactions |
| `softphone` | the GUI and the stack process: is the GUI a client `SipStack` allows, does a late RINGING ring its own call, does every call that comes in ring? | 2 calls, 2 user agents, 4 transactions |
| `two_phones` | two phones that call each other: deaths, both ends of a call, ACKs, and the caller who must learn that the call was accepted | 3 user agents and 3 transactions each |
| `select_loop` | does the loop implement `DatagramService`, fairness included, and never block? | 2 datagrams per socket in flight, two lengths each, a buffer of 6 |
| `message_trip` | which forms of a message are read as they were meant, and does an answer name what it answers? | 1440 requests, 216 challenges and 18 client lines, in all styles they admit |
| `message_unbinding` | *violated:* does the expiry of a REGISTER arrive? | the REGISTER that removes a binding |
| `stack_bye_copies` | *violated:* is the copy of a BYE answered again? | 1 user agent, 2 transactions |
| `stack_waiting_call` | *violated:* can a waiting call always be accepted? | 2 user agents, 3 transactions |

The bounds.  `MaxWaits` caps how many copies of a rejection arrive while their
timers wait; each copy arms the same timer, so three show every combination of
"first, next, last".  In `stack_calls` two calls on two branches are enough for
a copy, a merged copy and another call to be in every order around an accept, a
cancel and a BYE; five transactions hold two INVITEs, their BYEs or CANCELs and
one more.  Calls and branches are compared for equality only, hence the
symmetry; the properties of that run are safety properties, for which it is
sound.  Two accounts stand for the three of the code: the properties relate at
most two requests.  In `softphone` two user agents are enough for a position to
shift, and four transactions for two INVITEs, a BYE and a call of our own.
In `two_phones` three user agents on each side hold a call each way and a call that
a copy of an INVITE makes anew.  In `select_loop` a long datagram followed by a
short one, in either order and on either socket, fits twice.  Deadlock is not checked
where the process may die, or where a transaction or the trip of a message ends;
it is in `select_loop`.

The fairness of `FairSpec`: time passes (`WF(Tick)`) and a timer that is due
fires.  Both are the timer service's; nothing is assumed of peers, of the user
or of the transport.  `UnansweredEnds` rests on it.  The stub of `Timer.c` gives
no such guarantee, and no liveness property of the program as built rests on a
timer.

The fairness of the others.  `SelectLoop`: `WF(Loop)`, as the process never leaves
the loop and select returns within a second; that no socket starves follows, and
is part of the refinement.  `Softphone`: the CALL_INCOMING and the RINGING about a call
are delivered and read at least once, because both loops serve what arrives
(`SelectLoop`) on one machine; the history variables `shown` and `rung` say which
were, and a second delivery is possible but never owed.  `CallsRing` rests on it.  `TwoPhones`: of the 200s that are on their
way to a call that waits for one, some get through (`OksGetThrough`, weak fairness
of receiving one, written out because TLC evaluates it faster); nothing is
assumed of requests, of provisional responses, or of the clients.

What the violated runs show:

1. `transaction_shipped`: `assert (0)` at the end of `RunFsm` is reached by
   ordinary traffic, such as a copy of the 200 to a REGISTER.
2. `transaction_late_timer`: timers are never cancelled, so a real timer service
   reaches the same assertion.
3. `stack_bye_copies`: the tests have a duplicate BYE answered 200 each time
   through `ReceiveDupRequest`, which no code of the stack calls.
4. `stack_waiting_call`: `DestroyUserAgent` frees the dialogs of all user agents,
   so after one call ends, accepting another that waits fails
   `assert(dialog != NULL)`.
5. `message_unbinding`: `Integer2String` leaves out a 0 that its table does not
   call mandatory.  The REGISTER with expiry 0 is written with the bare word
   `Expires`, and the binding is not removed.  The test of the builder looks at
   the object, where the 0 still is.

## 4. Proofs

All theorems hold for all values of the constants that satisfy the assumptions of
their modules.  Only what a list below says is assumed besides.

### One transaction

Any set of types, any set of tags without `NoTag`, any `MaxWaits`, with or without
timers, refusals and the test-only operations.

| theorem | property |
|---|---|
| `TypeCorrect` | `TypeOK` |
| `AlwaysSupervised` | `Supervised` |
| `AlwaysOnSchedule` | `OnSchedule` |
| `BudgetIsKept` | `TransmissionBudget` |
| `FinalResponseAlwaysStands` | `FinalResponseStands` |
| `EveryRejectAcknowledged` | `AcksEveryReject` |
| `ImplementsContract` | `KeepsContract`, the refinement |

Everything the invariants ask of one table entry is collected in `Sound`: where it
may lead, when it may send or inform, which timers it arms, and that each timer the
new state relies on is armed by the entry or was one the old state relied on and is
not the one that fired.  Which those are is no list of ours: `Guardians` reads off the
table of a state the timers whose entry ends the transaction or arms the same timer
again.  A state without such an entry relies on none (a client INVITE in PROCEEDING, a
server INVITE in PROCEEDING, the other server transactions before their final response)
and `Supervised` promises it no end; nor does it say that a leftover timer of an
earlier state does not fire first, which is what `transaction_late_timer` shows.  One lemma per table shows each of its entries sound, and
`EntriesAreSound` sums them up.  `RunFsmOutcome` shows that a run of the machine
stops the transaction or runs the whole of one entry, and `StepOutcome` that a step
runs the machine, stops it or leaves it alone.  There are two inductive invariants:

    Inv   == TypeOK /\ Supervised /\ FinalResponseStands /\ Undecided
    Timed == TypeOK /\ Fresh /\ Silent /\ TransmissionBudget
               /\ (TimersFire /\ Waiting => Scheduled)

`Undecided` (no outcome was told before the decision) is what the refinement
needs: without it a step could tell a second one.  `OnSchedule` is not inductive
and does not give the budget: it says nothing of a client that has heard a
provisional response and goes on repeating its request.  `Scheduled` covers both.
The request is due exactly on schedule before a provisional response and never
before it afterwards, because in PROCEEDING the interval is `T2`, the longest, and
`ResetRetransmits` leaves the pending timer alone; the shift is the one that the
number of transmissions calls for; and what is left of both timers is a whole
number of `T1`, so that no tick passes a timer by.  As the 11th repetition would be
due after 64 `T1`, the timeout comes first.

### The stack process

Any number of accounts, any calls, branches and bounds, whether the test-only
operations are used or not.  The assumptions on constants are
`CountsAssumption` (the accounts are bound within the bounds), and
`NamesAssumption` (a Call-ID or tag of a peer is none that the process makes; in
the program both are random texts).

| theorem of `SipStack_proofs` | property |
|---|---|
| `TypeCorrect` | `TypeOK` |
| `ListsAlwaysAgree` | `ListsAgree` |
| `DialogsHaveTheirIds` | `OneDialogPerId` |
| `EventsAlwaysName` | `EventsNameACall` |
| `DecisionsAreFinal` | `OneDecision` |
| `RegistersOneByOne` | `OneRegisterOutstanding` |
| `UnansweredCallsStayOpen` | `UnansweredCallIsOpen` |
| `ByesFindTheirCalls` | `ByeFindsItsCall` |
| `AccountsChangeAsGranted` | `BindingsGranted` |
| `ImplementsCallLife` | `KeepsLife`, if `~WholeApi` |

Handlers are operators from stack to stack, so their lemmas are about operators and
not about steps.  `StackEffects_proofs` says, of every helper and every handler,
exactly what becomes of each list and each object, re-entry included.
`StackMoves_proofs` states the invariant of a stack between two handlers,

    Good(s) == Well(s) /\ Machines(s) /\ AgentsBut(s, Null)

and shows that every handler that the process survives turns a `Good` stack into
one.  `Well` is types and lists.  `Machines` is what the transactions are: which
states each type can rest in, which request each was made for, that a transaction
is listed until it is terminated, that a user agent has one INVITE and one
transaction waiting, that an answered one is over.  `AgentsBut(s, x)` is how
user agents, dialogs and transactions are tied together: a listed dialog has a
listed user agent and a latest transaction of its own, ids are unique, the id of an
accepted dialog is the one the 200 carried, and every dialog but `x` is open.  The
exception is there because these ties are broken in mid-handler: while a CANCEL is
handled, the INVITE of `x` is terminated and its user agent still listed.  No
property is inductive without the others: `OneDialogPerId` needs that the tag of an
id is the number of the transaction that was accepted, and that no other dialog has
that transaction; `UnansweredCallIsOpen` needs that a user agent has one INVITE;
`ByeFindsItsCall` needs the ids of accepted dialogs and that no two are the same.

`SipStack_proofs` adds what the client was told,

    IInv == Good(stack) /\ InBounds(stack) /\ Story(stack, life)
              /\ ToldOnes(stack, life) /\ FinalsTyped /\ Settled
              /\ (WholeApi \/ ~SomeBye(stack)) /\ life has its type

`Story` relates the last event told of a user agent to its transactions: of whom
nothing was told, who is established, whose INVITE is still open.  `Settled` says
that a request of ours with a final answer is over, which keeps a challenge from
being answered twice.  With `EndCall`, which only tests call, `KeepsLife` does not
follow from this: after our BYE a CANCEL of the same call would finish it once more,
hence the hypothesis; every other theorem covers `EndCall`.  TLC has checked `IInv`
as an invariant of `stack_calls` and `stack_registrations`.

### The two processes

`Softphone_proofs`: `PhoneIsAStack` (`ImplementsSipStack`, the refinement),
`PhoneTypeCorrect` (`PhoneTypeOK`) and `RingingRingsItsCall` (`RingsItsCall`), with
the assumptions of `SipStack`; `PhoneTypeCorrect` also assumes `MaxUas > 0`, since
with no user agent there is no position and Make Call still sends 0.

The invariant says that each CALL_INCOMING and each RINGING on its way `Finds` its
call: its position was told of, and if no user agent was removed since, the position
still holds the user agent it is about.  The argument is that every handler either
removes a user agent, so that `Removed` grows, or leaves positions and dialogs where
they are (`Grows`): a user agent is only ever appended.  That the number of
removals is the number made less the number listed is counted with the library's
facts on finite sets.  `RingsItsCall` has the premise that the dialog has
not been answered yet (`NON_EXIST`): of an INVITE that came on two branches, the
CANCEL of one may be answered through the dialog of the other
(`DialogReceiveCancel`), which is left as if its call had been accepted, and a
RINGING that comes later goes to the transaction of the CANCEL.  The proof found that
this premise was missing.

### Two phones

`TwoPhones_proofs`: `TypeCorrect` (`TypeOK`), `PhonesLive` (`NobodyDies`),
`CallsAreMirrored` (`Mirrored`) and `AcksFind` (`AcksFindTheirDialog`), for any
number of calls.  The assumptions are `PhonesAssumption` (the bounds are numbers and
no account is configured) and `NilAssumption` (the empty tag is none that a phone
makes).  The number of messages on the network is not bounded, and each
may be lost, repeated and overtaken.

What a peer may send is here not a parameter but what another stack sent, so that
`Good` is not enough: the invariant relates two stacks and the messages between
them.  It is, for each phone,

    Well(phone)               types; user agent, dialog and transaction n are of call n
    Explained(phone, peer, d) for every message d on its way to it
    Linked(peer, phone)       the calls it has established were accepted by the peer
    Told(phone, event, u)     what its client was told last of call u is true of it

and that no phone has made more than `MaxUas` user agents.  Of a call,
`Well` says that it went `Outgoing`, and is waiting without a remote tag or
established with one, or came `Incoming`, and is waiting with a response that is
not final or accepted with its own number as tag.  `Explained` says that a message
is an INVITE, a response that is not final, the 200 of a call which the peer did
accept, with the tag it accepted it with, or the ACK of one which the receiver did.
No part is inductive without the others.  `NobodyDies` needs that no other message
is on its way, for most of the table entries that are missing are for messages a
phone of this kind cannot send here; a 200 is explained because only a call that
was accepted is answered by one; `Linked` holds after a 200 because it was
explained; and an ACK is explained because its tag is one the caller got from a 200.  That the other end is
unique, though copies of one INVITE may be accepted too, is because the tag of an
accepted call is the number of its transaction.

Each operation that a turn consists of has a lemma which says, of a stack that is
`Well`, what becomes of it (`Entries` lists the nine table entries that two phones
reach); each kind of message and command has one about the whole turn; and
`TurnKeepsInv` puts the turn of one phone, the other phone and the network together.
What was accepted stays accepted, which keeps the messages of earlier turns
explained.  TLC has checked the invariant with the constants of `two_phones`.

### The select loop

`SelectLoop_proofs`, for any texts, descriptors and buffer that satisfy the
assumptions of the module: `TypeCorrect` (`TypeOK`), `LoopNeverBlocks`
(`NeverBlocks`) and `ImplementsService` (`ServesInOrder`, the safety half of
`DatagramService`).  The invariant has four parts: types; the queues hold the texts
that were sent; a descriptor still to be visited is ready only if its queue is not
empty, which only its own visit changes; and the buffer ends with a NUL and is
clear when the first socket is read.  Behind a SIP message, the second socket reads
into what the first one left; its command is cut off at its own line end, which is
why leftovers never show.

### Induction

`Induction_proofs` states induction over the naturals, and that a set of them has a
least element, with sets in place of predicates, and what removing an element
leaves of a list.  It is what the proofs about the first NUL of a buffer, the first
element of a list, the lists of transactions and dialogs, and the binding of all
accounts (a recursive function) use.

### Only model-checked

* Liveness: `UnansweredEnds`, `CallsRing`, `AcceptedIsEstablished`, `ServesBoth`.
  Fairness and ENABLED are out of the prover's reach.
* `MessageTrip`: what its recursive operators compute for every text is induction
  over data (`Understood`, `EchoesRequest`, `AnswersChallenge`).

Every other property of a passing run is a theorem.

## 5. Plan

Done: the machines, their contract and its proof; the stack process, dialogs,
calls and registrations, and their proofs; the two processes of the phone and their
proofs; two phones and their proofs; the select loop, its service and its proof; messages and
their texts.

Left: calls that end between two phones.  A phone that ends one sends a BYE without
names, which the other drops, so that `Mirrored` would need a premise; and the
headers of a BYE have to be modelled in `TwoPhones` first.

## 6. Not modelled, and why

* CppUTest (`cpputest/`, with its startup code for microcontrollers), which is
  most of the lines of the repository, is a test framework of others; the tests
  in `test/` are read for what they say of the program.
* MD5: arithmetic on blocks of bits, out of TLC's reach.  Its value is the list
  of what went in, which is what the registrar compares.
* Media and SDP are stubs, the CLI is an empty loop, the widgets of the GUI hold
  no state, `Dump*` functions print.
* Operations that only tests use to reset lists, or to look into them.
* The nodes and pointers of `utils/list`, and random strings: a fresh name is a
  number.
* Lengths of fields and of tokens (a `char` holds the length in `ParseString`: from
  128 characters on it is negative),
  datagrams that fill the buffer, lines without a colon, content behind the
  headers, status codes outside 100..699.  What the code does with the first two is
  undefined or depends on the layout of the stack.
* Of the forms that are read wrong, or only in part, the peers of `MessageTrip` write
  those that `Readable` lists, and not these: an unquoted display name beginning with
  `sip`, commas inside a quoted value, more than one Via.  Nor do they write tabs,
  folded lines, compact or lower-case names, or escapes in quotes.
* Which account the To of an INVITE finds: of the account of a call that comes in the
  model only keeps whether there is one, where `EndCall` asserts it.
* A socket that cannot be opened (descriptor -1).
* Re-INVITEs, and `EndCall` between two phones (see `TwoPhones`).
