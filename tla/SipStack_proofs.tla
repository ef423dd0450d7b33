-------------------------- MODULE SipStack_proofs ---------------------------
(***************************************************************************)
(* The safety properties of SipStack for every number of accounts and      *)
(* calls, and that it implements CallLife. The invariant IInv joins three  *)
(* things: the stack is Good (StackMoves_proofs); what the client was told *)
(* last of each call fits what the stack has of it (Story); and a request  *)
(* with a final answer is over (Settled). It holds when the accounts are   *)
(* bound at the start, and every turn keeps it: the handlers by the lemmas *)
(* of StackMoves_proofs, the events told by the lemmas on how the story    *)
(* goes on.                                                                *)
(***************************************************************************)
EXTENDS StackMoves_proofs, FiniteSetTheorems

-----------------------------------------------------------------------------
(* What the client was told, L, and the stack it was told about *)

LifeEvents == {"none"} \cup Life!Events

\* The events after a turn that left the stack r.
NextLife(L, r) ==
    IF r.told = NoEvent THEN L ELSE [L EXCEPT ![r.told.ua] = r.told.event]

\* Nothing was told of a user agent that was not made.
NobodyUnmade(s, L) == \A u \in 1 .. MaxUas : u \notin DOMAIN s.dialog => L[u] = "none"

\* The calls of ours that were established are those with the tag of the peer.
EstablishedOnes(s, L) ==
    \A d \in Listed(s) : s.dialog[d].id.remote = PeerTag <=> L[d] = "CALL_ESTABLISHED"

\* A call that came in has a Call-ID of a peer.
IncomingOnes(s, L) ==
    \A d \in Listed(s) : L[d] = "CALL_INCOMING" => s.dialog[d].id.call \in Calls

\* A call of a peer that is open or was accepted was told as one, and as no more.
OpenOnes(s, L) ==
    \A t \in Tr(s) :
        /\ TypeOf(s, t) = "SERVER_INVITE" /\ UserOf(s, t) \in Listed(s)
        /\ ~Over(s, t) \/ t \in AcceptedOf(s)
        => L[UserOf(s, t)] = "CALL_INCOMING"

\* Of a call of ours that is not over the client was told at most that it rings.
AttemptedOnes(s, L) ==
    \A t \in Tr(s) :
        TypeOf(s, t) = "CLIENT_INVITE" /\ UserOf(s, t) \in Listed(s) /\ ~Over(s, t)
        => L[UserOf(s, t)] \in {"none", "CALL_REMOTE_RINGING"}

Story(s, L) ==
    /\ NobodyUnmade(s, L) /\ EstablishedOnes(s, L) /\ IncomingOnes(s, L)
    /\ OpenOnes(s, L) /\ AttemptedOnes(s, L)

\* The events told, by user agent made within the bound.
Lives(s, L) ==
    /\ L \in [1 .. MaxUas -> LifeEvents]
    /\ DOMAIN s.dialog \subseteq 1 .. MaxUas

\* What is told is what was told last of the user agent it is about.
ToldOnes(s, L) ==
    s.told # NoEvent =>
        /\ s.told.ua \in DOMAIN s.dialog /\ s.told.position \in Nat
        /\ s.told.event = L[s.told.ua]
        /\ s.told.event = "CALL_INCOMING" =>
             s.told.ua \in Listed(s) /\ GetUa(s, s.told.position) = s.told.ua

\* The users of the calls that were accepted.
AnsweredOf(s) == {UserOf(s, t) : t \in AcceptedOf(s)}

\* A step of CallLife.
LifeSteps(L, A, L2, A2) ==
    \/ L2 = L /\ A2 = A
    \/ \E u \in 1 .. MaxUas :
         \/ L[u] = "none" /\ L2 = [L EXCEPT ![u] = "CALL_INCOMING"] /\ A2 = A
         \/ L[u] = "CALL_INCOMING" /\ u \notin A /\ A2 = A \cup {u} /\ L2 = L
         \/ /\ L[u] = "CALL_INCOMING" /\ u \notin A
            /\ L2 = [L EXCEPT ![u] = "CALL_PEER_CANCELED"] /\ A2 = A
         \/ /\ L[u] \in {"none", "CALL_REMOTE_RINGING"}
            /\ L2 = [L EXCEPT ![u] = "CALL_REMOTE_RINGING"] /\ A2 = A
         \/ /\ L[u] \in {"none", "CALL_REMOTE_RINGING"}
            /\ L2 = [L EXCEPT ![u] = "CALL_ESTABLISHED"] /\ A2 = A
         \/ /\ L[u] = "CALL_ESTABLISHED" \/ (L[u] = "CALL_INCOMING" /\ u \in A)
            /\ L2 = [L EXCEPT ![u] = "CALL_FINISHED"] /\ A2 = A

\* The story goes on: it stays true, and as CallLife has it.
GoesOn(s, r, L) ==
    LET L2 == NextLife(L, r) IN
    /\ L2 \in [1 .. MaxUas -> LifeEvents] /\ Story(r, L2) /\ ToldOnes(r, L2)
    /\ LifeSteps(L, AnsweredOf(s), L2, AnsweredOf(r))

\* The facts that every one of the following lemmas needs.
LEMMA GoodParts ==
    ASSUME NEW s, Good(s)
    PROVE  /\ s \in Stacks
           /\ \A t \in Tr(s) : /\ UserOf(s, t) \in DOMAIN s.dialog
                               /\ TypeOf(s, t) \in TransactionTypes
           /\ \A d \in Listed(s) : d \in DOMAIN s.dialog
           /\ \A t, u \in Tr(s) :
                /\ TypeOf(s, t) \in {"SERVER_INVITE", "CLIENT_INVITE"}
                /\ TypeOf(s, u) \in {"SERVER_INVITE", "CLIENT_INVITE"}
                /\ UserOf(s, t) = UserOf(s, u)
                => t = u
           /\ \A t \in AcceptedOf(s) :
                t \in Tr(s) /\ TypeOf(s, t) = "SERVER_INVITE" /\ Over(s, t)
<1>1. s \in Stacks /\ Machines(s) /\ \A t \in Tr(s) : UserOf(s, t) \in DOMAIN s.dialog
  BY DEF Good, GoodBut, Well
<1>2. \A t \in Tr(s) : TypeOf(s, t) \in TransactionTypes
  BY <1>1, TransactionDomain DEF Tr, TypeOf, TransactionObjects
<1>3. \A t \in Tr(s) : TypeOf(s, t) \in {"SERVER_INVITE", "CLIENT_INVITE"}
                        => RequestOf(s, t).method = "INVITE"
  BY <1>1 DEF Machines, AllBegan, Begins, Invite, Request
<1>4. \A t \in AcceptedOf(s) : t \in Tr(s) /\ TypeOf(s, t) = "SERVER_INVITE" /\ Over(s, t)
  <2>1. SUFFICES ASSUME NEW t \in AcceptedOf(s)
                 PROVE  t \in Tr(s) /\ TypeOf(s, t) = "SERVER_INVITE" /\ Over(s, t)
    OBVIOUS
  <2>2. t \in Tr(s) /\ RequestOf(s, t).method = "INVITE" /\ <<t, "SEND_OK">> \in s.answers
    BY DEF AcceptedOf
  <2>3. TypeOf(s, t) \in ServerTypes /\ Over(s, t)
    BY <1>1, <2>2 DEF Machines, AnsweredOnce
  <2>4. TypeOf(s, t) # "SERVER_NON_INVITE"
    BY <1>1, <2>2 DEF Machines, AllBegan, Begins
  <2> QED BY <2>2, <2>3, <2>4 DEF ServerTypes
<1>5. \A t, u \in Tr(s) :
                /\ TypeOf(s, t) \in {"SERVER_INVITE", "CLIENT_INVITE"}
                /\ TypeOf(s, u) \in {"SERVER_INVITE", "CLIENT_INVITE"}
                /\ UserOf(s, t) = UserOf(s, u)
                => t = u
  BY <1>1, <1>3 DEF Machines, OneInvite
<1> QED BY <1>1, <1>2, <1>4, <1>5 DEF Listed

\* Nothing is told, and no call begins or changes.
LEMMA CalmGoesOn ==
    ASSUME NEW s, NEW r, Good(s), Good(r), Kept(s, r), NEW L, Lives(s, L), Lives(r, L),
           Story(s, L), Calm(s, r), r.told = NoEvent
    PROVE  GoesOn(s, r, L)
<1>1. NextLife(L, r) = L
  BY DEF NextLife
<1>2. AcceptedOf(r) = AcceptedOf(s) /\ AcceptedOf(s) \subseteq Tr(s)
  BY DEF Calm, AcceptedOf
<1>3. AnsweredOf(r) = AnsweredOf(s)
  BY <1>2 DEF AnsweredOf, Kept
<1>4. NobodyUnmade(r, L)
  BY DEF Story, NobodyUnmade, Kept
<1>5. EstablishedOnes(r, L) /\ IncomingOnes(r, L)
  BY DEF Story, EstablishedOnes, IncomingOnes, Calm
<1>6. OpenOnes(r, L)
  BY <1>2 DEF Story, OpenOnes, Calm, Kept
<1>7. AttemptedOnes(r, L)
  BY DEF Story, AttemptedOnes, Calm, Kept
<1>8. ToldOnes(r, L)
  BY DEF ToldOnes
<1> QED BY <1>1, <1>3, <1>4, <1>5, <1>6, <1>7, <1>8 DEF GoesOn, Story, Lives, LifeSteps

\* A user agent was made: nobody was told of it, or of its call alone.
LEMMA JoinedGoesOn ==
    ASSUME NEW s, NEW r, Good(s), Good(r), Kept(s, r), NEW L, Lives(s, L), Lives(r, L),
           Story(s, L), ComesIn(s, r) \/ GoesOut(s, r), s.told = NoEvent
    PROVE  GoesOn(s, r, L)
<1> DEFINE d == Fresh(s)
           k == Len(s.transaction) + 1
           L2 == NextLife(L, r)
<1>1. PICK type \in TransactionTypes : Joined(s, r, d, type)
  BY DEF ComesIn, GoesOut, TransactionTypes, ServerTypes
<1>2. /\ d \in 1 .. MaxUas /\ L[d] = "none" /\ d \notin DOMAIN s.dialog
      /\ d \in DOMAIN r.dialog
  BY <1>1 DEF Joined, Lives, Story, NobodyUnmade
<1>3. /\ L2 = IF type = "SERVER_INVITE" THEN [L EXCEPT ![d] = "CALL_INCOMING"] ELSE L
      /\ type = "SERVER_INVITE" => ComesIn(s, r)
      /\ type # "SERVER_INVITE" => r.told = NoEvent
  <2>1. CASE ComesIn(s, r)
    <3>1. type = "SERVER_INVITE"
      BY <1>1, <2>1 DEF ComesIn, Joined
    <3>2. r.told # NoEvent
      BY <2>1 DEF ComesIn, NoEvent
    <3> QED BY <2>1, <3>1, <3>2 DEF ComesIn, NextLife
  <2>2. CASE GoesOut(s, r)
    <3>1. type # "SERVER_INVITE"
      BY <1>1, <2>2 DEF GoesOut, Joined, ClientTypes
    <3> QED BY <2>2, <3>1 DEF GoesOut, NextLife
  <2> QED BY <2>1, <2>2
<1>4. L2 \in [1 .. MaxUas -> LifeEvents] /\ \A u \in 1 .. MaxUas : u # d => L2[u] = L[u]
  BY <1>2, <1>3 DEF Lives, LifeEvents, Life!Events
<1>5. L2[d] = IF type = "SERVER_INVITE" THEN "CALL_INCOMING" ELSE "none"
  BY <1>2, <1>3 DEF Lives
<1>6. /\ \A t \in Tr(s) : UserOf(s, t) # d /\ UserOf(s, t) \in 1 .. MaxUas
      /\ \A e \in Listed(s) : e # d /\ e \in 1 .. MaxUas
  BY <1>2, GoodParts DEF Lives
<1>7. /\ Listed(r) = Listed(s) \cup {d}
      /\ \A e \in Listed(s) : r.dialog[e] = s.dialog[e]
      /\ Tr(r) = Tr(s) \cup {k} /\ k \notin Tr(s)
      /\ TypeOf(r, k) = type /\ UserOf(r, k) = d
      /\ r.dialog[d].id.remote # PeerTag
      /\ type = "SERVER_INVITE" => r.dialog[d].id.call \in Calls
      /\ AcceptedOf(r) = AcceptedOf(s) /\ AcceptedOf(s) \subseteq Tr(s)
  BY <1>1 DEF Joined, AcceptedOf
<1>8. AnsweredOf(r) = AnsweredOf(s)
  BY <1>7 DEF AnsweredOf, Kept
<1> HIDE DEF L2, d, k
<1>9. NobodyUnmade(r, L2)
  BY <1>2, <1>4 DEF Story, NobodyUnmade, Kept
<1>10. EstablishedOnes(r, L2)
  BY <1>4, <1>5, <1>6, <1>7 DEF Story, EstablishedOnes
<1>11. IncomingOnes(r, L2)
  BY <1>4, <1>5, <1>6, <1>7 DEF Story, IncomingOnes
<1>12. OpenOnes(r, L2)
  BY <1>4, <1>5, <1>6, <1>7 DEF Story, OpenOnes, Kept
<1>13. AttemptedOnes(r, L2)
  BY <1>4, <1>5, <1>6, <1>7 DEF Story, AttemptedOnes, Kept
<1>14. ToldOnes(r, L2)
  BY <1>2, <1>3, <1>5, <1>7 DEF ToldOnes, ComesIn, d
<1>15. LifeSteps(L, AnsweredOf(s), L2, AnsweredOf(r))
  BY <1>2, <1>3, <1>8 DEF LifeSteps
<1> QED BY <1>4, <1>9, <1>10, <1>11, <1>12, <1>13, <1>14, <1>15 DEF GoesOn, Story, L2

\* The client accepts.
LEMMA AcceptGoesOn ==
    ASSUME NEW s, NEW r, Good(s), Good(r), Kept(s, r), NEW L, Lives(s, L), Lives(r, L),
           Story(s, L), NEW t \in Tr(s), Accepts(s, r, t), s.told = NoEvent
    PROVE  GoesOn(s, r, L)
<1> DEFINE d == UserOf(s, t)
<1>1. NextLife(L, r) = L /\ r.told = NoEvent
  BY DEF NextLife, Accepts
<1>2. L[d] = "CALL_INCOMING" /\ d \in 1 .. MaxUas
  BY GoodParts DEF Story, OpenOnes, Accepts, Lives
<1>3. d \notin AnsweredOf(s)
  <2>1. SUFFICES ASSUME NEW u \in AcceptedOf(s), UserOf(s, u) = d PROVE FALSE
    BY DEF AnsweredOf
  <2>2. u = t
    BY <2>1, GoodParts DEF Accepts
  <2> QED BY <2>2, GoodParts DEF Accepts
<1>4. AcceptedOf(r) = AcceptedOf(s) \cup {t} /\ AcceptedOf(s) \subseteq Tr(s)
  BY DEF Accepts, AcceptedOf
<1>5. AnsweredOf(r) = AnsweredOf(s) \cup {d}
  BY <1>4 DEF AnsweredOf, Kept
<1>6. NobodyUnmade(r, L)
  BY DEF Story, NobodyUnmade, Kept
<1>7. EstablishedOnes(r, L) /\ IncomingOnes(r, L)
  BY DEF Story, EstablishedOnes, IncomingOnes, Accepts
<1>8. OpenOnes(r, L)
  BY <1>2, <1>4 DEF Story, OpenOnes, Accepts, Kept
<1>9. AttemptedOnes(r, L)
  BY DEF Story, AttemptedOnes, Accepts, Kept
<1>10. ToldOnes(r, L)
  BY <1>1 DEF ToldOnes
<1>11. LifeSteps(L, AnsweredOf(s), L, AnsweredOf(r))
  BY <1>2, <1>3, <1>5 DEF LifeSteps
<1> QED BY <1>1, <1>6, <1>7, <1>8, <1>9, <1>10, <1>11 DEF GoesOn, Story, Lives

\* The peer takes back a call that is open.
LEMMA CancelGoesOn ==
    ASSUME NEW s, NEW r, Good(s), Good(r), Kept(s, r), NEW L, Lives(s, L), Lives(r, L),
           Story(s, L), NEW t \in Tr(s), Tame(s, r), TakenBack(s, r, t), Over(r, t)
    PROVE  GoesOn(s, r, L)
<1> DEFINE d == UserOf(s, t)
           L2 == [L EXCEPT ![d] = "CALL_PEER_CANCELED"]
<1>1. NextLife(L, r) = L2
  BY DEF NextLife, TakenBack, NoEvent
<1>2. L[d] = "CALL_INCOMING" /\ d \in 1 .. MaxUas /\ d \in DOMAIN s.dialog
  BY GoodParts DEF Story, OpenOnes, TakenBack, Lives
<1>3. d \notin AnsweredOf(s)
  <2>1. SUFFICES ASSUME NEW u \in AcceptedOf(s), UserOf(s, u) = d PROVE FALSE
    BY DEF AnsweredOf
  <2>2. u = t
    BY <2>1, GoodParts DEF TakenBack
  <2> QED BY <2>2, GoodParts DEF TakenBack
<1>4. /\ L2 \in [1 .. MaxUas -> LifeEvents] /\ L2[d] = "CALL_PEER_CANCELED"
      /\ \A u \in 1 .. MaxUas : u # d => L2[u] = L[u]
  BY <1>2 DEF Lives, LifeEvents, Life!Events
<1>5. AcceptedOf(r) = AcceptedOf(s) /\ AcceptedOf(s) \subseteq Tr(s)
  BY DEF Tame, Calm, AcceptedOf
<1>6. AnsweredOf(r) = AnsweredOf(s)
  BY <1>5 DEF AnsweredOf, Kept
<1>7. \A e \in Listed(r) :
         /\ e \in Listed(s) /\ e \in 1 .. MaxUas
         /\ r.dialog[e].id.call = s.dialog[e].id.call
         /\ r.dialog[e].id.remote = s.dialog[e].id.remote
  BY GoodParts DEF Tame, Calm, Lives
<1>8. \A u \in Tr(r) :
         /\ TypeOf(r, u) \in {"SERVER_INVITE", "CLIENT_INVITE"}
         /\ UserOf(r, u) \in Listed(r)
         => /\ u \in Tr(s) /\ TypeOf(s, u) = TypeOf(r, u) /\ UserOf(r, u) = UserOf(s, u)
            /\ UserOf(s, u) \in Listed(s)
            /\ UserOf(r, u) = d => u = t
            /\ ~Over(r, u) => ~Over(s, u)
  BY <1>7, GoodParts DEF Tame, Calm, Kept, TakenBack
<1>9. t \notin AcceptedOf(s)
  BY GoodParts DEF TakenBack
<1> HIDE DEF L2, d
<1>10. NobodyUnmade(r, L2)
  BY <1>2, <1>4 DEF Story, NobodyUnmade, Kept
<1>11. EstablishedOnes(r, L2)
  BY <1>2, <1>4, <1>7 DEF Story, EstablishedOnes
<1>12. IncomingOnes(r, L2)
  BY <1>2, <1>4, <1>7 DEF Story, IncomingOnes
<1>13. OpenOnes(r, L2)
  BY <1>4, <1>5, <1>7, <1>8, <1>9 DEF Story, OpenOnes
<1>14. AttemptedOnes(r, L2)
  BY <1>4, <1>7, <1>8 DEF Story, AttemptedOnes, TakenBack
<1>15. ToldOnes(r, L2)
  BY <1>2, <1>4 DEF ToldOnes, TakenBack, Kept, d
<1>16. LifeSteps(L, AnsweredOf(s), L2, AnsweredOf(r))
  BY <1>2, <1>3, <1>6 DEF LifeSteps, L2
<1> QED BY <1>1, <1>4, <1>10, <1>11, <1>12, <1>13, <1>14, <1>15, <1>16 DEF GoesOn, Story

\* The peer of a call of ours rings.
LEMMA RingGoesOn ==
    ASSUME NEW s, NEW r, Good(s), Good(r), Kept(s, r), NEW L, Lives(s, L), Lives(r, L),
           Story(s, L), NEW t \in Tr(s), Tame(s, r), Rings(s, r, t)
    PROVE  GoesOn(s, r, L)
<1> DEFINE d == UserOf(s, t)
           L2 == [L EXCEPT ![d] = "CALL_REMOTE_RINGING"]
<1>1. NextLife(L, r) = L2
  BY DEF NextLife, Rings, NoEvent
<1>2. /\ L[d] \in {"none", "CALL_REMOTE_RINGING"} /\ d \in 1 .. MaxUas
      /\ d \in DOMAIN s.dialog
  BY GoodParts DEF Story, AttemptedOnes, Rings, Lives
<1>4. /\ L2 \in [1 .. MaxUas -> LifeEvents] /\ L2[d] = "CALL_REMOTE_RINGING"
      /\ \A u \in 1 .. MaxUas : u # d => L2[u] = L[u]
  BY <1>2 DEF Lives, LifeEvents, Life!Events
<1>5. AcceptedOf(r) = AcceptedOf(s) /\ AcceptedOf(s) \subseteq Tr(s)
  BY DEF Tame, Calm, AcceptedOf
<1>6. AnsweredOf(r) = AnsweredOf(s)
  BY <1>5 DEF AnsweredOf, Kept
<1>7. \A e \in Listed(r) :
         /\ e \in Listed(s) /\ e \in 1 .. MaxUas
         /\ r.dialog[e].id.call = s.dialog[e].id.call
         /\ r.dialog[e].id.remote = s.dialog[e].id.remote
  BY GoodParts DEF Tame, Calm, Lives
<1>8. \A u \in Tr(r) :
         /\ TypeOf(r, u) \in {"SERVER_INVITE", "CLIENT_INVITE"}
         /\ UserOf(r, u) \in Listed(r)
         => /\ u \in Tr(s) /\ TypeOf(s, u) = TypeOf(r, u) /\ UserOf(r, u) = UserOf(s, u)
            /\ UserOf(s, u) \in Listed(s)
            /\ UserOf(r, u) = d => u = t
            /\ ~Over(r, u) => ~Over(s, u)
  BY <1>7, GoodParts DEF Tame, Calm, Kept, Rings
<1> HIDE DEF L2, d
<1>10. NobodyUnmade(r, L2)
  BY <1>2, <1>4 DEF Story, NobodyUnmade, Kept
<1>11. EstablishedOnes(r, L2)
  BY <1>2, <1>4, <1>7 DEF Story, EstablishedOnes
<1>12. IncomingOnes(r, L2)
  BY <1>2, <1>4, <1>7 DEF Story, IncomingOnes
<1>13. OpenOnes(r, L2)
  BY <1>4, <1>5, <1>7, <1>8 DEF Story, OpenOnes, Rings
<1>14. AttemptedOnes(r, L2)
  BY <1>4, <1>7, <1>8 DEF Story, AttemptedOnes
<1>15. ToldOnes(r, L2)
  BY <1>2, <1>4 DEF ToldOnes, Rings, Kept, d
<1>16. LifeSteps(L, AnsweredOf(s), L2, AnsweredOf(r))
  BY <1>2, <1>6 DEF LifeSteps, L2
<1> QED BY <1>1, <1>4, <1>10, <1>11, <1>12, <1>13, <1>14, <1>15, <1>16 DEF GoesOn, Story

\* The peer of a call of ours accepts.
LEMMA EstablishGoesOn ==
    ASSUME NEW s, NEW r, Good(s), Good(r), Kept(s, r), NEW L, Lives(s, L), Lives(r, L),
           Story(s, L), NEW t \in Tr(s), Establishes(s, r, t)
    PROVE  GoesOn(s, r, L)
<1> DEFINE d == UserOf(s, t)
           L2 == [L EXCEPT ![d] = "CALL_ESTABLISHED"]
<1>1. NextLife(L, r) = L2
  BY DEF NextLife, Establishes, NoEvent
<1>2. /\ L[d] \in {"none", "CALL_REMOTE_RINGING"} /\ d \in 1 .. MaxUas
      /\ d \in DOMAIN s.dialog
  BY GoodParts DEF Story, AttemptedOnes, Establishes, Lives
<1>4. /\ L2 \in [1 .. MaxUas -> LifeEvents] /\ L2[d] = "CALL_ESTABLISHED"
      /\ \A u \in 1 .. MaxUas : u # d => L2[u] = L[u]
  BY <1>2 DEF Lives, LifeEvents, Life!Events
<1>5. AcceptedOf(r) = AcceptedOf(s) /\ AcceptedOf(s) \subseteq Tr(s)
  BY DEF Establishes, AcceptedOf
<1>6. AnsweredOf(r) = AnsweredOf(s)
  BY <1>5 DEF AnsweredOf, Kept
<1>7. /\ r.dialog[d].id.remote = PeerTag
      /\ \A e \in Listed(r) :
         /\ e \in Listed(s) /\ e \in 1 .. MaxUas
         /\ e # d => r.dialog[e].id = s.dialog[e].id
  BY GoodParts DEF Establishes, Lives
<1>8. \A u \in Tr(r) :
         /\ TypeOf(r, u) \in {"SERVER_INVITE", "CLIENT_INVITE"}
         /\ UserOf(r, u) \in Listed(r)
         => /\ u \in Tr(s) /\ TypeOf(s, u) = TypeOf(r, u) /\ UserOf(r, u) = UserOf(s, u)
            /\ UserOf(s, u) \in Listed(s)
            /\ UserOf(r, u) = d => u = t
            /\ ~Over(r, u) => ~Over(s, u)
  BY <1>7, GoodParts DEF Kept, Establishes
<1> HIDE DEF L2, d
<1>10. NobodyUnmade(r, L2)
  BY <1>2, <1>4 DEF Story, NobodyUnmade, Kept
<1>11. EstablishedOnes(r, L2)
  BY <1>2, <1>4, <1>7 DEF Story, EstablishedOnes
<1>12. IncomingOnes(r, L2)
  BY <1>2, <1>4, <1>7 DEF Story, IncomingOnes
<1>13. OpenOnes(r, L2)
  BY <1>4, <1>5, <1>7, <1>8 DEF Story, OpenOnes, Establishes
<1>14. AttemptedOnes(r, L2)
  BY <1>4, <1>7, <1>8 DEF Story, AttemptedOnes, Establishes
<1>15. ToldOnes(r, L2)
  BY <1>2, <1>4 DEF ToldOnes, Establishes, Kept, d
<1>16. LifeSteps(L, AnsweredOf(s), L2, AnsweredOf(r))
  BY <1>2, <1>6 DEF LifeSteps, L2
<1> QED BY <1>1, <1>4, <1>10, <1>11, <1>12, <1>13, <1>14, <1>15, <1>16 DEF GoesOn, Story

\* A peer hangs up the call its request names.
LEMMA FinishGoesOn ==
    ASSUME NEW s, NEW r, Good(s), Good(r), Kept(s, r), NEW L, Lives(s, L), Lives(r, L),
           Story(s, L), NEW m, Finishes(s, r, m)
    PROVE  LET d == r.told.ua
               L2 == NextLife(L, r) IN
           /\ L2 \in [1 .. MaxUas -> LifeEvents] /\ Story(r, L2) /\ ToldOnes(r, L2)
           /\ \/ L[d] = "CALL_ESTABLISHED"
              \/ L[d] = "CALL_INCOMING" /\ d \in AnsweredOf(s)
              => GoesOn(s, r, L)
<1> DEFINE d == r.told.ua
           L2 == [L EXCEPT ![d] = "CALL_FINISHED"]
<1>1. NextLife(L, r) = L2
  BY DEF NextLife, Finishes, Ended, NoEvent
<1>2. d \in 1 .. MaxUas /\ d \in DOMAIN s.dialog /\ Listed(r) = {}
  BY GoodParts DEF Finishes, Ended, Lives
<1>4. /\ L2 \in [1 .. MaxUas -> LifeEvents] /\ L2[d] = "CALL_FINISHED"
      /\ \A u \in 1 .. MaxUas : u # d => L2[u] = L[u]
  BY <1>2 DEF Lives, LifeEvents, Life!Events
<1>5. AcceptedOf(r) = AcceptedOf(s) /\ AcceptedOf(s) \subseteq Tr(s)
  BY DEF Finishes, Tame, Calm, AcceptedOf
<1>6. AnsweredOf(r) = AnsweredOf(s)
  BY <1>5 DEF AnsweredOf, Kept
<1> HIDE DEF L2, d
<1>7. NobodyUnmade(r, L2)
  BY <1>2, <1>4 DEF Story, NobodyUnmade, Kept
<1>8. Story(r, L2)
  BY <1>2, <1>7 DEF Story, EstablishedOnes, IncomingOnes, OpenOnes, AttemptedOnes
<1>9. ToldOnes(r, L2)
  BY <1>2, <1>4 DEF ToldOnes, Finishes, Ended, Kept, d
<1>10. \/ L[d] = "CALL_ESTABLISHED"
       \/ L[d] = "CALL_INCOMING" /\ d \in AnsweredOf(s)
       => LifeSteps(L, AnsweredOf(s), L2, AnsweredOf(r))
  BY <1>2, <1>6 DEF LifeSteps, L2
<1>11. \/ L[d] = "CALL_ESTABLISHED"
       \/ L[d] = "CALL_INCOMING" /\ d \in AnsweredOf(s)
       => GoesOn(s, r, L)
  BY <1>1, <1>4, <1>8, <1>9, <1>10 DEF GoesOn
<1>12. d = r.told.ua
  BY DEF d
<1> HIDE DEF L2
<1> QED BY <1>1, <1>4, <1>8, <1>9, <1>11, <1>12

-----------------------------------------------------------------------------
(* The accounts are bound before the first turn *)

\* The stacks in the order in which the accounts are bound exist.
LEMMA BindingStages ==
    ASSUME NEW k \in Nat
    PROVE  \E f : f = [n \in 0 .. k |-> IF n = 0 THEN EmptyStack
                                        ELSE AccountAddBinding(f[n - 1], n)]
<1> DEFINE Stages(f, j) == f = [n \in 0 .. j |-> IF n = 0 THEN EmptyStack
                                             ELSE AccountAddBinding(f[n - 1], n)]
           T == {j \in Nat : \E f : Stages(f, j)}
<1>1. 0 \in T
  <2>1. Stages([n \in 0 .. 0 |-> EmptyStack], 0)
    OBVIOUS
  <2> QED BY <2>1
<1>2. \A j \in Nat : j \in T => j + 1 \in T
  <2>1. SUFFICES ASSUME NEW j \in Nat, NEW f, Stages(f, j)
                 PROVE  \E g : Stages(g, j + 1)
    OBVIOUS
  <2> DEFINE g == [n \in 0 .. j + 1 |-> IF n <= j THEN f[n]
                                        ELSE AccountAddBinding(f[j], j + 1)]
  <2>2. \A n \in 0 .. j : g[n] = f[n]
    OBVIOUS
  <2>2a. g[j + 1] = AccountAddBinding(f[j], j + 1) /\ DOMAIN g = 0 .. j + 1
    OBVIOUS
  <2>2b. \A n \in 0 .. j : f[n] = IF n = 0 THEN EmptyStack
                             ELSE AccountAddBinding(f[n - 1], n)
    BY <2>1
  <2>3. \A n \in 0 .. j + 1 : g[n] = IF n = 0 THEN EmptyStack
                             ELSE AccountAddBinding(g[n - 1], n)
    <3>1. SUFFICES ASSUME NEW n \in 0 .. j + 1
                 PROVE  g[n] = IF n = 0 THEN EmptyStack
                             ELSE AccountAddBinding(g[n - 1], n)
      OBVIOUS
    <3> HIDE DEF g
    <3>2. CASE n = j + 1
      <4>1. g[n - 1] = f[j] /\ n # 0
        BY <3>2, <2>2
      <4> QED BY <4>1, <3>2, <2>2a
    <3>3. CASE n \in 0 .. j
      <4>1. g[n] = f[n]
        BY <3>3, <2>2
      <4>2. n # 0 => g[n - 1] = f[n - 1]
        BY <3>3, <2>2
      <4> QED BY <4>1, <4>2, <3>3, <2>2b
    <3> QED BY <3>2, <3>3
  <2>4. g = [n \in 0 .. j + 1 |-> g[n]]
    OBVIOUS
  <2> HIDE DEF g
  <2>5. Stages(g, j + 1)
    BY <2>3, <2>4
  <2> QED BY <2>5
<1> HIDE DEF T
<1>3. k \in T
  BY <1>1, <1>2, SetInduction
<1> QED BY <1>3 DEF T

\* BindAllAccounts is the last of them.
LEMMA Bindings ==
    \E f : /\ BindAllAccounts = f[Accounts]
           /\ f[0] = EmptyStack
           /\ \A n \in 1 .. Accounts : f[n] = AccountAddBinding(f[n - 1], n)
<1> DEFINE F(f) == [n \in 0 .. Accounts |-> IF n = 0 THEN EmptyStack
                                     ELSE AccountAddBinding(f[n - 1], n)]
           Bound == CHOOSE f : f = F(f)
<1>1. BindAllAccounts = Bound[Accounts]
  BY DEF BindAllAccounts
<1>2. Accounts \in Nat
  BY CountsAssumption
<1>3. Bound = F(Bound)
  BY <1>2, BindingStages
<1> HIDE DEF Bound
<1>4. /\ Bound[0] = EmptyStack
      /\ \A n \in 1 .. Accounts : Bound[n] = AccountAddBinding(Bound[n - 1], n)
  BY <1>2, <1>3
<1> QED BY <1>1, <1>4

\* The first action of a request of ours cannot fail.
LEMMA BindingSurvives ==
    ASSUME NEW s \in Stacks, s.fault = "none", NEW d, NEW m
    PROVE  DialogNewTransaction(s, d, m, "CLIENT_NON_INVITE").fault = "none"
<1> DEFINE k  == Len(s.transaction) + 1
           v  == [type |-> "CLIENT_NON_INVITE", state |-> "INIT", request |-> m,
                  user |-> d, latest |-> "none"]
           q  == PutTransaction(s, m, d, "CLIENT_NON_INVITE")
           e  == CHOOSE x \in EntriesFor(q, k, "INIT") : TRUE
           q2 == [q EXCEPT !.transaction[k].state = e.nextState]
           q3 == RunActions(q2, k, InvokeActions(e.actions, TRUE))
           q4 == RemoveTerminatedTransaction(q3, k)
           q5 == [q4 EXCEPT !.dialog[d].transaction = Len(q4.transaction)]
<1>1. q.transaction = Append(s.transaction, v) /\ q.fault = "none" /\ Running(q)
  BY DEF PutTransaction, Stacks, Running
<1>2. q.transaction[k] = v
  BY <1>1 DEF Stacks
<1> HIDE DEF q
<1>3. EntriesFor(q, k, "INIT") # {}
  <2>1. Entry({"INIT"}, "TRYING", <<"SendRequestMessage",
              "ClientNonInviteAddRetransmitTimer", "AddTimeoutTimer">>)
          \in LocateEventEntry("CLIENT_NON_INVITE", "INIT", "INIT")
    BY DEF LocateEventEntry, LocateFsmState, Fsm, Entry, ClientNonInviteTransactionFsm,
           ClientInitState
  <2> QED BY <1>2, <2>1 DEF EntriesFor
<1> HIDE DEF k, v, e
<1>4. q2.fault = "none" /\ Running(q2)
  BY <1>1 DEF Running
<1> HIDE DEF q2
<1>5. q3.fault = "none" /\ Running(q3)
  BY <1>4 DEF RunActions, SendMessage, SendResponse, Running
<1>6. Advance(q, k, "INIT") = q3
  BY <1>3 DEF Advance, q2, e
<1> HIDE DEF q3
<1>7. q4.fault = "none" /\ Running(q4)
  BY <1>5 DEF RemoveTerminatedTransaction, Running
<1>8. AddTransaction(s, m, d, "CLIENT_NON_INVITE") = q4
  BY <1>6 DEF AddTransaction, RunQuietly, q, k
<1> HIDE DEF q4
<1>9. q5.fault = "none"
  BY <1>7 DEF Running
<1>10. DialogNewTransaction(s, d, m, "CLIENT_NON_INVITE") = q5
  BY <1>8 DEF DialogNewTransaction
<1> QED BY <1>9, <1>10

\* Binding an account never dies.
LEMMA AddBindingSurvives ==
    ASSUME NEW s, Good(s), s.fault = "none", NEW account \in Nat
    PROVE  AccountAddBinding(s, account).fault = "none"
<1> DEFINE s1 == AddDialog(AddUa(s, account))
<1>1. s \in Stacks /\ Len(s.account) = Len(s.dialog)
  BY DEF Good, GoodBut, Well
<1>2. s1 \in Stacks /\ s1.fault = "none"
  BY <1>1, AddUserAgentEffect DEF SameRest
<1> HIDE DEF s1
<1>3. AccountAddBinding(s, account)
        = DialogNewTransaction(s1, Len(s1.dialog), BuildAddBindingMessage(s1),
                               "CLIENT_NON_INVITE")
  BY DEF AccountAddBinding, s1
<1> QED BY <1>2, <1>3, BindingSurvives

\* A new user agent does not start with a BYE.
LEMMA NoByeJoins ==
    ASSUME NEW s, NEW r, Good(s), Kept(s, r), NEW d, NEW type, Joined(s, r, d, type),
           ~SomeBye(s)
    PROVE  ~SomeBye(r)
<1>1. SUFFICES ASSUME NEW e \in Listed(r)
               PROVE  RequestOf(r, TransactionOf(r, e)).method # "BYE"
  BY DEF SomeBye
<1>2. CASE e = d
  BY <1>2 DEF Joined
<1>3. CASE e # d
  <2>1. e \in Listed(s) /\ r.dialog[e] = s.dialog[e]
    BY <1>3 DEF Joined
  <2>2. TransactionOf(r, e) = TransactionOf(s, e) /\ TransactionOf(s, e) \in Tr(s)
    BY <2>1 DEF TransactionOf, Good, GoodBut, AgentsBut, Linked
  <2> QED BY <2>1, <2>2 DEF SomeBye, Kept
<1> QED BY <1>2, <1>3

\* The stack when n accounts were bound.
Nothing == [u \in 1 .. MaxUas |-> "none"]
Starts(s, n) ==
    /\ Good(s) /\ s.fault = "none" /\ s.told = NoEvent /\ AnsweredOf(s) = {}
    /\ ~SomeBye(s) /\ Story(s, Nothing)
    /\ Len(s.account) = n /\ Len(s.transaction) = n

\* Before the first account is bound.
LEMMA EmptyStarts == Starts(EmptyStack, 0)
<1> DEFINE s == EmptyStack
<1>1. s \in Stacks
  BY DEF EmptyStack, Stacks, NoEvent, Notices, Null
<1>2. /\ Listed(s) = {} /\ Tr(s) = {} /\ s.fault = "none" /\ s.told = NoEvent
      /\ s.answers = {} /\ s.uas = <<>> /\ s.dialogs = <<>> /\ s.transactions = <<>>
      /\ s.account = <<>> /\ s.dialog = <<>> /\ s.transaction = <<>>
  BY DEF EmptyStack, Listed, Tr
<1> HIDE DEF s
<1>3. Well(s)
  BY <1>1, <1>2 DEF Well, Lists
<1>4. Machines(s)
  BY <1>2 DEF Machines, LiveListed, AllRest, AllBegan, OneInvite, OneWaits, AnsweredOnce
<1>5. AgentsBut(s, Null)
  BY <1>2 DEF AgentsBut, Linked, LatestRules, OwnIds, OneId, AcceptedIds
<1>6. AnsweredOf(s) = {} /\ ~SomeBye(s)
  BY <1>2 DEF AnsweredOf, AcceptedOf, SomeBye
<1>7. Story(s, Nothing)
  BY <1>2 DEF Story, NobodyUnmade, EstablishedOnes, IncomingOnes, OpenOnes, AttemptedOnes,
              Nothing
<1> QED BY <1>2, <1>3, <1>4, <1>5, <1>6, <1>7 DEF Starts, Good, GoodBut, s

\* One more account is bound (BindAllAccounts, AccountManager.c:114).
LEMMA BoundStarts ==
    ASSUME NEW n \in Nat, n < Accounts, NEW s, Starts(s, n), NEW account \in Nat
    PROVE  Starts(AccountAddBinding(s, account), n + 1)
<1> DEFINE r == AccountAddBinding(s, account)
<1>1. r.fault = "none"
  BY AddBindingSurvives DEF Starts
<1>2. /\ Good(r) /\ Kept(s, r) /\ r.binded = s.binded /\ GoesOut(s, r)
      /\ \E m : AgentMade(s, r, account, m, "CLIENT_NON_INVITE")
  BY <1>1, BindingRequestHandled DEF Starts
<1> HIDE DEF r
<1>3. Len(r.account) = n + 1 /\ Len(r.transaction) = n + 1 /\ Len(r.dialog) = n + 1
  BY <1>2 DEF AgentMade, Started, Appended, Starts, Good, GoodBut, Well, Stacks, Fresh
<1>4. /\ DOMAIN s.dialog \subseteq 1 .. MaxUas /\ DOMAIN r.dialog \subseteq 1 .. MaxUas
      /\ Nothing \in [1 .. MaxUas -> LifeEvents]
  <2>1. s \in Stacks /\ r \in Stacks /\ Len(s.dialog) = n
    BY <1>2 DEF Starts, Good, GoodBut, Well, AgentMade
  <2>2. DOMAIN s.dialog = 1 .. n /\ DOMAIN r.dialog = 1 .. n + 1
    BY <1>3, <2>1, DialogDomain
  <2> QED BY <2>2, CountsAssumption DEF Nothing, LifeEvents
<1>5. GoesOn(s, r, Nothing) /\ r.told = NoEvent
  BY <1>2, <1>4, JoinedGoesOn DEF Starts, Lives, GoesOut
<1>6. Story(r, Nothing)
  BY <1>5 DEF GoesOn, NextLife
<1>7. AnsweredOf(r) = {}
  <2>1. AcceptedOf(r) = AcceptedOf(s) /\ AcceptedOf(s) = {}
    BY <1>2 DEF GoesOut, Joined, Starts, AnsweredOf
  <2> QED BY <2>1 DEF AnsweredOf
<1>8. ~SomeBye(r)
  BY <1>2, NoByeJoins DEF GoesOut, Starts
<1> QED BY <1>1, <1>2, <1>3, <1>5, <1>6, <1>7, <1>8 DEF Starts, r

\* The process starts.
LEMMA ProcessStarts == Starts(BindAllAccounts, Accounts)
<1>1. PICK f : /\ BindAllAccounts = f[Accounts] /\ f[0] = EmptyStack
               /\ \A n \in 1 .. Accounts : f[n] = AccountAddBinding(f[n - 1], n)
  BY Bindings
<1> DEFINE T == {n \in Nat : n <= Accounts => Starts(f[n], n)}
<1>2. 0 \in T
  BY <1>1, EmptyStarts
<1>3. Accounts \in Nat
  BY CountsAssumption
<1>4. \A n \in Nat : n \in T => n + 1 \in T
  <2>1. SUFFICES ASSUME NEW n \in Nat, n < Accounts, Starts(f[n], n)
                 PROVE  Starts(f[n + 1], n + 1)
    BY <1>3
  <2>2. f[n + 1] = AccountAddBinding(f[n], n + 1)
    <3>1. n + 1 \in 1 .. Accounts /\ (n + 1) - 1 = n
      BY <1>3, <2>1
    <3> QED BY <1>1, <3>1
  <2> QED BY <2>1, <2>2, BoundStarts
<1> HIDE DEF T
<1>5. Accounts \in T
  BY <1>2, <1>3, <1>4, SetInduction
<1> QED BY <1>1, <1>3, <1>5 DEF T

-----------------------------------------------------------------------------
(* The inductive invariant *)

\* A request with a final answer is over.
Settled == Alive => \A t \in 1 .. MaxTransactions :
                        finals[t] # "none" => t \in Tr(stack) /\ Over(stack, t)

FinalsTyped == finals \in [1 .. MaxTransactions -> {"none"} \cup FinalEvents]

InBounds(s) == Len(s.account) <= MaxUas /\ Len(s.transaction) <= MaxTransactions

IInv ==
    /\ Good(stack) /\ InBounds(stack)
    /\ life \in [1 .. MaxUas -> LifeEvents]
    /\ Story(stack, life) /\ ToldOnes(stack, life)
    /\ WholeApi \/ ~SomeBye(stack)
    /\ FinalsTyped /\ Settled

\* The objects of a stack within the bounds have numbers within the bounds.
LEMMA LivesInBounds ==
    ASSUME NEW s, Good(s), InBounds(s), NEW L \in [1 .. MaxUas -> LifeEvents]
    PROVE  Lives(s, L) /\ Tr(s) \subseteq 1 .. MaxTransactions
<1>1. s \in Stacks /\ Len(s.account) = Len(s.dialog)
  BY DEF Good, GoodBut, Well
<1>2. /\ DOMAIN s.dialog = 1 .. Len(s.dialog) /\ Len(s.dialog) \in Nat
      /\ DOMAIN s.transaction = 1 .. Len(s.transaction) /\ Len(s.transaction) \in Nat
  BY <1>1, DialogDomain, TransactionDomain
<1> QED BY <1>1, <1>2, CountsAssumption DEF Lives, Tr, InBounds

\* The same story of a stack with the same objects.
LEMMA SameStory ==
    ASSUME NEW s, Good(s), NEW r \in Stacks, SameAgents(s, r), SameMachines(s, r), NEW L
    PROVE  /\ Good(r) /\ Kept(s, r) /\ Tame(s, r)
           /\ Tr(r) = Tr(s) /\ \A t \in Tr(s) : StateOf(r, t) = StateOf(s, t)
           /\ Story(s, L) => Story(r, L)
           /\ InBounds(s) => InBounds(r)
           /\ AnsweredOf(r) = AnsweredOf(s) /\ AcceptedOf(r) = AcceptedOf(s)
           /\ SomeBye(r) <=> SomeBye(s)
<1>1. Good(r) /\ Kept(s, r) /\ Tame(s, r) /\ \A t \in Tr(s) : StateOf(r, t) = StateOf(s, t)
  BY SameKeeps DEF Good
<1>2. /\ r.uas = s.uas /\ r.account = s.account /\ r.dialogs = s.dialogs
      /\ r.dialog = s.dialog /\ r.transactions = s.transactions
      /\ r.transaction = s.transaction /\ r.answers = s.answers
  BY DEF SameAgents, SameMachines
<1>3. /\ Tr(r) = Tr(s) /\ Listed(r) = Listed(s)
      /\ \A t : /\ TypeOf(r, t) = TypeOf(s, t) /\ RequestOf(r, t) = RequestOf(s, t)
                /\ UserOf(r, t) = UserOf(s, t) /\ StateOf(r, t) = StateOf(s, t)
      /\ \A d : TransactionOf(r, d) = TransactionOf(s, d)
  BY <1>2 DEF Tr, Listed, TypeOf, RequestOf, UserOf, StateOf, TransactionOf
<1>4. AcceptedOf(r) = AcceptedOf(s) /\ AnsweredOf(r) = AnsweredOf(s)
  BY <1>2, <1>3 DEF AcceptedOf, AnsweredOf
<1>5. Story(s, L) => Story(r, L)
  BY <1>2, <1>3, <1>4 DEF Story, NobodyUnmade, EstablishedOnes, IncomingOnes, OpenOnes,
                          AttemptedOnes, Over
<1>6. InBounds(s) => InBounds(r)
  BY <1>2 DEF InBounds
<1>7. SomeBye(r) <=> SomeBye(s)
  BY <1>3 DEF SomeBye
<1> QED BY <1>1, <1>3, <1>4, <1>5, <1>6, <1>7

\* A turn begins with nothing sent and nothing told.
LEMMA TurnBegins ==
    ASSUME IInv
    PROVE  /\ Turn \in Stacks /\ SameAgents(stack, Turn) /\ SameMachines(stack, Turn)
           /\ Turn.binded = stack.binded /\ Turn.fault = stack.fault
           /\ Turn.told = NoEvent
           /\ Good(Turn) /\ InBounds(Turn) /\ Story(Turn, life) /\ Lives(Turn, life)
           /\ AnsweredOf(Turn) = AnsweredOf(stack) /\ AcceptedOf(Turn) = AcceptedOf(stack)
           /\ WholeApi \/ ~SomeBye(Turn)
           /\ Running(Turn) /\ Tr(Turn) = Tr(stack)
           /\ \A t \in Tr(stack) : StateOf(Turn, t) = StateOf(stack, t)
<1> DEFINE q == [stack EXCEPT !.wire = {}]
<1>1. stack \in Stacks /\ Good(stack)
  BY DEF IInv, Good, GoodBut, Well
<1>2. /\ q \in Stacks /\ SameAgents(stack, q) /\ SameMachines(stack, q)
      /\ SameRest(stack, q)
  BY <1>1, SetWire
<1>3. Turn = [q EXCEPT !.told = NoEvent]
  BY DEF Turn, NewTurn
<1> HIDE DEF q
<1>4. NoEvent \in Notices
  BY DEF NoEvent, Notices, Null
<1>5. /\ Turn \in Stacks /\ SameAgents(q, Turn) /\ SameMachines(q, Turn)
      /\ Turn.binded = q.binded /\ Turn.fault = q.fault /\ Turn.told = NoEvent
  BY <1>2, <1>3, <1>4, SetTold
<1>6. /\ SameAgents(stack, Turn) /\ SameMachines(stack, Turn)
      /\ Turn.binded = stack.binded /\ Turn.fault = stack.fault
  BY <1>2, <1>5 DEF SameAgents, SameMachines, SameRest
<1> HIDE DEF Turn
<1>7. /\ Good(Turn) /\ Story(Turn, life) /\ InBounds(Turn) /\ Tr(Turn) = Tr(stack)
      /\ AnsweredOf(Turn) = AnsweredOf(stack) /\ AcceptedOf(Turn) = AcceptedOf(stack)
      /\ SomeBye(Turn) <=> SomeBye(stack)
      /\ \A t \in Tr(stack) : StateOf(Turn, t) = StateOf(stack, t)
  BY <1>1, <1>5, <1>6, SameStory DEF IInv
<1>8. Lives(Turn, life)
  BY <1>7, LivesInBounds DEF IInv
<1>9. Running(Turn)
  BY <1>5 DEF Stacks, Running
<1> QED BY <1>5, <1>6, <1>7, <1>8, <1>9 DEF IInv

\* What becomes of the variables at the end of a turn.
LEMMA TurnEnds ==
    ASSUME IInv, NEW r, Running(r), Becomes(r)
    PROVE  \/ /\ r.fault = "none" /\ InBounds(r)
              /\ stack' = r /\ life' = NextLife(life, r)
           \/ /\ r.fault \in Deaths /\ stack' = [stack EXCEPT !.fault = r.fault]
              /\ life' = life
<1>1. /\ Len(r.account) <= MaxUas /\ Len(r.transaction) <= MaxTransactions
      /\ stack' = IF r.fault = "none" THEN r ELSE [stack EXCEPT !.fault = r.fault]
      /\ life' = IF stack'.told = NoEvent THEN life
                 ELSE [life EXCEPT ![stack'.told.ua] = stack'.told.event]
  BY DEF Becomes
<1>2. CASE r.fault = "none"
  BY <1>1, <1>2 DEF InBounds, NextLife
<1>3. CASE r.fault # "none"
  <2>1. stack \in Stacks
    BY DEF IInv, Good, GoodBut, Well
  <2>2. stack' = [stack EXCEPT !.fault = r.fault] /\ stack'.told = stack.told
    BY <1>1, <1>3, <2>1 DEF Stacks
  <2>3. life' = NextLife(life, stack)
    BY <1>1, <2>2 DEF NextLife
  <2>4. NextLife(life, stack) = life
    <3>1. CASE stack.told # NoEvent
      <4>1. stack.told.event = life[stack.told.ua]
        BY <3>1 DEF IInv, ToldOnes
      <4>2. life = [life EXCEPT ![stack.told.ua] = life[stack.told.ua]]
        BY DEF IInv
      <4> QED BY <3>1, <4>1, <4>2 DEF NextLife
    <3> QED BY <3>1 DEF NextLife
  <2>5. r.fault \in Deaths
    BY <1>3 DEF Running
  <2> QED BY <2>2, <2>3, <2>4, <2>5
<1> QED BY <1>2, <1>3

\* What a turn that the process survives owes.
WellTurned(r) ==
    /\ Good(r) /\ Kept(Turn, r)
    /\ WholeApi \/ ~SomeBye(r)
    /\ NextLife(life, r) \in [1 .. MaxUas -> LifeEvents]
    /\ Story(r, NextLife(life, r)) /\ ToldOnes(r, NextLife(life, r))
    /\ WholeApi \/ GoesOn(Turn, r, life)

\* The step is one of CallLife, or none.
LifeStep == LifeSteps(life, AnsweredOf(stack), life', AnsweredOf(stack'))

\* A turn that owes no more than WellTurned keeps the invariant, whether the
\* process survives it or not, and is a step of a call's life.
LEMMA TurnKeeps ==
    ASSUME IInv, NEW r, Running(r), Becomes(r), FinalsTyped',
           r.fault = "none" /\ InBounds(r) => WellTurned(r),
           r.fault = "none" /\ InBounds(r) /\ stack' = r => Settled'
    PROVE  /\ IInv' /\ (WholeApi \/ LifeStep)
           /\ stack'.binded = stack.binded
              \/ (stack' = r /\ r.fault = "none" /\ InBounds(r))
<1>1. CASE /\ r.fault = "none" /\ InBounds(r)
           /\ stack' = r /\ life' = NextLife(life, r)
  <2>1. WellTurned(r) /\ Settled'
    BY <1>1
  <2>2. IInv'
    BY <1>1, <2>1 DEF WellTurned, IInv
  <2>3. WholeApi \/ LifeStep
    BY <1>1, <2>1, TurnBegins DEF WellTurned, GoesOn, LifeStep
  <2> QED BY <1>1, <2>2, <2>3
<1>2. CASE /\ r.fault \in Deaths /\ stack' = [stack EXCEPT !.fault = r.fault]
           /\ life' = life
  <2>1. stack \in Stacks /\ Good(stack)
    BY DEF IInv, Good, GoodBut, Well
  <2>2. /\ stack' \in Stacks /\ SameAgents(stack, stack') /\ SameMachines(stack, stack')
        /\ stack'.binded = stack.binded /\ stack'.told = stack.told
        /\ stack'.fault = r.fault
    BY <1>2, <2>1 DEF Stacks, SameAgents, SameMachines
  <2>3. /\ Good(stack') /\ InBounds(stack') /\ Story(stack', life)
        /\ AnsweredOf(stack') = AnsweredOf(stack)
        /\ SomeBye(stack') <=> SomeBye(stack)
    <3>1. InBounds(stack) /\ Story(stack, life)
      BY DEF IInv
    <3> QED BY <2>1, <2>2, <3>1, SameStory
  <2>4. ToldOnes(stack', life)
    <3>1. /\ DOMAIN stack'.dialog = DOMAIN stack.dialog
          /\ \A p : GetUa(stack', p) = GetUa(stack, p)
          /\ Listed(stack') = Listed(stack)
      BY <2>2 DEF SameAgents, GetUa, Listed
    <3> QED BY <2>2, <3>1 DEF IInv, ToldOnes
  <2>5. ~Alive'
    BY <1>2, <2>2 DEF Alive, Deaths
  <2>6. IInv'
    BY <1>2, <2>3, <2>4, <2>5 DEF IInv, Settled
  <2>7. LifeStep
    BY <1>2, <2>3 DEF LifeStep, LifeSteps
  <2> QED BY <2>2, <2>6, <2>7
<1> QED BY <1>1, <1>2, TurnEnds

\* A turn that is not about a response.
LEMMA OtherTurnKeeps ==
    ASSUME IInv, Alive, NEW r, Running(r), Becomes(r), UNCHANGED finals,
           r.fault = "none" /\ InBounds(r) => WellTurned(r) /\ r.binded = Turn.binded
    PROVE  IInv' /\ (WholeApi \/ LifeStep) /\ stack'.binded = stack.binded
<1>1. FinalsTyped'
  BY DEF IInv, FinalsTyped
<1>2. ASSUME WellTurned(r), stack' = r
      PROVE  Settled'
  <2>1. SUFFICES ASSUME NEW t \in 1 .. MaxTransactions, finals[t] # "none"
                 PROVE  t \in Tr(r) /\ Over(r, t)
    BY <1>2 DEF Settled
  <2>2. t \in Tr(Turn) /\ Over(Turn, t)
    BY <2>1, TurnBegins DEF IInv, Settled, Over
  <2> QED BY <1>2, <2>2 DEF WellTurned, Kept
<1>3. r.fault = "none" /\ InBounds(r) => WellTurned(r)
  OBVIOUS
<1>4. r.fault = "none" /\ InBounds(r) /\ stack' = r => Settled'
  BY <1>2, <1>3
<1>5. /\ IInv' /\ (WholeApi \/ LifeStep)
      /\ stack'.binded = stack.binded
         \/ (stack' = r /\ r.fault = "none" /\ InBounds(r))
  BY <1>1, <1>3, <1>4, TurnKeeps
<1> QED BY <1>5, TurnBegins

\* A turn after which the story goes on owes nothing more.
LEMMA GoesOnTurns ==
    ASSUME NEW r, Good(r), Kept(Turn, r), GoesOn(Turn, r, life), WholeApi \/ ~SomeBye(r)
    PROVE  WellTurned(r)
BY DEF GoesOn, WellTurned

\* The events and a stack that is within the bounds.
LEMMA LivesOn ==
    ASSUME IInv, NEW r, Good(r), InBounds(r)
    PROVE  Lives(r, life)
BY LivesInBounds DEF IInv

-----------------------------------------------------------------------------
(* The turns *)

\* What the peers send is what RequestHandled speaks of.
LEMMA PeerRequestsTyped ==
    ASSUME IInv, NEW m \in PeerRequests
    PROVE  m \in Requests /\ PeerSends(m)
<1>1. stack \in Stacks
  BY DEF IInv, Good, GoodBut, Well
<1>2. CASE \E p \in Calls, b \in Branches : m = Invite(p, b) \/ m = Cancel(p, b)
  BY <1>2 DEF PeerSends, Requests, Invite, Cancel, Request, Methods, BranchNames, Tags
<1>3. ASSUME NEW t \in Made("INVITE"), m = ByeOfAccepted(t) \/ m = ByeOfEstablished(t)
      PROVE  m \in Requests /\ PeerSends(m)
  <2>1. t \in Nat /\ stack.transaction[t].request \in Requests
    BY <1>1, TransactionDomain DEF Made, TransactionObjects
  <2>2. m.method = "BYE" /\ m.branch = <<"bye", t>>
    BY <1>3 DEF ByeOfAccepted, ByeOfEstablished, Request
  <2>3. CASE m = ByeOfAccepted(t)
    BY <2>1, <2>2, <2>3 DEF PeerSends, Requests, Request, Methods, BranchNames, Tags,
                            ByeOfAccepted
  <2>4. CASE m = ByeOfEstablished(t)
    BY <2>1, <2>2, <2>4 DEF PeerSends, Requests, Request, Methods, BranchNames, Tags,
                            ByeOfEstablished
  <2> QED BY <1>3, <2>3, <2>4
<1>4. m \in {Invite(p, b) : p \in Calls, b \in Branches}
         \cup {Cancel(p, b) : p \in Calls, b \in Branches}
      => m \in Requests /\ PeerSends(m)
  BY <1>2
<1>5. m \in {ByeOfAccepted(t) : t \in Accepted}
         \cup {ByeOfEstablished(t) : t \in {u \in Made("INVITE") : finals[u] = "2XX"}}
      => m \in Requests /\ PeerSends(m)
  BY <1>3 DEF Accepted
<1> QED BY <1>4, <1>5 DEF PeerRequests

\* The call that the BYE of a peer ends is one that one side has accepted.
LEMMA ByeIsOfCall ==
    ASSUME IInv, NEW m \in PeerRequests, m.method = "BYE", NEW r, Ended(Turn, r, m)
    PROVE  LET d == r.told.ua IN
           \/ life[d] = "CALL_ESTABLISHED"
           \/ life[d] = "CALL_INCOMING" /\ d \in AnsweredOf(Turn)
<1> DEFINE d  == r.told.ua
           id == Turn.dialog[d].id
<1>1. /\ Good(Turn) /\ Story(Turn, life) /\ AcceptedOf(Turn) = AcceptedOf(stack)
      /\ Tr(Turn) = Tr(stack) /\ SameMachines(stack, Turn)
  BY TurnBegins
<1> HIDE DEF Turn
<1>2. d \in Listed(Turn) /\ id = [call |-> m.call, local |-> m.to, remote |-> m.from]
  BY DEF Ended
<1>3. Owns(Turn, d, id) /\ \A u \in Tr(Turn) : u \in Nat
  BY <1>1, <1>2, TransactionDomain DEF Good, GoodBut, Well, AgentsBut, OwnIds, Tr
<1> HIDE DEF d, id
<1>4. CASE \E t \in Accepted : m = ByeOfAccepted(t)
  <2>1. PICK t \in Accepted : m = ByeOfAccepted(t)
    BY <1>4
  <2>2. t \in AcceptedOf(Turn) /\ RequestOf(Turn, t) = stack.transaction[t].request
    BY <1>1, <2>1 DEF Accepted, Made, AcceptedOf, Tr, RequestOf, SameMachines
  <2>3. t \in Tr(Turn) /\ TypeOf(Turn, t) = "SERVER_INVITE"
    BY <1>1, <2>2, GoodParts
  <2>4. RequestOf(Turn, t).call \in Calls
    BY <1>1, <2>3 DEF Good, GoodBut, Machines, AllBegan, Begins, Invite, Request
  <2>5. m.to = t /\ m.call = RequestOf(Turn, t).call
    BY <2>1, <2>2 DEF ByeOfAccepted, Request
  <2>6. id.local = t /\ id.call \in Calls
    BY <1>2, <2>4, <2>5
  <2>7. UserOf(Turn, t) = d
    BY <1>3, <2>3, <2>6, NamesApart DEF Owns, EmptyDialogId
  <2>8. life[d] = "CALL_INCOMING" /\ d \in AnsweredOf(Turn)
    BY <1>1, <1>2, <2>2, <2>3, <2>7 DEF Story, OpenOnes, AnsweredOf
  <2> QED BY <2>8 DEF d
<1>5. CASE \E t \in Made("INVITE") : m = ByeOfEstablished(t)
  <2>1. m.from = PeerTag
    BY <1>5 DEF ByeOfEstablished, Request
  <2>2. life[d] = "CALL_ESTABLISHED"
    BY <1>1, <1>2, <2>1 DEF Story, EstablishedOnes, id
  <2> QED BY <2>2 DEF d
<1>6. \A p \in Calls, b \in Branches : m # Invite(p, b) /\ m # Cancel(p, b)
  BY DEF Invite, Cancel, Request
<1> QED BY <1>4, <1>5, <1>6 DEF PeerRequests

\* A request of a peer.
LEMMA RequestTurns ==
    ASSUME IInv, NEW m \in PeerRequests, ReceiveRequest(m)
    PROVE  IInv' /\ (WholeApi \/ LifeStep) /\ stack'.binded = stack.binded
<1> DEFINE r == TmHandleRequestMessage(Turn, m)
<1>1. Alive /\ Becomes(r) /\ UNCHANGED finals
  BY DEF ReceiveRequest
<1>2. m \in Requests /\ PeerSends(m)
  BY PeerRequestsTyped
<1>3. /\ Good(Turn) /\ Story(Turn, life) /\ Lives(Turn, life) /\ Running(Turn)
      /\ Turn.told = NoEvent /\ (WholeApi \/ ~SomeBye(Turn))
  BY TurnBegins
<1> HIDE DEF Turn
<1>4. Running(r)
  BY <1>3, HandlersFollow DEF Follows
<1>5. ASSUME r.fault = "none", InBounds(r)
      PROVE  WellTurned(r) /\ r.binded = Turn.binded
  <2>1. /\ Good(r) /\ Kept(Turn, r) /\ r.binded = Turn.binded
        /\ RequestOutcome(Turn, r, m)
    BY <1>2, <1>3, <1>5, RequestHandled
  <2> HIDE DEF r
  <2>2. Lives(r, life)
    BY <1>5, <2>1, LivesOn
  <2>3. CASE Quiet(Turn, r)
    <3>1. GoesOn(Turn, r, life)
      BY <1>3, <2>1, <2>2, <2>3, CalmGoesOn DEF Quiet, Tame
    <3> QED BY <1>3, <2>1, <2>3, <3>1, GoesOnTurns DEF Quiet, Tame
  <2>4. CASE ComesIn(Turn, r)
    <3>1. GoesOn(Turn, r, life)
      BY <1>3, <2>1, <2>2, <2>4, JoinedGoesOn
    <3>2. WholeApi \/ ~SomeBye(r)
      BY <1>3, <2>1, <2>4, NoByeJoins DEF ComesIn
    <3> QED BY <2>1, <3>1, <3>2, GoesOnTurns
  <2>5. CASE Tame(Turn, r) /\ \E t \in Tr(Turn) : TakenBack(Turn, r, t) /\ Over(r, t)
    <3>1. GoesOn(Turn, r, life)
      BY <1>3, <2>1, <2>2, <2>5, CancelGoesOn
    <3> QED BY <1>3, <2>1, <2>5, <3>1, GoesOnTurns DEF Tame
  <2>6. CASE Finishes(Turn, r, m) /\ (m.method = "BYE" \/ SomeBye(Turn))
    <3>1. /\ NextLife(life, r) \in [1 .. MaxUas -> LifeEvents]
          /\ Story(r, NextLife(life, r)) /\ ToldOnes(r, NextLife(life, r))
      BY <1>3, <2>1, <2>2, <2>6, FinishGoesOn
    <3>2. WholeApi \/ ~SomeBye(r)
      BY <1>3, <2>6 DEF Finishes, Tame
    <3>3. WholeApi \/ GoesOn(Turn, r, life)
      <4>1. SUFFICES ASSUME ~WholeApi PROVE GoesOn(Turn, r, life)
        OBVIOUS
      <4>2. m.method = "BYE" /\ Ended(Turn, r, m)
        BY <1>3, <2>6, <4>1 DEF Finishes
      <4>3. \/ life[r.told.ua] = "CALL_ESTABLISHED"
            \/ life[r.told.ua] = "CALL_INCOMING" /\ r.told.ua \in AnsweredOf(Turn)
        BY <4>2, ByeIsOfCall
      <4> QED BY <1>3, <2>1, <2>2, <2>6, <4>3, FinishGoesOn
    <3> QED BY <2>1, <3>1, <3>2, <3>3 DEF WellTurned
  <2> QED BY <2>1, <2>3, <2>4, <2>5, <2>6 DEF RequestOutcome
<1> QED BY <1>1, <1>4, <1>5, OtherTurnKeeps

\* The response to a request of ours.
LEMMA ResponseAnswers ==
    ASSUME IInv, NEW t \in Sent, NEW m, NEW granted \in {Nil, 0, Lifetime},
           m = [stack.transaction[t].request EXCEPT
                    !.to = PeerTag, !.expires = granted]
    PROVE  /\ t \in Tr(Turn) /\ TypeOf(Turn, t) \in ClientTypes
           /\ Answers(Turn, t, m) /\ m.expires = granted
<1> DEFINE q == stack.transaction[t].request
<1>1. stack \in Stacks /\ SameMachines(stack, Turn) /\ Tr(Turn) = Tr(stack)
  BY TurnBegins DEF IInv, Good, GoodBut, Well
<1>2. t \in Tr(stack) /\ stack.transaction[t].type \in ClientTypes /\ q \in Requests
  BY <1>1, TransactionDomain DEF Sent, Tr, TransactionObjects
<1>3. RequestOf(Turn, t) = q /\ TypeOf(Turn, t) \in ClientTypes
  BY <1>1, <1>2 DEF SameMachines, RequestOf, TypeOf
<1> HIDE DEF q
<1>4. m = [q EXCEPT !.to = PeerTag, !.expires = granted]
  BY DEF q
<1>5. /\ m \in Requests /\ m.method = q.method /\ m.branch = q.branch
      /\ m.call = q.call /\ m.from = q.from /\ m.to = PeerTag
      /\ m.expires = granted
  BY <1>2, <1>4 DEF Requests, Tags
<1> QED BY <1>1, <1>2, <1>3, <1>5 DEF Answers

\* An account changes as BindingsGranted has it.
BindsRightly ==
    \A a \in 1 .. Accounts : stack'.binded[a] # stack.binded[a] =>
         \E t \in Made("REGISTER"), granted \in {0, Lifetime} :
            /\ stack.account[stack.transaction[t].user] = a
            /\ finals[t] = "none"
            /\ ReceiveResponse(t, "2XX", granted)
            /\ stack'.binded[a] = (granted # 0)

\* A response of a peer: only this may change an account.
LEMMA ResponseTurns ==
    ASSUME IInv, NEW t \in Sent, NEW code \in ResponseEvents,
           NEW granted \in Grants(t, code), ReceiveResponse(t, code, granted)
    PROVE  IInv' /\ (WholeApi \/ LifeStep) /\ BindsRightly
<1> DEFINE m == [stack.transaction[t].request EXCEPT
                    !.to = PeerTag, !.expires = granted]
           r == TmHandleReponseMessage(Turn, code, m)
<1>1. /\ Alive /\ Becomes(r)
      /\ code \in FinalEvents => finals[t] \in {"none", code}
      /\ finals' = IF code \in FinalEvents THEN [finals EXCEPT ![t] = code] ELSE finals
  BY DEF ReceiveResponse
<1>2. /\ granted \in {Nil, 0, Lifetime} /\ m.expires = granted
      /\ t \in Tr(Turn) /\ TypeOf(Turn, t) \in ClientTypes /\ Answers(Turn, t, m)
  BY ResponseAnswers DEF Grants
<1> HIDE DEF m
<1>3. /\ Good(Turn) /\ Story(Turn, life) /\ Lives(Turn, life) /\ Running(Turn)
      /\ Turn.told = NoEvent /\ (WholeApi \/ ~SomeBye(Turn))
      /\ InBounds(Turn) /\ SameAgents(stack, Turn) /\ SameMachines(stack, Turn)
      /\ Turn.binded = stack.binded /\ Tr(Turn) = Tr(stack)
      /\ \A u \in Tr(stack) : StateOf(Turn, u) = StateOf(stack, u)
  BY TurnBegins
<1> HIDE DEF Turn
<1>4. Running(r)
  BY <1>3, HandlersFollow DEF Follows
<1>5. /\ t \in 1 .. MaxTransactions /\ life \in [1 .. MaxUas -> LifeEvents]
      /\ finals \in [1 .. MaxTransactions -> {"none"} \cup FinalEvents]
  BY <1>2, <1>3, LivesInBounds DEF IInv, FinalsTyped
<1>6. FinalsTyped'
  BY <1>1, <1>5 DEF FinalsTyped
<1>7. r.fault = "none" => /\ Good(r) /\ Kept(Turn, r)
                          /\ ResponseOutcome(Turn, r, t, code, m)
                          /\ code \in FinalEvents => Over(r, t)
  BY <1>2, <1>3, ResponseHandled
<1> HIDE DEF r
<1>8. ASSUME r.fault = "none", InBounds(r)
      PROVE  WellTurned(r)
  <2>1. Lives(r, life)
    BY <1>7, <1>8, LivesOn
  <2>2. CASE Quiet(Turn, r)
    <3>1. GoesOn(Turn, r, life)
      BY <1>3, <1>7, <1>8, <2>1, <2>2, CalmGoesOn DEF Quiet, Tame
    <3> QED BY <1>3, <1>7, <1>8, <2>2, <3>1, GoesOnTurns DEF Quiet, Tame
  <2>3. CASE Tame(Turn, r) /\ Rings(Turn, r, t)
    <3>1. GoesOn(Turn, r, life)
      BY <1>2, <1>3, <1>7, <1>8, <2>1, <2>3, RingGoesOn
    <3> QED BY <1>3, <1>7, <1>8, <2>3, <3>1, GoesOnTurns DEF Tame
  <2>4. CASE Establishes(Turn, r, t)
    <3>1. GoesOn(Turn, r, life)
      BY <1>2, <1>3, <1>7, <1>8, <2>1, <2>4, EstablishGoesOn
    <3>2. SomeBye(r) => SomeBye(Turn)
      BY <1>3, <1>7, <1>8, <2>4
         DEF Establishes, SomeBye, Kept, Good, GoodBut, AgentsBut, Linked
    <3> QED BY <1>3, <1>7, <1>8, <3>1, <3>2, GoesOnTurns
  <2> QED BY <1>7, <1>8, <2>2, <2>3, <2>4 DEF ResponseOutcome, Binds
<1>9. ASSUME r.fault = "none", stack' = r
      PROVE  Settled'
  <2>1. SUFFICES ASSUME NEW u \in 1 .. MaxTransactions, finals'[u] # "none"
                 PROVE  u \in Tr(r) /\ Over(r, u)
    BY <1>9 DEF Settled
  <2>2. CASE u = t /\ code \in FinalEvents
    BY <1>2, <1>7, <1>9, <2>2 DEF Kept
  <2>3. CASE ~(u = t /\ code \in FinalEvents)
    <3>1. finals[u] # "none"
      BY <1>1, <1>5, <2>1, <2>3
    <3>2. u \in Tr(stack) /\ Over(stack, u)
      BY <1>1, <2>1, <3>1 DEF IInv, Settled
    <3>3. u \in Tr(Turn) /\ Over(Turn, u)
      BY <1>3, <3>2 DEF Over
    <3> QED BY <1>7, <1>9, <3>3 DEF Kept
  <2> QED BY <2>2, <2>3
<1>10. /\ IInv' /\ (WholeApi \/ LifeStep)
       /\ stack'.binded = stack.binded
          \/ (stack' = r /\ r.fault = "none" /\ InBounds(r))
  BY <1>1, <1>4, <1>6, <1>8, <1>9, TurnKeeps
<1>11. ASSUME stack' = r, r.fault = "none"
       PROVE  BindsRightly
  <2>1. CASE r.binded = Turn.binded
    BY <1>3, <1>11, <2>1 DEF BindsRightly
  <2>2. CASE Binds(Turn, r, t, code, m)
    <3>1. code = "2XX" /\ RequestOf(Turn, t).method = "REGISTER" /\ ~Over(Turn, t)
            /\ granted \in {0, Lifetime}
      BY <1>2, <2>2 DEF Binds
    <3>2. t \in Made("REGISTER") /\ RequestOf(Turn, t) = stack.transaction[t].request
            /\ UserOf(Turn, t) = stack.transaction[t].user /\ Turn.account = stack.account
      BY <1>2, <1>3, <3>1 DEF Made, SameMachines, SameAgents, RequestOf, UserOf, Tr
    <3>3. finals[t] = "none"
      <4>1. ~Over(stack, t)
        BY <1>2, <1>3, <3>1 DEF Over
      <4> QED BY <1>1, <1>5, <4>1 DEF IInv, Settled
    <3>4. ReceiveResponse(t, "2XX", granted)
      BY <3>1
    <3>5. SUFFICES ASSUME NEW a \in 1 .. Accounts, stack'.binded[a] # stack.binded[a]
                   PROVE  /\ stack.account[stack.transaction[t].user] = a
                          /\ stack'.binded[a] = (granted # 0)
      BY <3>1, <3>2, <3>3, <3>4 DEF BindsRightly
    <3>6. a \in 0 .. Accounts
      OBVIOUS
    <3>7. r.binded[a] = IF a = Turn.account[UserOf(Turn, t)]
                        THEN granted # 0 ELSE Turn.binded[a]
      BY <1>2, <2>2, <3>6 DEF Binds
    <3>8. a = Turn.account[UserOf(Turn, t)]
      BY <1>3, <1>11, <3>5, <3>7
    <3> QED BY <1>11, <3>2, <3>7, <3>8
  <2> QED BY <1>7, <1>11, <2>1, <2>2 DEF ResponseOutcome, Quiet
<1>12. stack'.binded = stack.binded => BindsRightly
  BY DEF BindsRightly
<1> QED BY <1>10, <1>11, <1>12

\* A command of the client.
LEMMA CommandTurns ==
    ASSUME IInv,
           \/ \E position \in heard : ClientAccepts(position) \/ ClientRings(position)
           \/ ClientCallsOut
           \/ \E known \in BOOLEAN : ApiEndsCall(known)
           \/ \E account \in 1 .. Accounts : ApiRemovesBinding(account)
    PROVE  IInv' /\ (WholeApi \/ LifeStep) /\ stack'.binded = stack.binded
<1>1. /\ Good(Turn) /\ Story(Turn, life) /\ Lives(Turn, life) /\ Running(Turn)
      /\ Turn.told = NoEvent /\ (WholeApi \/ ~SomeBye(Turn))
  BY TurnBegins
<1>2. ASSUME NEW r, HandleClientMessage(r), Running(r),
             r.fault = "none" => Good(r) /\ Kept(Turn, r) /\ r.binded = Turn.binded,
             r.fault = "none" /\ InBounds(r) =>
                GoesOn(Turn, r, life) /\ (WholeApi \/ ~SomeBye(r))
      PROVE  IInv' /\ (WholeApi \/ LifeStep) /\ stack'.binded = stack.binded
  <2>1. r.fault = "none" /\ InBounds(r) => WellTurned(r) /\ r.binded = Turn.binded
    BY <1>2, GoesOnTurns
  <2> QED BY <1>2, <2>1, OtherTurnKeeps DEF HandleClientMessage
<1>3. ASSUME NEW position, ClientAccepts(position)
      PROVE  IInv' /\ (WholeApi \/ LifeStep) /\ stack'.binded = stack.binded
  <2> DEFINE r == AcceptCall(Turn, position)
  <2>1. HandleClientMessage(r)
    BY <1>3 DEF ClientAccepts
  <2> HIDE DEF Turn
  <2>2. Running(r)
    BY <1>1, HandlersFollow DEF Follows
  <2>3. r.fault = "none" => /\ Good(r) /\ Kept(Turn, r) /\ r.binded = Turn.binded
                            /\ \E t \in Tr(Turn) : Accepts(Turn, r, t)
    BY <1>1, AcceptHandled
  <2> HIDE DEF r
  <2>4. r.fault = "none" /\ InBounds(r) =>
          GoesOn(Turn, r, life) /\ (WholeApi \/ ~SomeBye(r))
    <3>1. SUFFICES ASSUME r.fault = "none", InBounds(r)
                   PROVE  GoesOn(Turn, r, life) /\ (WholeApi \/ ~SomeBye(r))
      OBVIOUS
    <3>2. Lives(r, life)
      BY <2>3, <3>1, LivesOn
    <3>3. GoesOn(Turn, r, life)
      BY <1>1, <2>3, <3>1, <3>2, AcceptGoesOn
    <3>4. SomeBye(r) => SomeBye(Turn)
      BY <1>1, <2>3, <3>1 DEF Accepts, SomeBye, Kept, Good, GoodBut, AgentsBut, Linked
    <3> QED BY <1>1, <3>3, <3>4
  <2> QED BY <1>2, <2>1, <2>2, <2>3, <2>4
<1>4. ASSUME NEW position, ClientRings(position)
      PROVE  IInv' /\ (WholeApi \/ LifeStep) /\ stack'.binded = stack.binded
  <2> DEFINE r == Ringing(Turn, position)
  <2>1. HandleClientMessage(r)
    BY <1>4 DEF ClientRings
  <2> HIDE DEF Turn
  <2>2. Running(r)
    BY <1>1, HandlersFollow DEF Follows
  <2>3. r.fault = "none" => /\ Good(r) /\ Kept(Turn, r) /\ r.binded = Turn.binded
                            /\ Quiet(Turn, r)
    BY <1>1, RingingHandled
  <2> HIDE DEF r
  <2>4. r.fault = "none" /\ InBounds(r) =>
          GoesOn(Turn, r, life) /\ (WholeApi \/ ~SomeBye(r))
    BY <1>1, <2>3, LivesOn, CalmGoesOn DEF Quiet, Tame
  <2> QED BY <1>2, <2>1, <2>2, <2>3, <2>4
<1>5. ASSUME ClientCallsOut
      PROVE  IInv' /\ (WholeApi \/ LifeStep) /\ stack'.binded = stack.binded
  <2> DEFINE r == CallOut(Turn)
  <2>1. HandleClientMessage(r)
    BY <1>5 DEF ClientCallsOut
  <2> HIDE DEF Turn
  <2>2. Running(r)
    BY <1>1, HandlersFollow DEF Follows
  <2>3. r.fault = "none" => /\ Good(r) /\ Kept(Turn, r) /\ r.binded = Turn.binded
                            /\ GoesOut(Turn, r)
    BY <1>1, CallOutHandled
  <2> HIDE DEF r
  <2>4. r.fault = "none" /\ InBounds(r) =>
          GoesOn(Turn, r, life) /\ (WholeApi \/ ~SomeBye(r))
    BY <1>1, <2>3, LivesOn, JoinedGoesOn, NoByeJoins DEF GoesOut
  <2> QED BY <1>2, <2>1, <2>2, <2>3, <2>4
<1>6. ASSUME NEW account \in 1 .. Accounts, ApiRemovesBinding(account)
      PROVE  IInv' /\ (WholeApi \/ LifeStep) /\ stack'.binded = stack.binded
  <2> DEFINE r == AccountRemoveBinding(Turn, account)
  <2>1. HandleClientMessage(r)
    BY <1>6 DEF ApiRemovesBinding
  <2> HIDE DEF Turn
  <2>2. Running(r) /\ account \in Nat
    BY <1>1, HandlersFollow DEF Follows
  <2>3. r.fault = "none" => /\ Good(r) /\ Kept(Turn, r) /\ r.binded = Turn.binded
                            /\ GoesOut(Turn, r)
    BY <1>1, <2>2, BindingRequestHandled
  <2> HIDE DEF r
  <2>4. r.fault = "none" /\ InBounds(r) =>
          GoesOn(Turn, r, life) /\ (WholeApi \/ ~SomeBye(r))
    BY <1>1, <2>3, LivesOn, JoinedGoesOn, NoByeJoins DEF GoesOut
  <2> QED BY <1>2, <2>1, <2>2, <2>3, <2>4
<1>7. ASSUME NEW known \in BOOLEAN, ApiEndsCall(known)
      PROVE  IInv' /\ (WholeApi \/ LifeStep) /\ stack'.binded = stack.binded
  <2> DEFINE r == EndCall(Turn, known)
  <2>1. HandleClientMessage(r) /\ WholeApi
    BY <1>7 DEF ApiEndsCall
  <2> HIDE DEF Turn
  <2>2. Running(r)
    BY <1>1, HandlersFollow DEF Follows
  <2>3. r.fault = "none" => /\ Good(r) /\ Kept(Turn, r) /\ r.binded = Turn.binded
                            /\ Leaves(Turn, r)
    BY <1>1, EndCallHandled
  <2> HIDE DEF r
  <2>4. r.fault = "none" /\ InBounds(r) =>
          GoesOn(Turn, r, life) /\ (WholeApi \/ ~SomeBye(r))
    BY <1>1, <2>1, <2>3, LivesOn, CalmGoesOn DEF Leaves
  <2> QED BY <1>2, <2>1, <2>2, <2>3, <2>4
<1> QED BY <1>3, <1>4, <1>5, <1>6, <1>7

-----------------------------------------------------------------------------
(* The invariant holds *)

\* The process starts in the invariant.
LEMMA InitInv == Init => IInv
<1> SUFFICES ASSUME Init PROVE IInv
  OBVIOUS
<1> DEFINE s == BindAllAccounts
<1>1. Starts(s, Accounts)
  BY ProcessStarts
<1>2. stack = [s EXCEPT !.wire = {}] /\ life = Nothing
        /\ finals = [t \in 1 .. MaxTransactions |-> "none"]
  BY DEF Init, Nothing
<1> HIDE DEF s
<1>3. s \in Stacks /\ Good(s) /\ Story(s, Nothing) /\ ~SomeBye(s) /\ InBounds(s)
  BY <1>1, CountsAssumption DEF Starts, Good, GoodBut, Well, InBounds
<1>4. /\ stack \in Stacks /\ SameAgents(s, stack) /\ SameMachines(s, stack)
      /\ SameRest(s, stack)
  BY <1>2, <1>3, SetWire
<1>5. /\ Good(stack) /\ Story(stack, Nothing) /\ InBounds(stack) /\ ~SomeBye(stack)
  BY <1>3, <1>4, SameStory
<1>6. stack.told = NoEvent
  BY <1>1, <1>4 DEF Starts, SameRest
<1>7. Nothing \in [1 .. MaxUas -> LifeEvents]
  BY DEF Nothing, LifeEvents
<1>8. FinalsTyped /\ Settled
  BY <1>2 DEF FinalsTyped, Settled
<1> QED BY <1>2, <1>5, <1>6, <1>7, <1>8 DEF IInv, ToldOnes

\* Every step keeps the invariant, and does what the action properties say.
LEMMA NextInv ==
    ASSUME IInv, [Next]_vars
    PROVE  IInv' /\ (WholeApi \/ LifeStep) /\ [BindsRightly]_vars
<1>1. CASE UNCHANGED vars
  <2>1. IInv'
    BY <1>1 DEF vars, IInv, Settled, Alive, FinalsTyped
  <2>2. LifeStep
    BY <1>1 DEF vars, LifeStep, LifeSteps
  <2> QED BY <1>1, <2>1, <2>2
<1>2. ASSUME NEW m \in PeerRequests, ReceiveRequest(m)
      PROVE  IInv' /\ (WholeApi \/ LifeStep) /\ BindsRightly
  BY <1>2, RequestTurns DEF BindsRightly
<1>3. ASSUME NEW t \in Sent, NEW code \in ResponseEvents,
             NEW granted \in Grants(t, code), ReceiveResponse(t, code, granted)
      PROVE  IInv' /\ (WholeApi \/ LifeStep) /\ BindsRightly
  BY <1>3, ResponseTurns
<1>4. ASSUME \/ \E position \in heard : ClientAccepts(position) \/ ClientRings(position)
             \/ ClientCallsOut
             \/ \E known \in BOOLEAN : ApiEndsCall(known)
             \/ \E account \in 1 .. Accounts : ApiRemovesBinding(account)
      PROVE  IInv' /\ (WholeApi \/ LifeStep) /\ BindsRightly
  BY <1>4, CommandTurns DEF BindsRightly
<1> QED BY <1>1, <1>2, <1>3, <1>4 DEF Next

\* The inductive invariant holds of every behaviour of the process, with any
\* accounts, peers and branches, as far as the bounds on its objects let it go.
THEOREM InvHolds == Spec => []IInv
<1>1. Init => IInv
  BY InitInv
<1>2. IInv /\ [Next]_vars => IInv'
  BY NextInv
<1> QED BY <1>1, <1>2, PTL DEF Spec

-----------------------------------------------------------------------------
(* The results *)

\* Every part of the process keeps its type, lists hold no number twice and only
\* numbers of objects that were made (UserAgentManager.c, DialogManager.c,
\* TransactionManager.c).
THEOREM TypeCorrect == Spec => []TypeOK
<1>1. IInv => TypeOK
  <2> SUFFICES ASSUME IInv PROVE TypeOK
    OBVIOUS
  <2>1. /\ stack \in Stacks /\ Well(stack) /\ Machines(stack) /\ InBounds(stack)
        /\ FinalsTyped
    BY DEF IInv, Good, GoodBut, Well
  <2>2. stack.fault \in {"none"} \cup Deaths
    BY <2>1 DEF Stacks
  <2>3. Len(stack.account) \in 0 .. MaxUas /\ Len(stack.dialog) = Len(stack.account)
          /\ Len(stack.transaction) \in 0 .. MaxTransactions
    BY <2>1, CountsAssumption DEF Stacks, Well, InBounds
  <2>4. \A d \in DOMAIN stack.dialog :
         /\ stack.dialog[d].state \in DialogStates
         /\ stack.dialog[d].transaction \in 0 .. MaxTransactions
         /\ stack.dialog[d].session \in BOOLEAN
    <3>1. ASSUME NEW d \in DOMAIN stack.dialog
          PROVE  stack.dialog[d].transaction \in 0 .. MaxTransactions
      BY <2>1, <2>3, CountsAssumption DEF Well, TransactionOf
    <3>2. \A d \in DOMAIN stack.dialog : stack.dialog[d] \in DialogObjects
      BY <2>1, DialogDomain
    <3> QED BY <3>1, <3>2 DEF DialogObjects
  <2>5. \A t \in DOMAIN stack.transaction :
         /\ stack.transaction[t].type \in TransactionTypes
         /\ stack.transaction[t].state \in TransactionStates \ {"INIT"}
         /\ stack.transaction[t].user \in DOMAIN stack.dialog
         /\ stack.transaction[t].latest \in {"none"} \cup SendEvents
    <3>1. SUFFICES ASSUME NEW t \in Tr(stack)
                   PROVE  /\ TypeOf(stack, t) \in TransactionTypes
                          /\ StateOf(stack, t) \in TransactionStates \ {"INIT"}
                          /\ UserOf(stack, t) \in DOMAIN stack.dialog
                          /\ stack.transaction[t].latest \in {"none"} \cup SendEvents
      BY DEF Tr, TypeOf, StateOf, UserOf
    <3>2. stack.transaction[t] \in TransactionObjects
      BY <2>1, TransactionDomain DEF Tr
    <3>3. StateOf(stack, t) # "INIT"
      <4>1. Rests(TypeOf(stack, t), StateOf(stack, t))
        BY <2>1 DEF Machines, AllRest
      <4>2. TypeOf(stack, t) \in TransactionTypes
        BY <3>2 DEF TypeOf, TransactionObjects
      <4> QED BY <4>1, <4>2 DEF Rests, TransactionTypes, ClientTypes, ServerTypes
    <3> QED BY <2>1, <3>2, <3>3 DEF Well, TransactionObjects, TypeOf, StateOf
  <2> QED BY <2>1, <2>2, <2>3, <2>4, <2>5 DEF TypeOK, Well, FinalsTyped
<1> QED BY <1>1, InvHolds, PTL

\* No dialog outlives its user agent, and no terminated transaction stays listed
\* (DestroyUserAgent, UserAgent.c:117; RemoveTerminatedTransaction, Transaction.c).
THEOREM ListsAlwaysAgree == Spec => []ListsAgree
<1>1. IInv => ListsAgree
  BY DEF IInv, Good, GoodBut, AgentsBut, Linked, Machines, LiveListed, Tr, StateOf, Listed,
         ListsAgree
<1> QED BY <1>1, InvHolds, PTL

\* However often and on however many branches an INVITE arrives, no two dialogs
\* have the same id (GetDialogById takes the first, DialogManager.c:48).
THEOREM DialogsHaveTheirIds == Spec => []OneDialogPerId
<1>1. IInv => OneDialogPerId
  BY DEF IInv, Good, GoodBut, AgentsBut, OneId, Listed, OneDialogPerId
<1> QED BY <1>1, InvHolds, PTL

\* No event the client is told has the position -1: the user agent is still
\* listed when NotifyCm looks for it (CallManager.c:113).
THEOREM EventsAlwaysName == Spec => []EventsNameACall
<1>1. IInv => EventsNameACall
  BY DEF IInv, ToldOnes, NoEvent, EventsNameACall
<1> QED BY <1>1, InvHolds, PTL

\* A transaction of a peer is decided once, with a 200 to its request or a 487 to
\* the CANCEL of it and never with both, in whichever order the client's commands,
\* the CANCEL and the copies of either arrive (CallManager.c:41,
\* TransactionManager.c:159).
THEOREM DecisionsAreFinal == Spec => []OneDecision
<1>1. IInv => OneDecision
  <2> SUFFICES ASSUME IInv, NEW t \in DOMAIN stack.transaction
               PROVE  Cardinality(Named(t)) <= 1
    BY DEF OneDecision
  <2> DEFINE S == Named(t)
  <2>1. \A e, f \in S : e = f
    <3>1. \A a, b \in stack.answers : a[1] = b[1] => a = b
      BY DEF IInv, Good, GoodBut, Machines, AnsweredOnce
    <3> QED BY <3>1 DEF Named
  <2> HIDE DEF S
  <2>2. Cardinality(S) <= 1
    <3>1. CASE S = {}
      <4>1. Cardinality(S) = 0
        BY <3>1, FS_EmptySet
      <4> QED BY <4>1
    <3>2. CASE S # {}
      <4>1. PICK e \in S : TRUE
        BY <3>2
      <4>2. S = {e}
        BY <2>1, <4>1
      <4>3. Cardinality({e}) = 1
        BY FS_Singleton
      <4> QED BY <4>2, <4>3
    <3> QED BY <3>1, <3>2
  <2> QED BY <2>2 DEF S
<1> QED BY <1>1, InvHolds, PTL

\* A user agent never has two REGISTERs waiting for an answer, whatever is
\* challenged (HandleRegisterEvent, Dialog.c:198).
THEOREM RegistersOneByOne == Spec => []OneRegisterOutstanding
<1>1. IInv => OneRegisterOutstanding
  BY DEF IInv, Good, GoodBut, Machines, OneWaits, Tr, RequestOf, UserOf, StateOf, Waits,
         Made, OneRegisterOutstanding
<1> QED BY <1>1, InvHolds, PTL

\* A call the client was told of, that was neither accepted nor cancelled, can
\* still be answered: its INVITE transaction is there and expects an answer,
\* whatever copies, branches and rings there were (Dialog.c:303, :358).
THEOREM UnansweredCallsStayOpen == Spec => []UnansweredCallIsOpen
<1>1. IInv => UnansweredCallIsOpen
  <2> SUFFICES ASSUME IInv, NEW d \in DOMAIN stack.dialog, InList(stack.dialogs, d),
                      life[d] = "CALL_INCOMING", stack.dialog[d].state = "NON_EXIST"
               PROVE  LET t == TransactionOf(stack, d) IN
                      /\ InList(stack.transactions, t)
                      /\ stack.transaction[t].user = d
                      /\ stack.transaction[t].request.method = "INVITE"
                      /\ stack.transaction[t].state = "PROCEEDING"
    BY DEF UnansweredCallIsOpen
  <2> DEFINE t == TransactionOf(stack, d)
  <2>1. /\ stack \in Stacks /\ Machines(stack) /\ Linked(stack) /\ d \in Listed(stack)
        /\ \A e \in Listed(stack) : e # Null => Open(stack, e)
        /\ IncomingOnes(stack, life)
    BY DEF IInv, Good, GoodBut, Well, AgentsBut, Listed, Story
  <2>2. d # Null
    BY <2>1, DialogDomain DEF Null
  <2>3. TypeOf(stack, t) = "SERVER_INVITE" /\ StateOf(stack, t) = "PROCEEDING"
    BY <2>1, <2>2 DEF Open, IncomingOnes
  <2>4. t \in Tr(stack) /\ UserOf(stack, t) = d
    BY <2>1 DEF Linked
  <2>5. InList(stack.transactions, t) /\ RequestOf(stack, t).method = "INVITE"
    BY <2>1, <2>3, <2>4 DEF Machines, LiveListed, AllBegan, Begins, Invite, Request
  <2> QED BY <2>3, <2>4, <2>5 DEF UserOf, RequestOf, StateOf
<1> QED BY <1>1, InvHolds, PTL

\* The BYE of an accepted call finds the dialog of that very call, although every
\* response has a fresh tag (MessageBuilder.c:300, Dialog.c:170, :303).
THEOREM ByesFindTheirCalls == Spec => []ByeFindsItsCall
<1>1. ASSUME IInv, NEW m, NEW d \in Listed(stack), d # Null,
             stack.dialog[d].id = [call |-> m.call, local |-> m.to, remote |-> m.from],
             m.call # Nil
      PROVE  MatchMessage2Dialog(stack, m) = d
  <2> DEFINE e == MatchMessage2Dialog(stack, m)
  <2>1. stack \in Stacks /\ OneId(stack)
    BY <1>1 DEF IInv, Good, GoodBut, Well, AgentsBut
  <2>2. e # Null /\ e \in Listed(stack) /\ stack.dialog[e].id = stack.dialog[d].id
    BY <1>1, <2>1, MatchMessage2DialogEffect DEF Listed
  <2> HIDE DEF e
  <2>3. stack.dialog[d].id.call = m.call
    BY <1>1
  <2>4. e = d
    BY <1>1, <2>1, <2>2, <2>3 DEF OneId
  <2> QED BY <2>4 DEF e
<1>2. IInv => ByeFindsItsCall
  <2> SUFFICES ASSUME IInv PROVE ByeFindsItsCall
    OBVIOUS
  <2>1. /\ stack \in Stacks /\ Good(stack) /\ Machines(stack) /\ AcceptedIds(stack)
        /\ OwnIds(stack) /\ EstablishedOnes(stack, life)
        /\ \A d \in Listed(stack) : d # Null
    BY DialogDomain DEF IInv, Good, GoodBut, Well, AgentsBut, Story, Listed, Null
  <2>2. ASSUME NEW t \in Accepted, InList(stack.dialogs, stack.transaction[t].user)
        PROVE  MatchMessage2Dialog(stack, ByeOfAccepted(t)) = stack.transaction[t].user
    <3> DEFINE d == UserOf(stack, t)
               m == ByeOfAccepted(t)
    <3>1. t \in AcceptedOf(stack)
      BY DEF Accepted, Made, AcceptedOf, Tr, RequestOf
    <3>2. t \in Tr(stack) /\ TypeOf(stack, t) = "SERVER_INVITE" /\ d \in Listed(stack)
      BY <2>1, <2>2, <3>1, GoodParts DEF Listed, UserOf
    <3>3. RequestOf(stack, t).call # Nil
      <4>1. Begins(t, "SERVER_INVITE", RequestOf(stack, t))
        BY <2>1, <3>2 DEF Machines, AllBegan
      <4> QED BY <4>1, NamesApart DEF Begins, Invite, Request
    <3>4. /\ m.call = RequestOf(stack, t).call /\ m.from = RequestOf(stack, t).from
          /\ m.to = t
      BY DEF ByeOfAccepted, Request, RequestOf
    <3>5. stack.dialog[d].id = [call |-> m.call, local |-> m.to, remote |-> m.from]
      BY <2>1, <3>1, <3>2, <3>4 DEF AcceptedIds, AcceptedOf
    <3> HIDE DEF m
    <3> QED BY <1>1, <2>1, <3>2, <3>3, <3>4, <3>5 DEF m, UserOf
  <2>3. ASSUME NEW t \in Made("INVITE") \cap Sent,
               InList(stack.dialogs, stack.transaction[t].user),
               life[stack.transaction[t].user] = "CALL_ESTABLISHED"
        PROVE  MatchMessage2Dialog(stack, ByeOfEstablished(t)) = stack.transaction[t].user
    <3> DEFINE d  == UserOf(stack, t)
               m  == ByeOfEstablished(t)
               id == stack.dialog[d].id
    <3>1. t \in Tr(stack) /\ RequestOf(stack, t).method = "INVITE" /\ d \in Listed(stack)
            /\ t \in Nat
      BY <2>1, <2>3, GoodParts, TransactionDomain DEF Made, Tr, RequestOf, Listed, UserOf
    <3>2. id.remote = PeerTag
      BY <2>1, <2>3, <3>1 DEF EstablishedOnes, UserOf
    <3>3. Owns(stack, d, id)
      BY <2>1, <3>1 DEF OwnIds
    <3>4. /\ id.call \in Tr(stack) /\ id.local = id.call /\ UserOf(stack, id.call) = d
          /\ RequestOf(stack, id.call).method = "INVITE"
      BY <3>2, <3>3, NamesApart DEF Owns, EmptyDialogId
    <3>5. id.call = t
      BY <2>1, <3>1, <3>4 DEF Machines, OneInvite
    <3>6. m.call = t /\ m.to = t /\ m.from = PeerTag /\ t # Nil
      BY <3>1, NamesApart DEF ByeOfEstablished, Request
    <3>7. id \in DialogIds
      BY <2>1, <3>1, DialogDomain DEF Listed, DialogObjects
    <3>8. id = [call |-> m.call, local |-> m.to, remote |-> m.from]
      BY <3>2, <3>4, <3>5, <3>6, <3>7 DEF DialogIds
    <3> HIDE DEF m
    <3> QED BY <1>1, <2>1, <3>1, <3>6, <3>8 DEF m, UserOf
  <2> QED BY <2>2, <2>3 DEF ByeFindsItsCall
<1> QED BY <1>2, InvHolds, PTL

\* An account changes only on the registrar's first 200 to a REGISTER made for it,
\* to bound if that 200 grants a time, to unbound if it grants 0 and not at all if
\* it has no Expires, in whatever order the answers and the challenges to all
\* accounts come (Dialog.c:188, AccountManager.c:84-121).
THEOREM AccountsChangeAsGranted == Spec => BindingsGranted
<1>1. IInv /\ [Next]_vars => [BindsRightly]_vars
  BY NextInv
<1>2. IInv /\ [Next]_vars =>
        [\A a \in 1 .. Accounts : stack'.binded[a] # stack.binded[a] =>
         \E t \in Made("REGISTER"), granted \in {0, Lifetime} :
            /\ stack.account[stack.transaction[t].user] = a
            /\ finals[t] = "none"
            /\ ReceiveResponse(t, "2XX", granted)
            /\ stack'.binded[a] = (granted # 0)]_vars
  BY <1>1 DEF BindsRightly
<1> QED BY <1>2, InvHolds, PTL DEF Spec, BindingsGranted

\* The commands of the client process alone, and not EndCall, which only tests
\* call: the events of each user agent are then the life of one call.  It comes in
\* or goes out, is taken back or accepted, and finishes once, only if it was
\* accepted, whatever the peers repeat, reorder or answer late (CallEvents.h,
\* CallManager.c:113).
THEOREM ImplementsCallLife ==
    ASSUME ~WholeApi
    PROVE  Spec => KeepsLife
<1>1. AnsweredOf(stack) = {stack.transaction[t].user : t \in Accepted}
  BY DEF AnsweredOf, AcceptedOf, Accepted, Made, Tr, RequestOf, UserOf
<1>2. Init => Life!LifeInit
  <2> SUFFICES ASSUME Init PROVE Life!LifeInit
    OBVIOUS
  <2>1. life = [u \in 1 .. MaxUas |-> "none"]
    BY DEF Init
  <2>2. AnsweredOf(stack) = {}
    <3>1. Starts(BindAllAccounts, Accounts)
      BY ProcessStarts
    <3>2. stack = [BindAllAccounts EXCEPT !.wire = {}]
      BY DEF Init
    <3>3. /\ stack \in Stacks /\ SameAgents(BindAllAccounts, stack)
          /\ SameMachines(BindAllAccounts, stack)
      BY <3>1, <3>2, SetWire DEF Starts, Good, GoodBut, Well
    <3> QED BY <3>1, <3>3, SameStory DEF Starts
  <2> QED BY <1>1, <2>1, <2>2 DEF Life!LifeInit
<1>3. IInv /\ [Next]_vars => [Life!LifeNext]_(Life!lifeVars)
  <2> SUFFICES ASSUME IInv, [Next]_vars
               PROVE  [Life!LifeNext]_(Life!lifeVars)
    OBVIOUS
  <2>1. LifeStep
    BY NextInv
  <2>2. AnsweredOf(stack)' = {stack.transaction[t].user : t \in Accepted}'
    BY DEF AnsweredOf, AcceptedOf, Accepted, Made, Tr, RequestOf, UserOf
  <2> QED BY <1>1, <2>1, <2>2
          DEF LifeStep, LifeSteps, Life!LifeNext, Life!lifeVars, Life!Incoming, Life!Answer,
              Life!Cancelled, Life!RemoteRinging, Life!Established, Life!Finished, Life!Tell
<1> QED BY <1>2, <1>3, InvHolds, PTL DEF Spec, KeepsLife, Life!LifeSpec
=============================================================================
