------------------------------ MODULE CallLife ------------------------------
(***************************************************************************)
(* What the client process is promised of the events it receives about one *)
(* user agent (include/CallEvents.h).  A call comes in or goes out, is     *)
(* established or taken back, and ends once; after that the user agent is  *)
(* never heard of again.  SipStack implements it: see Life in SipStack.    *)
(*                                                                         *)
(* life[u] is the last event told about user agent u.  answered is the set *)
(* of user agents whose incoming call was accepted: only an accepted call  *)
(* can finish, and only one that was not can be cancelled.                 *)
(***************************************************************************)
CONSTANTS UserAgents

VARIABLES life, answered

lifeVars == <<life, answered>>

Events == {"CALL_INCOMING", "CALL_ESTABLISHED", "CALL_REMOTE_RINGING",
           "CALL_FINISHED", "CALL_PEER_CANCELED"}

LifeInit == life = [u \in UserAgents |-> "none"] /\ answered = {}

Tell(u, event) == life' = [life EXCEPT ![u] = event]

\* A new call of the peer.
Incoming(u) == life[u] = "none" /\ Tell(u, "CALL_INCOMING") /\ UNCHANGED answered

\* An unanswered call is accepted.
Answer(u) == /\ life[u] = "CALL_INCOMING" /\ u \notin answered
             /\ answered' = answered \cup {u}
             /\ UNCHANGED life

\* An unanswered call is taken back.
Cancelled(u) == /\ life[u] = "CALL_INCOMING" /\ u \notin answered
                /\ Tell(u, "CALL_PEER_CANCELED")
                /\ UNCHANGED answered

\* The peer of a call of our own rings, several times perhaps.
RemoteRinging(u) == /\ life[u] \in {"none", "CALL_REMOTE_RINGING"}
                    /\ Tell(u, "CALL_REMOTE_RINGING")
                    /\ UNCHANGED answered

\* It accepts, once.
Established(u) == /\ life[u] \in {"none", "CALL_REMOTE_RINGING"}
                  /\ Tell(u, "CALL_ESTABLISHED")
                  /\ UNCHANGED answered

\* The peer hangs up a call that one side has accepted.
Finished(u) == /\ \/ life[u] = "CALL_ESTABLISHED"
                  \/ life[u] = "CALL_INCOMING" /\ u \in answered
               /\ Tell(u, "CALL_FINISHED")
               /\ UNCHANGED answered

LifeNext == \E u \in UserAgents :
    \/ Incoming(u) \/ Answer(u) \/ Cancelled(u)
    \/ RemoteRinging(u) \/ Established(u) \/ Finished(u)

LifeSpec == LifeInit /\ [][LifeNext]_lifeVars
=============================================================================
