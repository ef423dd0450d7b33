--------------------------- MODULE DatagramService ---------------------------
(***************************************************************************)
(* What the stack process promises about the datagrams the kernel queued   *)
(* for it: those of one socket are handled one by one, in the order they   *)
(* arrived, each as the text it was sent as, and no socket is forgotten.   *)
(* SelectLoop implements it.                                               *)
(***************************************************************************)
EXTENDS Sequences, Naturals

CONSTANTS Sockets,          \* the sockets of the process
          Datagrams,          \* Datagrams[s]: what may arrive at socket s
          Text(_, _),         \* the text a handler of a socket is to read
          Capacity            \* the datagrams a socket can hold

VARIABLES queue, served

serviceVars == <<queue, served>>

ServiceInit ==
    /\ queue = [s \in Sockets |-> <<>>]
    /\ served = [socket |-> "none", text |-> <<>>]

Arrive(s, d) ==
    /\ Len(queue[s]) < Capacity
    /\ queue' = [queue EXCEPT ![s] = Append(@, d)]
    /\ UNCHANGED served

Serve(s) ==
    /\ queue[s] # <<>>
    /\ served' = [socket |-> s, text |-> Text(s, Head(queue[s]))]
    /\ queue' = [queue EXCEPT ![s] = Tail(@)]

ServiceNext ==
    \E s \in Sockets : Serve(s) \/ \E d \in Datagrams[s] : Arrive(s, d)

\* Nothing is handled twice, out of order, or as another text.
ServiceSafety == ServiceInit /\ [][ServiceNext]_serviceVars

\* No socket waits for ever.
ServiceFairness == \A s \in Sockets : WF_serviceVars(Serve(s))

ServiceSpec == ServiceSafety /\ ServiceFairness
=============================================================================
