------------------------ MODULE TransactionContract ------------------------
(***************************************************************************)
(* What a transaction promises its user and the network, whatever its type *)
(* (the comment of each action says what the promise forbids):             *)
(*   idle     created, nothing sent                                        *)
(*   pending  a request is being sent, or one is waiting for its answer    *)
(*   decided  a final response was received, or sent                       *)
(*   over     freed by the manager, or the process died running it         *)
(* Transaction implements it: see Contract in module Transaction.          *)
(***************************************************************************)
EXTENDS Naturals, Sequences

CONSTANT Verdicts       \* the final events a user can be told of

VARIABLES phase, told, sent

contractVars == <<phase, told, sent>>

ContractInit == phase = "idle" /\ told = <<>> /\ sent = 0

\* A transaction starts once; starting it sends the request at most once.
Start == /\ phase = "idle"
         /\ phase' \in {"pending", "over"}
         /\ sent' \in {sent, sent + 1}
         /\ UNCHANGED told

\* The request is repeated only while it has no final answer.
Repeat == /\ phase = "pending"
          /\ sent' = sent + 1
          /\ UNCHANGED <<phase, told>>

\* The outcome is reached once, and the user told of it at most once, then.
Decide == /\ phase = "pending"
          /\ phase' \in {"decided", "over"}
          /\ told' \in {<<>>} \cup {<<v>> : v \in Verdicts}
          /\ UNCHANGED sent

\* What is decided can only be disposed of.
Dispose == /\ phase \in {"decided", "over"}
           /\ phase' = "over"
           /\ UNCHANGED <<told, sent>>

ContractNext == Start \/ Repeat \/ Decide \/ Dispose

ContractSpec == ContractInit /\ [][ContractNext]_contractVars
=============================================================================
