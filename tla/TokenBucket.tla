---------------------------- MODULE TokenBucket ----------------------------
(***************************************************************************)
(* What the per-client rate limit promises: every client there is has a    *)
(* bucket of its own, for ever.  It holds up to Full units, one flows in   *)
(* per tick, and a request that is let through takes Cost of them.         *)
(*                                                                         *)
(* An observer may start to watch a client at any moment; "spent" is what  *)
(* the client has been granted since.                                      *)
(***************************************************************************)
EXTENDS Integers

CONSTANTS
  Clients,  \* who is rate limited
  NoIP,     \* nobody in particular, whom nothing limits
  Full,     \* what a bucket holds
  Cost      \* what a request takes

VARIABLES
  level,    \* what is in each client's bucket
  passed,   \* the last verdict: the client, and whether he passed
  watched,  \* the client the observer watches
  spent,    \* what that client has been granted since
  elapsed   \* how long that is

tokens == <<level, passed, watched, spent, elapsed>>

Init ==
  /\ level = [c \in Clients |-> Full]
  /\ passed = [client |-> NoIP, ok |-> TRUE]
  /\ watched \in Clients
  /\ spent = 0
  /\ elapsed = 0

\* A request passes exactly when it can be paid for.
Grant(c) ==
  /\ level[c] >= Cost
  /\ level' = [level EXCEPT ![c] = @ - Cost]
  /\ passed' = [client |-> c, ok |-> TRUE]
  /\ spent' = IF c = watched THEN spent + Cost ELSE spent
  /\ UNCHANGED <<watched, elapsed>>

Refuse(c) ==
  /\ level[c] < Cost
  /\ passed' = [client |-> c, ok |-> FALSE]
  /\ UNCHANGED <<level, watched, spent, elapsed>>

Exempt ==
  /\ passed' = [client |-> NoIP, ok |-> TRUE]
  /\ UNCHANGED <<level, watched, spent, elapsed>>

Flow ==
  /\ level' = [c \in Clients |-> IF level[c] < Full THEN level[c] + 1 ELSE Full]
  /\ elapsed' = elapsed + 1
  /\ UNCHANGED <<passed, watched, spent>>

Watch ==
  /\ watched' \in Clients
  /\ spent' = 0
  /\ elapsed' = 0
  /\ UNCHANGED <<level, passed>>

Next == (\E c \in Clients : Grant(c) \/ Refuse(c)) \/ Exempt \/ Flow \/ Watch

Spec == Init /\ [][Next]_tokens
=============================================================================
