------------------------------ MODULE Commands ------------------------------
(***************************************************************************)
(* What the message loop promises to the master: the commands sent on each *)
(* socket are executed one by one, each once, in the order they were sent  *)
(* on that socket.  Nothing is promised about the order between sockets.   *)
(***************************************************************************)
EXTENDS Sequences, Naturals

CONSTANTS Sock, Code

VARIABLES
  pending,    \* the commands sent on each socket and not yet executed
  served,     \* how many commands of each socket were executed
  recording   \* START_RECORD was executed after the last STOP_RECORD

vars == <<pending, served, recording>>

Init ==
  /\ pending = [s \in Sock |-> <<>>]
  /\ served = [s \in Sock |-> 0]
  /\ recording = FALSE

Submit(s) ==
  /\ \E code \in Code : pending' = [pending EXCEPT ![s] = Append(@, code)]
  /\ UNCHANGED <<served, recording>>

Serve(s) ==
  /\ pending[s] # <<>>
  /\ pending' = [pending EXCEPT ![s] = Tail(@)]
  /\ served' = [served EXCEPT ![s] = @ + 1]
  /\ recording' = CASE Head(pending[s]) = "START_RECORD" -> TRUE
                    [] Head(pending[s]) = "STOP_RECORD"  -> FALSE
                    [] OTHER                             -> recording

Next == \E s \in Sock : Submit(s) \/ Serve(s)

(* No socket is starved by the other one. *)
Spec == Init /\ [][Next]_vars /\ \A s \in Sock : WF_vars(Serve(s))

=============================================================================
