----------------------------- MODULE EventLatch -----------------------------
(***************************************************************************)
(* What ubench::thread::sync_event promises: a flag that threads wait for. *)
(* A wait returns TRUE only when the flag is set, a wait with a deadline   *)
(* may also return FALSE while it is not, and no waiter stays behind once  *)
(* the flag is set.                                                        *)
(***************************************************************************)
CONSTANT Threads

VARIABLES flag,
          call,    \* "none", "wait" or "wait_for"
          result   \* what the thread's last wait returned

vars == <<flag, call, result>>

Init ==
  /\ flag = FALSE
  /\ call = [t \in Threads |-> "none"]
  /\ result = [t \in Threads |-> FALSE]

Set == flag' = TRUE /\ UNCHANGED <<call, result>>

\* Clearing under a waiter is outside the contract.
Clear ==
  /\ \A t \in Threads : call[t] = "none"
  /\ flag' = FALSE
  /\ UNCHANGED <<call, result>>

Enter(t) ==
  /\ call[t] = "none"
  /\ \E kind \in {"wait", "wait_for"} : call' = [call EXCEPT ![t] = kind]
  /\ UNCHANGED <<flag, result>>

Leave(t) ==
  /\ call[t] = "wait_for" \/ (call[t] = "wait" /\ flag)
  /\ result' = [result EXCEPT ![t] = flag]
  /\ call' = [call EXCEPT ![t] = "none"]
  /\ UNCHANGED flag

Next == Set \/ Clear \/ \E t \in Threads : Enter(t) \/ Leave(t)

\* Every waiter leaves when the flag is set; one with a deadline always does.
Spec == Init /\ [][Next]_vars /\ \A t \in Threads : WF_vars(Leave(t))
=============================================================================
