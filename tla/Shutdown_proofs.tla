--------------------------- MODULE Shutdown_proofs --------------------------
(***************************************************************************)
(* The exit status of main is right for any number of requests.            *)
(***************************************************************************)
EXTENDS Shutdown, TLAPS

\* No request comes before the address is bound, and main leaves
\* ListenAndServe without an error only when the watcher has called Shutdown,
\* which takes a signal.
IInv ==
  /\ TypeOK
  /\ main \in {"start", "notified", "binding"} =>
       \A r \in Requests : request[r] = "none"
  /\ watcher \in {"draining", "done"} => signalled
  /\ main = "returned" => watcher \in {"draining", "done"}
  /\ StopIsNoError

LEMMA InitInv == Init => IInv
BY DEF Init, IInv, TypeOK, StopIsNoError

\* Every step of main, of the watcher, of the clock or of a request keeps it.
LEMMA StepInv == IInv /\ [Next]_vars => IInv'
<1> SUFFICES ASSUME IInv, [Next]_vars
             PROVE  IInv'
  OBVIOUS
<1> USE DEF IInv, TypeOK, StopIsNoError
<1>1. CASE StartFails
  BY <1>1 DEF StartFails, Exit
<1>2. CASE Notify
  BY <1>2 DEF Notify
<1>3. CASE Signal
  BY <1>3 DEF Signal
<1>4. CASE CallShutdown
  BY <1>4 DEF CallShutdown
<1>5. CASE ShutdownReturns
  BY <1>5 DEF ShutdownReturns
<1>6. CASE Listen
  BY <1>6 DEF Listen
<1>7. CASE Serve
  BY <1>7 DEF Serve
<1>8. CASE ServerFails
  BY <1>8 DEF ServerFails, Exit
<1>9. CASE ServerReturns
  BY <1>9 DEF ServerReturns
<1>10. CASE MainReturns
  BY <1>10 DEF MainReturns, Exit
<1>11. CASE Expire
  BY <1>11 DEF Expire
<1>12. ASSUME NEW r \in Requests, Arrive(r)
       PROVE  IInv'
  BY <1>12 DEF Arrive
<1>13. ASSUME NEW r \in Requests, Answer(r)
       PROVE  IInv'
  BY <1>13 DEF Answer
<1>14. CASE UNCHANGED vars
  BY <1>14 DEF vars
<1>15. QED
  BY <1>1, <1>2, <1>3, <1>4, <1>5, <1>6, <1>7, <1>8, <1>9, <1>10, <1>11,
     <1>12, <1>13, <1>14 DEF Next

\* The exit status in main: 0 only after a signal, never 1 once the process
\* has served and is stopping.
THEOREM StopCorrect == Spec => []StopIsNoError
<1>1. IInv => StopIsNoError
  BY DEF IInv
<1>2. QED
  BY InitInv, StepInv, <1>1, PTL DEF Spec

\* The types of main's state; in particular the watcher starts with Notify.
THEOREM TypesCorrect == Spec => []TypeOK
<1>1. IInv => TypeOK
  BY DEF IInv
<1>2. QED
  BY InitInv, StepInv, <1>1, PTL DEF Spec
=============================================================================
