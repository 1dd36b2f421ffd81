------------------------------- MODULE Shutdown -----------------------------
(***************************************************************************)
(* main in cmd/grok-reverse-proxy/main.go: the start, the goroutine that   *)
(* waits for a signal and calls Shutdown, and the exit, with the requests  *)
(* of the server running meanwhile.  Of net/http: Shutdown makes           *)
(* ListenAndServe return at once, also when it comes before it, unless it  *)
(* has begun to bind the address and that fails; Shutdown itself returns   *)
(* when no request is left or its context has expired.                     *)
(***************************************************************************)
EXTENDS Integers

CONSTANT Requests

VARIABLES
  main,          \* "start", "notified", "binding", "serving", "returned",
                 \* "exited"
  code,          \* the exit status; 2 for a process that a signal killed
  watcher,       \* the goroutine of main: "none", "waiting", "draining", "done"
  signalled,
  expired,       \* ten seconds have passed since Shutdown was called
  request        \* "none", "open" or "answered"

vars == <<main, code, watcher, signalled, expired, request>>

Open == {r \in Requests : request[r] = "open"}

Init ==
  /\ main = "start"
  /\ code = 0
  /\ watcher = "none"
  /\ signalled = FALSE
  /\ expired = FALSE
  /\ request = [r \in Requests |-> "none"]
-----------------------------------------------------------------------------
Exit(status) ==
  /\ main' = "exited"
  /\ code' = status
  /\ UNCHANGED <<watcher, signalled, expired, request>>

\* The configuration, the egress proxy or the credentials cannot be loaded.
StartFails == main = "start" /\ Exit(1)

\* From NotifyContext on a signal does not kill the process.
Notify ==
  /\ main = "start"
  /\ main' = "notified"
  /\ watcher' = "waiting"
  /\ UNCHANGED <<code, signalled, expired, request>>

Signal ==
  /\ main # "exited"
  /\ ~signalled
  /\ signalled' = TRUE
  /\ IF main = "start" THEN main' = "exited" /\ code' = 2 ELSE UNCHANGED <<main, code>>
  /\ UNCHANGED <<watcher, expired, request>>

\* The goroutine sees the signal and calls Shutdown.
CallShutdown ==
  /\ main # "exited"
  /\ watcher = "waiting" /\ signalled
  /\ watcher' = "draining"
  /\ UNCHANGED <<main, code, signalled, expired, request>>

ShutdownReturns ==
  /\ main # "exited"
  /\ watcher = "draining"
  /\ Open = {} \/ expired
  /\ watcher' = "done"
  /\ UNCHANGED <<main, code, signalled, expired, request>>

\* ListenAndServe looks at Shutdown's flag before it binds the address ...
Listen ==
  /\ main = "notified"
  /\ watcher = "waiting"
  /\ main' = "binding"
  /\ UNCHANGED <<code, watcher, signalled, expired, request>>

\* ... and again when it has bound it.
Serve ==
  /\ main = "binding"
  /\ watcher = "waiting"
  /\ main' = "serving"
  /\ UNCHANGED <<code, watcher, signalled, expired, request>>

\* The address cannot be bound, or Accept fails for good and not because of
\* Shutdown: os.Exit(1).
ServerFails ==
  /\ main = "binding" \/ (main = "serving" /\ watcher = "waiting")
  /\ Exit(1)

ServerReturnsDrained ==   \* mutant: waits for the requests, without a limit
  /\ main \in {"notified", "binding", "serving"}
  /\ watcher \in {"draining", "done"}
  /\ Open = {}
  /\ main' = "returned"
  /\ UNCHANGED <<code, watcher, signalled, expired, request>>

\* ListenAndServe returns ErrServerClosed.
ServerReturns ==
  /\ main \in {"notified", "binding", "serving"}
  /\ watcher \in {"draining", "done"}
  /\ main' = "returned"
  /\ UNCHANGED <<code, watcher, signalled, expired, request>>

ExitsWithError ==         \* mutant: ErrServerClosed is an error like any other
  main = "returned" /\ Exit(1)

MainReturns == main = "returned" /\ Exit(0)

\* The server takes requests until Shutdown closes the listener; a request may
\* take as long as its client likes.
Arrive(r) ==
  /\ main = "serving" /\ watcher = "waiting"
  /\ request[r] # "open"
  /\ request' = [request EXCEPT ![r] = "open"]
  /\ UNCHANGED <<main, code, watcher, signalled, expired>>

Answer(r) ==
  /\ main # "exited"
  /\ request[r] = "open"
  /\ request' = [request EXCEPT ![r] = "answered"]
  /\ UNCHANGED <<main, code, watcher, signalled, expired>>

Expire ==
  /\ main # "exited"
  /\ watcher = "draining" /\ ~expired
  /\ expired' = TRUE
  /\ UNCHANGED <<main, code, watcher, signalled, request>>

Next ==
  \/ StartFails \/ Notify \/ Signal \/ CallShutdown \/ ShutdownReturns
  \/ Listen \/ Serve \/ ServerFails \/ ServerReturns \/ MainReturns \/ Expire
  \/ \E r \in Requests : Arrive(r) \/ Answer(r)

\* Goroutines are scheduled and the clock goes on; signals, failures, arrivals
\* and answers are up to others.
Spec ==
  /\ Init /\ [][Next]_vars
  /\ WF_vars(Notify) /\ WF_vars(Listen) /\ WF_vars(Serve) /\ WF_vars(CallShutdown)
  /\ WF_vars(ShutdownReturns) /\ WF_vars(ServerReturns) /\ WF_vars(MainReturns)
  /\ WF_vars(Expire)
-----------------------------------------------------------------------------
TypeOK ==
  /\ main \in {"start", "notified", "binding", "serving", "returned", "exited"}
  /\ code \in {0, 1, 2} /\ (main # "exited" => code = 0)
  /\ watcher \in {"none", "waiting", "draining", "done"}
  /\ watcher = "none" => main = "start" \/ code \in {1, 2}
  /\ signalled \in BOOLEAN /\ expired \in BOOLEAN
  /\ request \in [Requests -> {"none", "open", "answered"}]

\* Status 0 means a stop that was asked for, also when the signal overtakes
\* ListenAndServe; and a process that has served anyone and began to shut down
\* before it failed reports no error.
StopIsNoError ==
  main = "exited" =>
    /\ code = 0 => signalled
    /\ watcher \in {"draining", "done"} /\ (\E r \in Requests : request[r] # "none") =>
         code = 0

\* Whenever the signal comes, and whatever its clients do, the process ends.
SignalStopsProcess == signalled ~> main = "exited"

\* The shutdown is graceful: main.go:50-53 gives the requests ten seconds and
\* reports it if they do not suffice.
DrainedBeforeExit ==
  main = "exited" /\ watcher # "none" /\ code = 0 => Open = {} \/ expired
=============================================================================
