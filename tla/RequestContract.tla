--------------------------- MODULE RequestContract ---------------------------
(***************************************************************************)
(* What muse-client's request plane promises the threads that call it      *)
(* (crates/muse-client/src/client.rs, `MuseClient::request`): every call   *)
(* settles at most once; a settled answer is the server's answer to that   *)
(* very call; `Closed` is only reported of a connection that really went   *)
(* down; a timeout may be reported at any time.  Nothing is said here      *)
(* about request ids, the table of waiters, pipes or threads.              *)
(***************************************************************************)

CONSTANT Calls      \* the calls of `request_value` under study

VARIABLES outcome,  \* what each call has reported to its caller so far
          answered, \* the calls the server has answered
          down      \* the connection is lost, or being shut down

cvars == <<outcome, answered, down>>

CInit ==
    /\ outcome = [c \in Calls |-> "idle"]
    /\ answered = {}
    /\ down = FALSE

Open(c) ==
    /\ outcome[c] = "idle"
    /\ outcome' = [outcome EXCEPT ![c] = "open"]
    /\ UNCHANGED <<answered, down>>

\* The server answers a call that is on the wire.  The caller may have given
\* up on it already.
Answer(c) ==
    /\ outcome[c] # "idle"
    /\ answered' = answered \cup {c}
    /\ UNCHANGED <<outcome, down>>

GoDown ==
    /\ down' = TRUE
    /\ UNCHANGED <<outcome, answered>>

Settle(c, k) ==
    /\ outcome[c] = "open"
    /\ k \in {"ok", "rpc"} => c \in answered
    /\ k = "closed" => down
    /\ outcome' = [outcome EXCEPT ![c] = k]
    /\ UNCHANGED <<answered, down>>

CNext ==
    \/ GoDown
    \/ \E c \in Calls : Open(c) \/ Answer(c)
    \/ \E c \in Calls, k \in {"ok", "rpc", "closed", "timeout"} : Settle(c, k)

CSpec == CInit /\ [][CNext]_cvars
=============================================================================
