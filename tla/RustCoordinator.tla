--------------------------- MODULE RustCoordinator ---------------------------
(***************************************************************************)
(* The coordinator of the Rust program, coordinator.rs, as far as it goes: *)
(* one thread that asks every server for its phase again and again.  It    *)
(* accepts no clients and makes no matches yet.                            *)
(*                                                                         *)
(* check_servers takes the mutex of server_list for the whole body of its  *)
(* loop; send_message_to_server takes it again to store an answer.  A      *)
(* std::sync::Mutex is not re-entrant: such a lock blocks for ever (or     *)
(* panics, which ends the thread: neither takes a step here).  The unwraps *)
(* of bind and send_to, which would end it as well, are not modelled.      *)
(***************************************************************************)
EXTENDS FiniteSets

CONSTANTS ServerId, Nobody

VARIABLES
  check,        \* where the thread is
  addresses,    \* the servers its loop has still to visit
  asked,        \* the server whose answer it waits for
  held,         \* whether the mutex of server_list is locked
  server_list,  \* server -> the phase last heard of
  up,           \* the servers that run
  answered      \* what recv_from returned: "nothing" yet, "status", "other", "error"

vars == <<check, addresses, asked, held, server_list, up, answered>>

Phase == {"Unknown", "Waiting", "Preparing", "Started"}

Init ==
  /\ check = "sleep" /\ addresses = {} /\ asked = Nobody /\ held = FALSE
  /\ server_list = [s \in ServerId |-> "Unknown"]
  /\ up \in SUBSET ServerId /\ answered = "nothing"

\* The guard lives until the end of the loop's body.
CollectAddresses ==
  /\ check = "sleep" /\ ~held
  /\ held' = TRUE
  /\ addresses' = ServerId
  /\ check' = "visit"
  /\ UNCHANGED <<asked, server_list, up, answered>>

SendQuery(s) ==
  /\ check = "visit" /\ s \in addresses
  /\ addresses' = addresses \ {s}
  /\ asked' = s /\ answered' = "nothing"
  /\ check' = "receive"
  /\ UNCHANGED <<held, server_list, up>>

\* A server that runs answers; the receive has no timeout.  What comes need not
\* be a Status, nor a message at all.
Answer ==
  /\ check = "receive" /\ asked \in up /\ answered = "nothing"
  /\ answered' \in {"status", "other"}
  /\ UNCHANGED <<check, addresses, asked, held, server_list, up>>

\* The receive fails, whether the server runs or not.
ReceiveError ==
  /\ check = "receive" /\ answered = "nothing"
  /\ answered' = "error"
  /\ UNCHANGED <<check, addresses, asked, held, server_list, up>>

\* Only a Status is stored; after an error, a datagram that does not decode,
\* Tokens, any other message or an empty one the next server is asked.
Receive ==
  /\ check = "receive"
  /\ \/ answered = "status" /\ check' = "store" /\ UNCHANGED asked
     \/ answered \in {"other", "error"} /\ check' = "visit" /\ asked' = Nobody
  /\ UNCHANGED <<addresses, held, server_list, up, answered>>

StoreStatus ==
  /\ check = "store" /\ ~held
  /\ \E phase \in Phase \ {"Unknown"} : server_list' = [server_list EXCEPT ![asked] = phase]
  /\ asked' = Nobody /\ check' = "visit"
  /\ UNCHANGED <<addresses, held, up, answered>>

EndLoop ==
  /\ check = "visit" /\ addresses = {}
  /\ held' = FALSE
  /\ check' = "sleep"
  /\ UNCHANGED <<addresses, asked, server_list, up, answered>>

CheckServers ==
  \/ CollectAddresses \/ (\E s \in ServerId : SendQuery(s))
  \/ Receive \/ StoreStatus \/ EndLoop

Next == CheckServers \/ Answer \/ ReceiveError

\* The thread is scheduled and a server that runs answers; an error need not come.
FairSpec == Init /\ [][Next]_vars /\ WF_vars(CheckServers) /\ WF_vars(Answer)

-----------------------------------------------------------------------------

\* The servers are checked again and again, at the interval the program
\* states, at least where all of them run and answer with a Status.
ChecksRepeat ==
  up = ServerId /\ [](answered \in {"nothing", "status"}) => []<>(check = "sleep")
=============================================================================
