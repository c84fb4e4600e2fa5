----------------------------- MODULE MatchSeats -----------------------------
(***************************************************************************)
(* What a game server process promises its coordinator and its players,    *)
(* whatever the network does: its two seats are reserved once, by one      *)
(* coordinator; a seat may be taken, and taken again by a client that      *)
(* lost its first Join, until both are taken; from then on the match is    *)
(* between these two clients for the rest of the process's life.           *)
(***************************************************************************)
CONSTANTS Client, Nobody

VARIABLES
  stage,    \* "open", "reserved" or "playing"
  holders,  \* the coordinators the seats were given to
  seat      \* player identifier -> the client in this seat

vars == <<stage, holders, seat>>

Identifier == {"PLAYER_1", "PLAYER_2"}

Init ==
  /\ stage = "open"
  /\ holders = <<>>
  /\ seat = [id \in Identifier |-> Nobody]

Reserve(c) ==
  /\ stage = "open"
  /\ stage' = "reserved"
  /\ holders' = <<c>>
  /\ UNCHANGED seat

TakeSeat(id, c) ==
  /\ stage = "reserved"
  /\ seat' = [seat EXCEPT ![id] = c]
  /\ stage' = IF \A i \in Identifier : seat'[i] # Nobody THEN "playing" ELSE "reserved"
  /\ UNCHANGED holders

Next == \E c \in Client : Reserve(c) \/ \E id \in Identifier : TakeSeat(id, c)

Spec == Init /\ [][Next]_vars
=============================================================================
