----------------------------- MODULE EventLife -----------------------------
(* What the path from gather_data to the event table promises of the event   *)
(* of one minute: it is built once and moves forward only, from the client's *)
(* memory over a connection into the table.  It may be lost or rejected on   *)
(* the way, but it never comes back, and is never stored after it was given  *)
(* up.  It is sent once, except when another event overtook it: while it was *)
(* being taken out of the vector the other one was taken out in its stead,   *)
(* which is lost.  The first one is then sent again (it is in "again"), and   *)
(* its place is the rearmost of the places its copies have.                  *)
CONSTANT Event
VARIABLES place, again

lifevars == <<place, again>>

Place == {"unbuilt", "held", "sent", "stored", "rejected", "lost"}
Init == place = [e \in Event |-> "unbuilt"] /\ again = {}

\* S moves from place p to place q; everything else stays.
Move(S, p, q) ==
    /\ \A e \in S : place[e] = p
    /\ place' = [e \in Event |-> IF e \in S THEN q ELSE place[e]]
    /\ UNCHANGED again

Build  == \E e \in Event : Move({e}, "unbuilt", "held")
Send   == \E e \in Event : Move({e}, "held", "sent")
Store  == \E e \in Event : Move({e}, "sent", "stored")
Reject == \E e \in Event : Move({e}, "sent", "rejected")

\* Where the last copy of an event can turn out to be once p holds none.
Ahead(p) == CASE p = "held" -> {"sent", "stored", "rejected"}
              [] p = "sent" -> {"stored", "rejected"}
              [] OTHER      -> {}

\* Events on the client or on the wire are lost; of one sent again a copy may
\* remain further on.
Lose ==
    /\ place' \in [Event -> Place]
    /\ \A e \in Event :
          \/ place'[e] = place[e]
          \/ place[e] \in {"held", "sent"} /\ place'[e] = "lost"
          \/ e \in again /\ place'[e] \in Ahead(place[e])
    /\ UNCHANGED again

\* f is taken out of the vector in the place of e, which stays.
Overtake ==
    \E e, f \in Event :
        /\ e # f /\ place[e] = "held" /\ place[f] = "held" /\ f \notin again
        /\ place' = [place EXCEPT ![f] = "lost"]
        /\ again' = again \union {e}

Next == Build \/ Send \/ Store \/ Reject \/ Lose \/ Overtake
Spec == Init /\ [][Next]_lifevars
=============================================================================
