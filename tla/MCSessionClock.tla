--------------------------- MODULE MCSessionClock ---------------------------
(* A small instance of SessionClock for TLC: three ticks to a minute, four   *)
(* minutes to a day, two days to a week.                                     *)
EXTENDS SessionClock, TLC

CONSTANTS gp1, gp2, staff, s1, s2

Users   == {gp1, gp2, staff}
Guests  == {gp1, gp2}
Scripts == {s1, s2}

\* Every day; one day only, which leaves the other at 0:00; the day after the
\* last; and a script without a time beside one with.
SomeConfigs ==
    {s1 :> << <<0, 2>> >>,
     (s1 :> << <<0, 1>>, <<1, 3>> >>) @@ (s2 :> << <<1, 1>> >>),
     s1 :> << <<2, 1>> >>,
     (s1 :> << <<0, 1>> >>) @@ (s2 :> << <<0, Missing>> >>)}
=============================================================================
