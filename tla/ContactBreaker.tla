--------------------------- MODULE ContactBreaker ---------------------------
(* What the blacklist promises for one machine, as a circuit breaker.  While *)
(* it is open no new attempt to contact the machine is admitted, and only an *)
(* attempt that was admitted while it was closed can open it.  Only a call   *)
(* of the machine itself closes it, and no call ends before the breaker has  *)
(* been closed at some moment of it.  Attempts admitted before it opened run *)
(* to their end, and may open it again after a call, or during one.          *)
CONSTANT Attempt
VARIABLES open, inflight,
          call      \* "none", "heard", or "served": closed since it came
vars == <<open, inflight, call>>

Init == open = FALSE /\ inflight = {} /\ call = "none"

Admit(t)  == ~open /\ t \notin inflight /\ inflight' = inflight \union {t}
             /\ UNCHANGED <<open, call>>
Finish(t) == t \in inflight /\ inflight' = inflight \ {t} /\ UNCHANGED <<open, call>>
Trip(t)   == t \in inflight /\ open' = TRUE /\ UNCHANGED <<inflight, call>>

Call   == call = "none" /\ call' \in (IF open THEN {"heard"} ELSE {"heard", "served"})
          /\ UNCHANGED <<open, inflight>>
Reset  == call # "none" /\ open' = FALSE /\ call' = "served" /\ UNCHANGED inflight
HangUp == call = "served" /\ call' = "none" /\ UNCHANGED <<open, inflight>>

Restart == open' = FALSE /\ inflight' = {} /\ call' = "none"

Next == \/ \E t \in Attempt : Admit(t) \/ Finish(t) \/ Trip(t)
        \/ Call \/ Reset \/ HangUp
        \/ Restart

Spec == Init /\ [][Next]_vars
=============================================================================
