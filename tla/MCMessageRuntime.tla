-------------------------- MODULE MCMessageRuntime --------------------------
(* Small instances of MessageRuntime for TLC. *)
EXTENDS MessageRuntime

\* Timestamps are only compared, and only with that of a message whose own is
\* looked up: a command but /stop, or what stands in front of a /compact.  Once
\* no message can come any more, states that agree on these comparisons behave
\* alike.
LookedUp(i) ==
  \/ msgs[i].kind \in Commands \ {"stop"}
  \/ \E k \in Of(msgs[i].room, DOMAIN msgs) : i < k /\ msgs[k].kind = "compact"
NotLater ==
  {p \in (DOMAIN msgs) \X (DOMAIN msgs) :
     LookedUp(p[1]) /\ p[1] < p[2] /\ msgs[p[2]].at <= msgs[p[1]].at}
SeenTimes == IF Len(msgs) < MaxMessages THEN [i \in DOMAIN msgs |-> msgs[i].at] ELSE NotLater
SeenMsgs == [i \in DOMAIN msgs |-> [room |-> msgs[i].room, kind |-> msgs[i].kind]]
View == <<itemVars, SeenMsgs, SeenTimes, polled, cursor, memory, said, crashes, taken, gone>>
=============================================================================
