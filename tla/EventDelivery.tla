---------------------------- MODULE EventDelivery ----------------------------
(***************************************************************************)
(* What the event sender promises of each event it accepts                 *)
(* (internal/api/events.go, the comment on delivery), without its queue,   *)
(* batches and retries.  EventQueue implements it.                         *)
(***************************************************************************)
EXTENDS Naturals, FiniteSets

CONSTANTS N,         \* how many events are accepted at most
          SpoolMax,  \* how many events the spool keeps at most
          Bad        \* the events the dashboard refuses for good

VARIABLES fate,      \* what became of each event, in the order of acceptance
          urgent,    \* the urgent ones
          phase,     \* of the process: "up", "closing" or, its sender stopped, "down"
          starts,    \* how often it began again
          diskFails, \* how often the spool could not be written or read
          faults     \* how often the dashboard failed a request it should have taken

deliveryVars == <<fate, urgent, phase, starts, diskFails, faults>>

Event == 1..N
Fates == {"none", "waiting", "delivered", "dropped", "kept", "lost"}
Having(f) == {e \in Event : fate[e] = f}
Move(S, f) == fate' = [e \in Event |-> IF e \in S THEN f ELSE fate[e]]

Init ==
    /\ fate = [e \in Event |-> "none"] /\ urgent = {}
    /\ phase = "up" /\ starts = 0 /\ diskFails = 0 /\ faults = 0

\* The next event is accepted; others may be dropped to make room for it.
Accept(e) ==
    /\ phase # "down"
    /\ fate[e] = "none" /\ \A d \in 1..(e - 1) : fate[d] # "none"
    /\ \E S \in SUBSET Having("waiting") :
         fate' = [d \in Event |-> IF d = e THEN "waiting" ELSE IF d \in S THEN "dropped" ELSE fate[d]]
    /\ urgent' \in {urgent, urgent \cup {e}}
    /\ UNCHANGED <<phase, starts, diskFails, faults>>

\* Order is kept: no event is delivered before an older one that waits.
Deliver(S) ==
    /\ phase # "down" /\ S # {} /\ S \subseteq Having("waiting")
    /\ \A e \in S, d \in Having("waiting") \ S : e < d
    /\ Move(S, "delivered")
    /\ UNCHANGED <<urgent, phase, starts, diskFails, faults>>

\* A request fails, and nothing becomes of its events yet.
Fail == faults' = faults + 1 /\ UNCHANGED <<fate, urgent, phase, starts, diskFails>>

\* An event is given up: one the dashboard refuses for good, or one blamed for
\* a failure of the dashboard.
Refuse(e) ==
    /\ phase # "down" /\ fate[e] = "waiting" /\ Move({e}, "dropped")
    /\ (e \in Bad /\ faults' = faults) \/ faults' = faults + 1
    /\ UNCHANGED <<urgent, phase, starts, diskFails>>

Close ==
    /\ phase = "up" /\ phase' = "closing"
    /\ UNCHANGED <<fate, urgent, starts, diskFails, faults>>

\* The shutdown keeps the urgent events not delivered (of too many, the
\* newest), unless the disk fails it; the others go.
Stop ==
    /\ phase = "closing" /\ phase' = "down"
    /\ \E kept \in SUBSET (Having("waiting") \cap urgent) :
         /\ LET rest == (Having("waiting") \cap urgent) \ kept
            IN  \/ /\ diskFails' = diskFails
                   /\ \/ rest = {}
                      \/ Cardinality(kept) = SpoolMax /\ \A k \in kept, r \in rest : r < k
                \/ kept = {} /\ diskFails' = diskFails + 1
         /\ fate' = [e \in Event |-> IF e \in kept THEN "kept"
                                     ELSE IF fate[e] = "waiting" THEN "lost" ELSE fate[e]]
    /\ UNCHANGED <<urgent, starts, faults>>

\* The process ends, before or after it was down, and the next one begins.
\* What waited is lost, and it alone; what was kept waits again, unless the
\* disk fails it.
Restart ==
    /\ starts' = starts + 1 /\ phase' = "up"
    /\ \E then \in {"waiting", "lost"} :
         /\ diskFails' = IF then = "lost" THEN diskFails + 1 ELSE diskFails
         /\ fate' = [e \in Event |-> IF fate[e] = "waiting" THEN "lost"
                                     ELSE IF fate[e] = "kept" THEN then ELSE fate[e]]
    /\ UNCHANGED <<urgent, faults>>

Next ==
    \/ \E e \in Event : Accept(e) \/ Refuse(e)
    \/ \E S \in SUBSET Event : Deliver(S)
    \/ Fail \/ Close \/ Stop \/ Restart

Spec == Init /\ [][Next]_deliveryVars
=============================================================================
