----------------------------- MODULE AuditTrail -----------------------------
(***************************************************************************)
(* What the ledger promises its readers: per (org, shard) chain a sequence *)
(* of events that only ever grows at its end, in which no event occurs     *)
(* twice, neither in one chain nor in two.  AuditConsumer implements it.   *)
(***************************************************************************)
EXTENDS Naturals, Sequences

CONSTANTS Chains, Events

VARIABLE trail    \* chain -> sequence of events

Init == trail = [ch \in Chains |-> << >>]

Grows(ch) ==
    /\ trail'[ch] \in Seq(Events)
    /\ Len(trail[ch]) <= Len(trail'[ch])
    /\ SubSeq(trail'[ch], 1, Len(trail[ch])) = trail[ch]

\* No event has two places in the trail.
NoEventTwice ==
    \A ch1, ch2 \in Chains :
        \A i \in 1..Len(trail[ch1]), j \in 1..Len(trail[ch2]) :
            trail[ch1][i] = trail[ch2][j] => ch1 = ch2 /\ i = j

\* One commit appends any number of new events to any number of chains.
Extend ==
    /\ DOMAIN trail' = Chains
    /\ \A ch \in Chains : Grows(ch)
    /\ NoEventTwice'

Spec == Init /\ [][Extend]_trail
============================================================================
