---------------------------- MODULE EventChannel ----------------------------
(***************************************************************************)
(* What the multi-HAL proxy promises of the sensor events on their way to  *)
(* the framework: one channel, first in first out.  Whatever is posted     *)
(* joins its end, whatever is read leaves its front, nothing is overtaken  *)
(* or read twice.  While the channel is open events are lost only when it  *)
(* has run full: a batch that does not fit loses its end, and events that  *)
(* could not be moved on in time are dropped.  A closed channel may lose   *)
(* its front, and is empty when it opens.                                  *)
(***************************************************************************)
EXTENDS EventSequences

CONSTANTS
    Batches,        \* what may be posted, before the proxy filters it
    Capacity,       \* what the framework's queue holds
    MaxHeldBack     \* what may be held back for it

VARIABLES chan, open

cvars == <<chan, open>>

Init == chan = <<>> /\ open = FALSE

\* A batch is accepted, its end missing only if there is no room for it.
Post(batch) ==
    \E n \in 0 .. Len(batch) :
        /\ n = Len(batch) \/ Len(chan) + Len(batch) + Capacity > MaxHeldBack
        /\ chan' = chan \o SubSeq(batch, 1, n)
        /\ UNCHANGED open

Read ==
    \E n \in 1 .. Len(chan) :
        /\ chan' = SubSeq(chan, n + 1, Len(chan))
        /\ UNCHANGED open

\* Events somewhere in a channel that has run full are dropped.
Drop ==
    /\ Len(chan) > Capacity
    /\ \E i \in 1 .. Len(chan) : \E j \in i .. Len(chan) :
          chan' = SubSeq(chan, 1, i - 1) \o SubSeq(chan, j + 1, Len(chan))
    /\ UNCHANGED open

Close == open /\ open' = FALSE /\ UNCHANGED chan

Open == ~open /\ open' = TRUE /\ chan' = <<>>

Next ==
    \/ \E batch \in Batches : Post(Passed(batch))
    \/ Read \/ Drop
    \/ Close \/ Open

Spec == Init /\ [][Next]_cvars
=============================================================================
