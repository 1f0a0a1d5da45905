--------------------------- MODULE EventSequences ---------------------------
(***************************************************************************)
(* What the multi-HAL proxy computes of sequences of events: how many are   *)
(* of wake-up sensors, which are passed on, and what is held back in all.   *)
(***************************************************************************)
EXTENDS Integers, Sequences, FiniteSets

\* An event of a wake-up sensor, of another one, and the report of the
\* pick-up sensor (a wake-up sensor) that the device was put down.
Events == {"wake", "quiet", "putDown"}

NumWakeupEvents(events) == Cardinality({i \in DOMAIN events : events[i] = "wake"})

\* processEvents: what the proxy passes on of a batch.
Passed(batch) ==
    LET upTo[i \in 0 .. Len(batch)] ==
            IF i = 0 THEN <<>>
            ELSE IF batch[i] = "putDown" THEN upTo[i-1]
            ELSE Append(upTo[i-1], batch[i])
    IN  upTo[Len(batch)]

\* An entry of the pending queue: the events of one call that are left, and how
\* many of all its events were of wake-up sensors.
Entry == [events : Seq(Events), numWakeup : Nat]

\* The events of all entries of the pending queue, in order.
Flattened(entries) ==
    LET upTo[i \in 0 .. Len(entries)] ==
            IF i = 0 THEN <<>> ELSE upTo[i-1] \o entries[i].events
    IN  upTo[Len(entries)]

\* The sum of a sequence of numbers.
Total(numbers) ==
    LET upTo[i \in 0 .. Len(numbers)] ==
            IF i = 0 THEN 0 ELSE upTo[i-1] + numbers[i]
    IN  upTo[Len(numbers)]
=============================================================================
