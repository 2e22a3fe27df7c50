------------------------------- MODULE Ledger -------------------------------
(***************************************************************************)
(* The claim ledger (ledger/events.py, ledger/store.py): a list of events  *)
(* in which each event carries the hash of the one before it.              *)
(*                                                                         *)
(* A hash is the structure it was computed from: the hash of an event is   *)
(* the list of the payloads that led to it, so two hashes are equal        *)
(* exactly when the chains behind them are (SHA-256 without collisions).   *)
(* The payload stands for event type, claim, pack and payload, the fields  *)
(* that are hashed.                                                        *)
(***************************************************************************)
EXTENDS Naturals, Sequences

Genesis == << >>

HashEvent(previous, payload) == Append(previous, payload)

NewEvent(payload, previous) ==
    [payload |-> payload, previous |-> previous, hash |-> HashEvent(previous, payload)]

\* The hash the next event of the ledger has to name.
TailHash(events) == IF events = << >> THEN Genesis ELSE events[Len(events)].hash

\* Mutant: the event keeps the predecessor it was made for.
LinkedAsMade(events, event) == event

\* append relinks an event that was made for another predecessor.
Linked(events, event) ==
    IF event.previous = TailHash(events) THEN event
    ELSE NewEvent(event.payload, TailHash(events))

AppendEvent(events, event) == Append(events, Linked(events, event))

\* verify recomputes every link and every hash.
Verify(events) ==
    \A i \in 1..Len(events) :
        /\ events[i].previous = IF i = 1 THEN Genesis ELSE events[i - 1].hash
        /\ events[i].hash = HashEvent(events[i].previous, events[i].payload)
=============================================================================
