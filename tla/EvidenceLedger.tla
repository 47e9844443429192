--------------------------- MODULE EvidenceLedger ---------------------------
(***************************************************************************)
(* The evidence ledger of evidence.py: a hash chain in the memory of a     *)
(* process and a JSON file that each append writes anew.                   *)
(*                                                                         *)
(* Within a process the callers append one after the other, under a lock.  *)
(* Processes (two coordinators, or a coordinator and the command line) may *)
(* be given the same file; they know nothing of each other.  Opening the   *)
(* file for writing empties it, and the text goes out in several writes.   *)
(***************************************************************************)
EXTENDS Integers, Sequences

CONSTANTS
    Processes, \* processes that are given this file
    MaxEvents  \* bound: events made in all

VARIABLES
    pc,     \* process -> where it is in append and _persist
    memory, \* process -> its list of events
    file,   \* what the file holds
    made,   \* events made so far; the n-th has hash n
    past,   \* history: hash -> the list that the event was appended to, with it
    acked,  \* history: hashes of the events whose append has returned
    alone   \* history: no two processes have ever been up at once

vars == <<pc, memory, file, made, past, acked, alone>>

ASSUME LedgerAssumption == MaxEvents \in Nat

\* The fields that the chain is made of; the payload and the time make every
\* event, and so every hash, a different one.
EvidenceEvent == [seq : Nat, prev_hash : Nat, event_hash : Nat]

GENESIS == 0

Files == [text : {"absent", "empty", "torn", "whole"}, list : Seq(EvidenceEvent)]

Points == {"down", "idle", "open", "write"}

Without(text) == [text |-> text, list |-> << >>]

Whole(list) == [text |-> "whole", list |-> list]

Init ==
    /\ pc = [p \in Processes |-> "down"]
    /\ memory = [p \in Processes |-> << >>]
    /\ file = Without("absent")
    /\ made = 0
    /\ past = << >>
    /\ acked = {}
    /\ alone = TRUE

----------------------------------------------------------------------------
\* Mutant: what cannot be read is taken for an empty ledger.
ReadableTorn == TRUE

\* json.loads raises on an empty or torn text, and the process does not start.
Readable == file.text \in {"absent", "whole"}

Start(p) ==
    /\ pc[p] = "down"
    /\ Readable
    /\ pc' = [pc EXCEPT ![p] = "idle"]
    /\ memory' = [memory EXCEPT ![p] = file.list]
    /\ alone' = (alone /\ \A q \in Processes : pc[q] = "down")
    /\ UNCHANGED <<file, made, past, acked>>

\* Mutant: the event points to the first one.
LastHashFirst(list) == IF list = << >> THEN GENESIS ELSE list[1].event_hash

LastHash(list) == IF list = << >> THEN GENESIS ELSE list[Len(list)].event_hash

NextEvent(list) ==
    [seq |-> Len(list) + 1, prev_hash |-> LastHash(list), event_hash |-> made + 1]

\* The event is in memory before it is persisted.
Add(p) ==
    /\ pc[p] = "idle"
    /\ made < MaxEvents
    /\ made' = made + 1
    /\ memory' = [memory EXCEPT ![p] = Append(@, NextEvent(@))]
    /\ past' = Append(past, Append(memory[p], NextEvent(memory[p])))
    /\ pc' = [pc EXCEPT ![p] = "open"]
    /\ UNCHANGED <<file, acked, alone>>

\* write_text: open(..., "w").
Truncate(p) ==
    /\ pc[p] = "open"
    /\ file' = Without("empty")
    /\ pc' = [pc EXCEPT ![p] = "write"]
    /\ UNCHANGED <<memory, made, past, acked, alone>>

FailToOpen(p) ==
    /\ pc[p] = "open"
    /\ pc' = [pc EXCEPT ![p] = "idle"]
    /\ UNCHANGED <<memory, file, made, past, acked, alone>>

\* Two texts whose writes alternate leave the events of one up to some place and
\* those of the other behind it, if the places agree.
Splices(K, L) ==
    {SubSeq(K, 1, n) \o SubSeq(L, n + 1, Len(L)) : n \in 0 .. Len(K)}

\* What the file may hold after p has written the text of `list' to it.
Overwritten(list) ==
    IF file.text = "empty" THEN {Whole(list)}
    ELSE {Whole(list), Without("torn")}
         \cup {Whole(mix) : mix \in Splices(list, file.list) \cup Splices(file.list, list)}

\* The text is written and append returns.
Write(p) ==
    /\ pc[p] = "write"
    /\ file' \in Overwritten(memory[p])
    /\ acked' = acked \cup {LastHash(memory[p])}
    /\ pc' = [pc EXCEPT ![p] = "idle"]
    /\ UNCHANGED <<memory, made, past, alone>>

\* A write fails, for lack of space: the exception leaves the event in memory.
FailToWrite(p) ==
    /\ pc[p] = "write"
    /\ file' = Without("torn")
    /\ pc' = [pc EXCEPT ![p] = "idle"]
    /\ UNCHANGED <<memory, made, past, acked, alone>>

Crash(p) ==
    /\ pc[p] # "down"
    /\ pc' = [pc EXCEPT ![p] = "down"]
    /\ memory' = [memory EXCEPT ![p] = << >>]
    /\ UNCHANGED <<file, made, past, acked, alone>>

Next ==
    \E p \in Processes :
        \/ Start(p)    \/ Add(p)   \/ Truncate(p) \/ FailToOpen(p)
        \/ Write(p)    \/ FailToWrite(p)          \/ Crash(p)

Spec == Init /\ [][Next]_vars

----------------------------------------------------------------------------
\* Mutant: links are not compared.
LinkedUnchecked(list, i) == TRUE

Linked(list, i) ==
    list[i].prev_hash = IF i = 1 THEN GENESIS ELSE list[i - 1].event_hash

\* EvidenceLedger.verify; a hash that fits its event is how events are built
\* here, and text spliced at the edge of an event keeps it.
Verifies(list) ==
    \A i \in DOMAIN list : list[i].seq = i /\ Linked(list, i)

----------------------------------------------------------------------------
(* Properties                                                              *)

\* Every variable holds a value of its type.
TypeOK ==
    /\ pc \in [Processes -> Points]
    /\ memory \in [Processes -> Seq(EvidenceEvent)]
    /\ file \in Files
    /\ made \in Nat
    /\ past \in Seq(Seq(EvidenceEvent))
    /\ acked \subseteq Nat
    /\ alone \in BOOLEAN

Lists == {memory[p] : p \in Processes} \cup {file.list}

\* A list that verify() passes, and whose last event continued a list that it passes
\* (append itself does not look), is the list that event was made for, event for
\* event: neither a lost update nor two texts written over each other make up a
\* history that never was.
VerifiedIsHistory ==
    \A list \in Lists \ {<< >>} :
        LET held == past[LastHash(list)]
        IN  Verifies(list) /\ Verifies(held) => list = held

HashesIn(list) == {list[i].event_hash : i \in DOMAIN list}

\* As long as no two processes have been up at once: what a running or restarted
\* process holds, and what a readable file holds, includes every event whose append
\* has returned.  An append that fails or is cut short leaves an unreadable file,
\* never a shorter one.
NothingForgotten ==
    alone =>
        /\ \A p \in Processes : pc[p] # "down" => acked \subseteq HashesIn(memory[p])
        /\ Readable => acked \subseteq HashesIn(file.list)

\* As long as no two processes have been up at once everything that is held or can
\* be loaded verifies, also after failed writes and restarts.
AlwaysVerifies == alone => \A list \in Lists : Verifies(list)
=============================================================================
