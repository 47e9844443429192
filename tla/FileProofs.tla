----------------------------- MODULE FileProofs -----------------------------
(***************************************************************************)
(* What is proved of the two modules about files that several callers      *)
(* write, unaware of each other.                                           *)
(*                                                                         *)
(* EvidenceLedger, of any number of events: one process at a time never    *)
(* forgets an event that append returned from, and all that it holds or    *)
(* can load verifies (IInv); with any number of processes, a list that     *)
(* verifies is one that some process held (HInv).                          *)
(*                                                                         *)
(* CaserWorkspace, of any number of callers, files and calls: what a       *)
(* caller was told is written is lost only to calls that overlapped it or  *)
(* asked to overwrite, call by call of those the file shows (WInv).        *)
(***************************************************************************)
EXTENDS EvidenceLedger, CaserWorkspace, SequenceTheorems, WellFoundedInduction, TLAPS

----------------------------------------------------------------------------
(* The evidence ledger                                                     *)

\* No two processes are up.
OneIsUp == \A p, q \in Processes : pc[p] # "down" /\ pc[q] # "down" => p = q

\* What a process holds: nothing when it is down, the new event while it persists
\* it, and the file is its own by the time it writes.
Holds(p) ==
    /\ pc[p] = "down" => memory[p] = << >>
    /\ pc[p] \in {"open", "write"} => memory[p] # << >>
    /\ pc[p] = "write" => file.text = "empty"
    /\ pc[p] # "down" => acked \subseteq HashesIn(memory[p])
    /\ Verifies(memory[p])

FileHolds ==
    /\ Readable => acked \subseteq HashesIn(file.list)
    /\ Verifies(file.list)

\* The inductive invariant.
IInv ==
    /\ TypeOK
    /\ alone => /\ OneIsUp
                /\ \A p \in Processes : Holds(p)
                /\ FileHolds

LEMMA EmptyVerifies == Verifies(<< >>) /\ HashesIn(<< >>) = {} /\ << >> \in Seq(EvidenceEvent)
  BY DEF Verifies, HashesIn

LEMMA EmptyFile ==
    ASSUME NEW t \in {"absent", "empty", "torn", "whole"}
    PROVE  Without(t) \in Files /\ Without(t).text = t /\ Without(t).list = << >>
  BY EmptyVerifies DEF Without, Files

LEMMA WholeFile ==
    ASSUME NEW list \in Seq(EvidenceEvent)
    PROVE  Whole(list) \in Files /\ Whole(list).text = "whole" /\ Whole(list).list = list
  BY DEF Whole, Files

LEMMA FileIsTyped == TypeOK => file.list \in Seq(EvidenceEvent)
  BY DEF TypeOK, Files

\* The last event of a list is one of its events.
LEMMA LastIsHeld ==
    ASSUME NEW list \in Seq(EvidenceEvent), list # << >>
    PROVE  LastHash(list) \in HashesIn(list)
  <1>1. Len(list) \in DOMAIN list
    BY EmptySeq
  <1> QED
    BY <1>1 DEF LastHash, HashesIn

LEMMA LastIsTyped ==
    ASSUME NEW list \in Seq(EvidenceEvent)
    PROVE  LastHash(list) \in Nat
  <1>1. CASE list = << >>
    BY <1>1 DEF LastHash, GENESIS
  <1>2. CASE list # << >>
    <2>1. Len(list) \in DOMAIN list
      BY <1>2, EmptySeq
    <2>2. list[Len(list)] \in EvidenceEvent
      BY <2>1
    <2> QED
      BY <1>2, <2>2 DEF LastHash, EvidenceEvent
  <1> QED
    BY <1>1, <1>2

LEMMA NextIsTyped ==
    ASSUME NEW list \in Seq(EvidenceEvent), made \in Nat
    PROVE  NextEvent(list) \in EvidenceEvent
  BY LastIsTyped DEF NextEvent, EvidenceEvent

\* An append keeps the events and the chain.
LEMMA AppendContinues ==
    ASSUME NEW list \in Seq(EvidenceEvent), made \in Nat
    PROVE  /\ Append(list, NextEvent(list)) \in Seq(EvidenceEvent) \ {<< >>}
           /\ HashesIn(list) \subseteq HashesIn(Append(list, NextEvent(list)))
           /\ Verifies(list) => Verifies(Append(list, NextEvent(list)))
  <1> DEFINE e == NextEvent(list)
             more == Append(list, e)
  <1>1. e \in EvidenceEvent /\ e.seq = Len(list) + 1 /\ e.prev_hash = LastHash(list)
    BY NextIsTyped DEF NextEvent
  <1> HIDE DEF e
  <1>2. /\ more \in Seq(EvidenceEvent) /\ Len(more) = Len(list) + 1 /\ more[Len(more)] = e
        /\ \A i \in 1 .. Len(list) : more[i] = list[i]
    BY <1>1
  <1>3. DOMAIN list = 1 .. Len(list) /\ DOMAIN more = 1 .. Len(list) + 1 /\ Len(list) \in Nat
    BY <1>2
  <1> HIDE DEF more
  <1>4. more # << >>
    BY <1>2, <1>3
  <1>5. HashesIn(list) \subseteq HashesIn(more)
    BY <1>2, <1>3 DEF HashesIn
  <1>6. ASSUME Verifies(list) PROVE Verifies(more)
    <2> SUFFICES ASSUME NEW i \in 1 .. Len(list) + 1
                 PROVE  more[i].seq = i /\ Linked(more, i)
      BY <1>3 DEF Verifies
    <2>1. CASE i \in 1 .. Len(list)
      <3>1. list[i].seq = i /\ Linked(list, i)
        BY <1>3, <1>6, <2>1 DEF Verifies
      <3>2. more[i] = list[i] /\ (i # 1 => more[i - 1] = list[i - 1])
        BY <1>2, <1>3, <2>1
      <3> QED
        BY <3>1, <3>2 DEF Linked
    <2>2. CASE i = Len(list) + 1
      <3>1. more[i] = e /\ (i # 1 => more[i - 1] = list[Len(list)])
        BY <1>2, <1>3, <2>2
      <3>2. CASE list = << >>
        BY <1>1, <2>2, <3>1, <3>2 DEF Linked, LastHash
      <3>3. CASE list # << >>
        <4>1. i # 1
          BY <2>2, <3>3, EmptySeq
        <4> QED
          BY <1>1, <2>2, <3>1, <3>3, <4>1 DEF Linked, LastHash
      <3> QED
        BY <3>2, <3>3
    <2> QED
      BY <1>3, <2>1, <2>2
  <1> QED
    BY <1>2, <1>4, <1>5, <1>6 DEF more, e

LEMMA SplicesAreLists ==
    ASSUME NEW K \in Seq(EvidenceEvent), NEW L \in Seq(EvidenceEvent)
    PROVE  Splices(K, L) \subseteq Seq(EvidenceEvent)
  <1> SUFFICES ASSUME NEW n \in 0 .. Len(K)
               PROVE  SubSeq(K, 1, n) \o SubSeq(L, n + 1, Len(L)) \in Seq(EvidenceEvent)
    BY DEF Splices
  <1>1. SubSeq(K, 1, n) \in Seq(EvidenceEvent)
    BY SubSeqProperties
  <1>2. SubSeq(L, n + 1, Len(L)) \in Seq(EvidenceEvent)
    BY SubSeqProperties
  <1> QED
    BY <1>1, <1>2, ConcatProperties

LEMMA OverwrittenIsFile ==
    ASSUME TypeOK, NEW list \in Seq(EvidenceEvent)
    PROVE  Overwritten(list) \subseteq Files
  <1>1. file.list \in Seq(EvidenceEvent)
    BY FileIsTyped
  <1>2. /\ Splices(list, file.list) \subseteq Seq(EvidenceEvent)
        /\ Splices(file.list, list) \subseteq Seq(EvidenceEvent)
    BY <1>1, SplicesAreLists
  <1>3. Without("torn") \in Files
    BY EmptyFile
  <1> QED
    BY <1>2, <1>3, WholeFile DEF Overwritten

\* The initial state is in the invariant.
LEMMA InitHolds == Init => IInv
  <1> SUFFICES ASSUME Init PROVE IInv
    OBVIOUS
  <1>1. TypeOK
    <2>1. file \in Files
      BY EmptyFile DEF Init
    <2>2. memory \in [Processes -> Seq(EvidenceEvent)]
      BY EmptyVerifies DEF Init
    <2>3. past \in Seq(Seq(EvidenceEvent)) /\ acked \subseteq Nat
      BY DEF Init
    <2> QED
      BY <2>1, <2>2, <2>3 DEF Init, TypeOK, Points
  <1>2. OneIsUp /\ \A p \in Processes : Holds(p)
    BY EmptyVerifies DEF Init, OneIsUp, Holds
  <1>3. FileHolds
    BY EmptyVerifies, EmptyFile DEF Init, FileHolds
  <1> QED
    BY <1>1, <1>2, <1>3 DEF IInv

----------------------------------------------------------------------------
(* One lemma for every action                                              *)

LEMMA StartKeeps ==
    ASSUME IInv, NEW p \in Processes, Start(p)
    PROVE  IInv'
  <1>1. file.list \in Seq(EvidenceEvent)
    BY FileIsTyped DEF IInv
  <1>2. /\ pc' \in [Processes -> Points] /\ pc'[p] = "idle"
        /\ memory' \in [Processes -> Seq(EvidenceEvent)] /\ memory'[p] = file.list
        /\ \A q \in Processes \ {p} : pc'[q] = pc[q] /\ memory'[q] = memory[q]
    BY <1>1 DEF Start, IInv, TypeOK, Points
  <1>3. alone' \in BOOLEAN
    BY DEF Start, IInv, TypeOK
  <1>4. TypeOK'
    BY <1>2, <1>3 DEF Start, IInv, TypeOK
  <1>5. ASSUME alone' PROVE OneIsUp' /\ (\A q \in Processes : Holds(q)') /\ FileHolds'
    <2>1. /\ alone /\ (\A q \in Processes : pc[q] = "down") /\ Readable
          /\ UNCHANGED <<file, acked>>
      BY <1>5 DEF Start
    <2>2. FileHolds
      BY <2>1 DEF IInv
    <2>3. FileHolds'
      BY <2>1, <2>2 DEF FileHolds, Readable
    <2>4. OneIsUp'
      BY <1>2, <2>1 DEF OneIsUp
    <2>5. Holds(p)'
      BY <1>2, <2>1, <2>2 DEF Holds, FileHolds
    <2>6. ASSUME NEW q \in Processes \ {p} PROVE Holds(q)'
      <3>1. Holds(q)
        BY <2>1 DEF IInv
      <3> QED
        BY <1>2, <2>1, <2>6, <3>1 DEF Holds
    <2> QED
      BY <2>3, <2>4, <2>5, <2>6
  <1> QED
    BY <1>4, <1>5 DEF IInv

LEMMA AddKeeps ==
    ASSUME IInv, NEW p \in Processes, Add(p)
    PROVE  IInv'
  <1> DEFINE more == Append(memory[p], NextEvent(memory[p]))
  <1>0. memory[p] \in Seq(EvidenceEvent) /\ made \in Nat
    BY DEF IInv, TypeOK
  <1>1. /\ more \in Seq(EvidenceEvent) /\ more # << >>
        /\ HashesIn(memory[p]) \subseteq HashesIn(more)
        /\ Verifies(memory[p]) => Verifies(more)
    BY <1>0, AppendContinues
  <1>2. memory' = [memory EXCEPT ![p] = more] /\ past' = Append(past, more)
    BY DEF Add
  <1> HIDE DEF more
  <1>3. /\ pc' \in [Processes -> Points] /\ pc'[p] = "open"
        /\ memory' \in [Processes -> Seq(EvidenceEvent)] /\ memory'[p] = more
        /\ \A q \in Processes \ {p} : pc'[q] = pc[q] /\ memory'[q] = memory[q]
    BY <1>1, <1>2 DEF Add, IInv, TypeOK, Points
  <1>4. past' \in Seq(Seq(EvidenceEvent)) /\ made' \in Nat
    BY <1>0, <1>1, <1>2 DEF Add, IInv, TypeOK
  <1>5. TypeOK'
    BY <1>3, <1>4 DEF Add, IInv, TypeOK
  <1>6. ASSUME alone' PROVE OneIsUp' /\ (\A q \in Processes : Holds(q)') /\ FileHolds'
    <2>1. alone /\ UNCHANGED <<file, acked>> /\ pc[p] = "idle"
      BY <1>6 DEF Add
    <2>2. FileHolds /\ OneIsUp /\ \A q \in Processes : Holds(q)
      BY <2>1 DEF IInv
    <2>3. FileHolds'
      BY <2>1, <2>2 DEF FileHolds, Readable
    <2>4. OneIsUp'
      BY <1>3, <2>1, <2>2 DEF OneIsUp
    <2>5. Holds(p)'
      <3>1. Holds(p)
        BY <2>2
      <3> QED
        BY <1>1, <1>3, <2>1, <3>1 DEF Holds
    <2>6. ASSUME NEW q \in Processes \ {p} PROVE Holds(q)'
      BY <1>3, <2>1, <2>2, <2>6 DEF Holds
    <2> QED
      BY <2>3, <2>4, <2>5, <2>6
  <1> QED
    BY <1>5, <1>6 DEF IInv

\* The other steps change neither what a process that stays up holds nor the history
\* of events; the next four share this.
LEMMA PcMoves ==
    ASSUME IInv, NEW p \in Processes, NEW point \in {"idle", "write"},
           pc' = [pc EXCEPT ![p] = point], pc[p] # "down",
           UNCHANGED <<memory, made, past, alone>>,
           file' \in Files, acked' \subseteq Nat
    PROVE  /\ TypeOK'
           /\ alone => OneIsUp'
           /\ pc'[p] = point /\ memory'[p] = memory[p]
           /\ \A q \in Processes \ {p} : pc'[q] = pc[q] /\ memory'[q] = memory[q]
           /\ alone => \A q \in Processes \ {p} : pc[q] = "down" /\ Holds(q)'
  <1>1. /\ pc' \in [Processes -> Points] /\ pc'[p] = point
        /\ \A q \in Processes \ {p} : pc'[q] = pc[q] /\ memory'[q] = memory[q]
    BY DEF IInv, TypeOK, Points
  <1>2. TypeOK'
    BY <1>1 DEF IInv, TypeOK
  <1>3. ASSUME alone PROVE OneIsUp'
    BY <1>1, <1>3 DEF IInv, OneIsUp
  <1>4. ASSUME alone, NEW q \in Processes \ {p} PROVE pc[q] = "down" /\ Holds(q)'
    <2>1. pc[q] = "down" /\ Holds(q)
      BY <1>4 DEF IInv, OneIsUp
    <2> QED
      BY <1>1, <1>4, <2>1 DEF Holds
  <1> QED
    BY <1>1, <1>2, <1>3, <1>4

LEMMA TruncateKeeps ==
    ASSUME IInv, NEW p \in Processes, Truncate(p)
    PROVE  IInv'
  <1>1. file' \in Files /\ file'.text = "empty" /\ file'.list = << >>
    BY EmptyFile DEF Truncate
  <1>2. /\ pc[p] = "open" /\ pc' = [pc EXCEPT ![p] = "write"]
        /\ UNCHANGED <<memory, made, past, acked, alone>>
    BY DEF Truncate
  <1>3. acked' \subseteq Nat
    BY <1>2 DEF IInv, TypeOK
  <1>4. /\ TypeOK' /\ (alone => OneIsUp')
        /\ pc'[p] = "write" /\ memory'[p] = memory[p]
        /\ alone => \A q \in Processes \ {p} : pc[q] = "down" /\ Holds(q)'
    BY <1>1, <1>2, <1>3, PcMoves
  <1>5. alone => Holds(p)'
    BY <1>1, <1>2, <1>4 DEF IInv, Holds
  <1>6. FileHolds'
    BY <1>1, EmptyVerifies DEF FileHolds, Readable
  <1> QED
    BY <1>2, <1>4, <1>5, <1>6 DEF IInv

LEMMA FailToOpenKeeps ==
    ASSUME IInv, NEW p \in Processes, FailToOpen(p)
    PROVE  IInv'
  <1>1. /\ pc[p] = "open" /\ pc' = [pc EXCEPT ![p] = "idle"]
        /\ UNCHANGED <<memory, file, made, past, acked, alone>>
    BY DEF FailToOpen
  <1>2. file' \in Files /\ acked' \subseteq Nat
    BY <1>1 DEF IInv, TypeOK
  <1>3. /\ TypeOK' /\ (alone => OneIsUp')
        /\ pc'[p] = "idle" /\ memory'[p] = memory[p]
        /\ alone => \A q \in Processes \ {p} : pc[q] = "down" /\ Holds(q)'
    BY <1>1, <1>2, PcMoves
  <1>4. alone => Holds(p)'
    BY <1>1, <1>3 DEF IInv, Holds
  <1>5. alone => FileHolds'
    BY <1>1 DEF IInv, FileHolds, Readable
  <1> QED
    BY <1>1, <1>3, <1>4, <1>5 DEF IInv

LEMMA FailToWriteKeeps ==
    ASSUME IInv, NEW p \in Processes, FailToWrite(p)
    PROVE  IInv'
  <1>1. file' \in Files /\ file'.text = "torn" /\ file'.list = << >>
    BY EmptyFile DEF FailToWrite
  <1>2. /\ pc[p] = "write" /\ pc' = [pc EXCEPT ![p] = "idle"]
        /\ UNCHANGED <<memory, made, past, acked, alone>>
    BY DEF FailToWrite
  <1>3. acked' \subseteq Nat
    BY <1>2 DEF IInv, TypeOK
  <1>4. /\ TypeOK' /\ (alone => OneIsUp')
        /\ pc'[p] = "idle" /\ memory'[p] = memory[p]
        /\ alone => \A q \in Processes \ {p} : pc[q] = "down" /\ Holds(q)'
    BY <1>1, <1>2, <1>3, PcMoves
  <1>5. alone => Holds(p)'
    BY <1>1, <1>2, <1>4 DEF IInv, Holds
  <1>6. FileHolds'
    BY <1>1, EmptyVerifies DEF FileHolds, Readable
  <1> QED
    BY <1>2, <1>4, <1>5, <1>6 DEF IInv

\* A process that is alone finds the file as it emptied it, so that it ends up with
\* the whole list.
LEMMA WriteKeeps ==
    ASSUME IInv, NEW p \in Processes, Write(p)
    PROVE  IInv'
  <1>0. memory[p] \in Seq(EvidenceEvent)
    BY DEF IInv, TypeOK
  <1>1. /\ pc[p] = "write" /\ pc' = [pc EXCEPT ![p] = "idle"]
        /\ UNCHANGED <<memory, made, past, alone>>
        /\ file' \in Overwritten(memory[p]) /\ acked' = acked \cup {LastHash(memory[p])}
    BY DEF Write
  <1>2. file' \in Files
    BY <1>0, <1>1, OverwrittenIsFile DEF IInv
  <1>3. acked' \subseteq Nat
    BY <1>0, <1>1, LastIsTyped DEF IInv, TypeOK
  <1>4. /\ TypeOK' /\ (alone => OneIsUp')
        /\ pc'[p] = "idle" /\ memory'[p] = memory[p]
        /\ \A q \in Processes \ {p} : pc'[q] = pc[q] /\ memory'[q] = memory[q]
        /\ alone => \A q \in Processes \ {p} : pc[q] = "down" /\ Holds(q)'
    BY <1>1, <1>2, <1>3, PcMoves
  <1>5. ASSUME alone PROVE (\A q \in Processes : Holds(q)') /\ FileHolds'
    <2>1. Holds(p) /\ memory[p] # << >> /\ file.text = "empty"
      BY <1>1, <1>5 DEF IInv, Holds
    <2>2. file' = Whole(memory[p])
      BY <1>1, <2>1 DEF Overwritten
    <2>3. file'.text = "whole" /\ file'.list = memory[p]
      BY <1>0, <2>2, WholeFile
    <2>4. acked' \subseteq HashesIn(memory[p])
      BY <1>0, <1>1, <2>1, LastIsHeld DEF Holds
    <2>5. Holds(p)'
      BY <1>4, <2>1, <2>4 DEF Holds
    <2>6. FileHolds'
      BY <2>1, <2>3, <2>4 DEF FileHolds, Holds
    <2> QED
      BY <1>4, <1>5, <2>5, <2>6
  <1> QED
    BY <1>1, <1>4, <1>5 DEF IInv

LEMMA CrashKeeps ==
    ASSUME IInv, NEW p \in Processes, Crash(p)
    PROVE  IInv'
  <1>1. /\ pc' \in [Processes -> Points] /\ pc'[p] = "down"
        /\ memory' \in [Processes -> Seq(EvidenceEvent)] /\ memory'[p] = << >>
        /\ \A q \in Processes \ {p} : pc'[q] = pc[q] /\ memory'[q] = memory[q]
    BY EmptyVerifies DEF Crash, IInv, TypeOK, Points
  <1>2. UNCHANGED <<file, made, past, acked, alone>>
    BY DEF Crash
  <1>3. TypeOK'
    BY <1>1, <1>2 DEF IInv, TypeOK
  <1>4. ASSUME alone PROVE OneIsUp' /\ (\A q \in Processes : Holds(q)') /\ FileHolds'
    <2>1. OneIsUp' /\ FileHolds'
      BY <1>1, <1>2, <1>4 DEF IInv, OneIsUp, FileHolds, Readable
    <2>2. Holds(p)'
      BY <1>1, EmptyVerifies DEF Holds
    <2>3. ASSUME NEW q \in Processes \ {p} PROVE Holds(q)'
      <3>1. Holds(q)
        BY <1>4 DEF IInv
      <3> QED
        BY <1>1, <1>2, <2>3, <3>1 DEF Holds
    <2> QED
      BY <2>1, <2>2, <2>3
  <1> QED
    BY <1>2, <1>3, <1>4 DEF IInv

LEMMA StutterKeeps ==
    ASSUME IInv, UNCHANGED vars
    PROVE  IInv'
  <1>1. TypeOK'
    BY DEF vars, IInv, TypeOK
  <1>2. OneIsUp' <=> OneIsUp
    BY DEF vars, OneIsUp
  <1>3. FileHolds' <=> FileHolds
    BY DEF vars, FileHolds, Readable
  <1>4. \A q \in Processes : Holds(q)' <=> Holds(q)
    BY DEF vars, Holds
  <1> QED
    BY <1>1, <1>2, <1>3, <1>4 DEF vars, IInv

----------------------------------------------------------------------------
\* Every step of append, _persist and a restart keeps the invariant.
THEOREM Inductive == Spec => []IInv
  <1>1. ASSUME IInv, [Next]_vars PROVE IInv'
    BY <1>1, StartKeeps, AddKeeps, TruncateKeeps, FailToOpenKeeps, WriteKeeps, FailToWriteKeeps,
       CrashKeeps, StutterKeeps
       DEF Next
  <1> QED
    BY <1>1, InitHolds, PTL DEF Spec

\* Every variable keeps its type, with any number of processes.
THEOREM Typed == Spec => []TypeOK
  <1>1. IInv => TypeOK
    BY DEF IInv
  <1> QED
    BY <1>1, Inductive, PTL

\* One process at a time never loses an event whose append has returned, over
\* failed writes, crashes and restarts.
THEOREM Remembered == Spec => []NothingForgotten
  <1>1. IInv => NothingForgotten
    BY DEF IInv, NothingForgotten, Holds, FileHolds
  <1> QED
    BY <1>1, Inductive, PTL

\* One process at a time never holds or loads a list that verify() refuses.
THEOREM ChainHolds == Spec => []AlwaysVerifies
  <1>1. IInv => AlwaysVerifies
    BY DEF IInv, AlwaysVerifies, Lists, Holds, FileHolds
  <1> QED
    BY <1>1, Inductive, PTL
----------------------------------------------------------------------------
(* What a list that verifies is, with any number of processes              *)

Last(list) == list[Len(list)]

\* An event is the one that was made with its hash.
Genuine(e) ==
    /\ e.event_hash \in DOMAIN past
    /\ e = Last(past[e.event_hash])

AllGenuine(list) == \A i \in DOMAIN list : Genuine(list[i])

\* The n-th event that was made has hash n, and its list is remembered.
Kept(h) == past[h] # << >> /\ LastHash(past[h]) = h /\ AllGenuine(past[h])

\* The second inductive invariant: no event is held, filed or remembered that was not
\* made.
HInv ==
    /\ Len(past) = made
    /\ \A h \in DOMAIN past : Kept(h)
    /\ \A list \in Lists : AllGenuine(list)

\* The order of the natural numbers is well founded.
LEMMA Descent == IsWellFoundedOn({pair \in Nat \X Nat : pair[1] < pair[2]}, Nat)
  BY NatLessThanWellFounded DEF OpToRel

\* Of numbers there is a least one.
LEMMA Least ==
    ASSUME NEW T \in SUBSET Nat, T # {}
    PROVE  \E x \in T : \A y \in T : x <= y
  <1> DEFINE R == {pair \in Nat \X Nat : pair[1] < pair[2]}
  <1>1. IsWellFoundedOn(R, Nat)
    BY Descent
  <1> HIDE DEF R
  <1>2. PICK x \in T : \A y \in T : <<y, x>> \notin R
    BY <1>1, WFMin
  <1>3. ASSUME NEW y \in T PROVE ~ (y < x)
    BY <1>2 DEF R
  <1> QED
    BY <1>3

\* Two lists of genuine events that verify, are as long and end alike are equal: from
\* the end backwards each link names the event before it.
LEMMA SameEndSameList ==
    ASSUME TypeOK, NEW K \in Seq(EvidenceEvent), NEW L \in Seq(EvidenceEvent),
           Len(K) = Len(L), L # << >>, Last(K) = Last(L),
           Verifies(K), Verifies(L), AllGenuine(K), AllGenuine(L)
    PROVE  K = L
  <1>1. /\ Len(L) \in Nat \ {0}
        /\ DOMAIN K = 1 .. Len(L) /\ DOMAIN L = 1 .. Len(L)
    BY EmptySeq
  <1> DEFINE Differ == {d \in Nat : d < Len(L) /\ K[Len(L) - d] # L[Len(L) - d]}
  <1>2. Differ = {}
    <2> SUFFICES ASSUME Differ # {} PROVE FALSE
      OBVIOUS
    <2>1. PICK d \in Differ : \A c \in Differ : d <= c
      BY Least
    <2>2. d \in Nat /\ d < Len(L) /\ K[Len(L) - d] # L[Len(L) - d]
      BY <2>1
    <2>3. d # 0
      BY <2>2, <1>1 DEF Last
    <2>4. d - 1 \in Nat /\ d - 1 \notin Differ
      BY <2>1, <2>2, <2>3
    <2> PICK i : i = Len(L) - d
      OBVIOUS
    <2>5. i \in 1 .. Len(L) /\ i + 1 \in 1 .. Len(L) /\ K[i] # L[i]
      BY <1>1, <2>2, <2>3
    <2>6. K[i + 1] = L[i + 1]
      BY <1>1, <2>2, <2>3, <2>4
    <2>7. /\ K[i + 1].prev_hash = K[i].event_hash
          /\ L[i + 1].prev_hash = L[i].event_hash
      <3>1. Linked(K, i + 1) /\ Linked(L, i + 1)
        BY <1>1, <2>5 DEF Verifies
      <3>2. i + 1 # 1 /\ (i + 1) - 1 = i
        BY <2>5
      <3> QED
        BY <3>1, <3>2 DEF Linked
    <2>8. K[i].event_hash = L[i].event_hash
      BY <2>6, <2>7
    <2>9. Genuine(K[i]) /\ Genuine(L[i])
      BY <1>1, <2>5 DEF AllGenuine
    <2> QED
      BY <2>5, <2>8, <2>9 DEF Genuine
  <1>3. ASSUME NEW i \in 1 .. Len(K) PROVE K[i] = L[i]
    <2>1. Len(L) - i \in Nat /\ Len(L) - i < Len(L) /\ Len(L) - (Len(L) - i) = i
      BY <1>1
    <2>2. Len(L) - i \notin Differ
      BY <1>2
    <2> QED
      BY <2>1, <2>2
  <1> QED
    BY <1>3, SeqEqual

\* Nothing is in the empty list.
LEMMA EmptyGenuine == AllGenuine(<< >>)
  BY DEF AllGenuine

\* Where two genuine lists are spliced, the events are genuine still.
LEMMA SplicesAreGenuine ==
    ASSUME NEW K \in Seq(EvidenceEvent), NEW L \in Seq(EvidenceEvent),
           AllGenuine(K), AllGenuine(L), NEW mix \in Splices(K, L)
    PROVE  AllGenuine(mix)
  <1>1. PICK n \in 0 .. Len(K) : mix = SubSeq(K, 1, n) \o SubSeq(L, n + 1, Len(L))
    BY DEF Splices
  <1>2. DOMAIN K = 1 .. Len(K) /\ DOMAIN L = 1 .. Len(L) /\ Len(K) \in Nat /\ Len(L) \in Nat
    OBVIOUS
  <1>3. PICK A, B : A = SubSeq(K, 1, n) /\ B = SubSeq(L, n + 1, Len(L))
    OBVIOUS
  <1>4. /\ A \in Seq(EvidenceEvent) /\ Len(A) = n
        /\ \A i \in 1 .. n : A[i] = K[i]
    <2>1. \A i \in 1 .. n : K[i] \in EvidenceEvent
      BY <1>2
    <2> QED
      BY <1>2, <1>3, <2>1, SubSeqProperties
  <1>5. /\ B \in Seq(EvidenceEvent) /\ Len(B) \in Nat
        /\ \A i \in 1 .. Len(B) : B[i] = L[n + i] /\ n + i \in DOMAIN L
    <2>1. \A i \in n + 1 .. Len(L) : L[i] \in EvidenceEvent
      BY <1>2
    <2>2. n \in Nat /\ n + 1 \in Int /\ Len(L) \in Int
      BY <1>2
    <2>3. CASE n + 1 <= Len(L)
      <3>1. B \in Seq(EvidenceEvent) /\ Len(B) = Len(L) - (n + 1) + 1
        BY <1>3, <2>1, <2>2, <2>3, SubSeqProperties
      <3>2. \A i \in 1 .. Len(L) - (n + 1) + 1 : B[i] = L[(n + 1) + i - 1]
        BY <1>3, <2>1, <2>2, SubSeqProperties
      <3>3. ASSUME NEW i \in 1 .. Len(B) PROVE B[i] = L[n + i] /\ n + i \in DOMAIN L
        <4>1. (n + 1) + i - 1 = n + i
          BY <2>2, <3>1
        <4>2. i \in 1 .. Len(L) - (n + 1) + 1 /\ n + i \in DOMAIN L
          BY <1>2, <2>2, <3>1
        <4> QED
          BY <3>2, <4>1, <4>2
      <3> QED
        BY <2>2, <2>3, <3>1, <3>3
    <2>4. CASE ~ (n + 1 <= Len(L))
      <3>1. B = << >>
        BY <1>3, <2>2, <2>4, SubSeqEmpty
      <3> QED
        BY <3>1
    <2> QED
      BY <2>3, <2>4
  <1>6. /\ mix \in Seq(EvidenceEvent) /\ Len(mix) = n + Len(B)
        /\ \A i \in 1 .. n + Len(B) : mix[i] = IF i <= n THEN A[i] ELSE B[i - n]
    <2>1. mix = A \o B
      BY <1>1, <1>3
    <2> QED
      BY <1>4, <1>5, <2>1, ConcatProperties
  <1>7. ASSUME NEW i \in DOMAIN mix PROVE Genuine(mix[i])
    <2>1. i \in 1 .. n + Len(B)
      BY <1>6
    <2>2. CASE i <= n
      <3>1. i \in DOMAIN K /\ mix[i] = K[i]
        BY <1>2, <1>4, <1>6, <2>1, <2>2
      <3> QED
        BY <3>1 DEF AllGenuine
    <2>4. CASE n < i
      <3>1. i - n \in 1 .. Len(B)
        BY <1>5, <2>1, <2>4
      <3>2. mix[i] = B[i - n]
        <4>1. ~ (i <= n)
          BY <2>1, <2>4
        <4> QED
          BY <1>6, <2>1, <4>1
      <3>3. n + (i - n) = i
        BY <2>1
      <3>4. i \in DOMAIN L /\ mix[i] = L[i]
        BY <1>5, <3>1, <3>2, <3>3
      <3> QED
        BY <3>4 DEF AllGenuine
    <2> QED
      BY <2>1, <2>2, <2>4
  <1> QED
    BY <1>7 DEF AllGenuine

\* So is what is written, over whatever was in the file.
LEMMA OverwrittenIsGenuine ==
    ASSUME TypeOK, NEW list \in Seq(EvidenceEvent), AllGenuine(list), AllGenuine(file.list),
           NEW f \in Overwritten(list)
    PROVE  AllGenuine(f.list)
  <1>1. file.list \in Seq(EvidenceEvent)
    BY FileIsTyped
  <1>2. \/ f = Whole(list) \/ f = Without("torn")
        \/ \E mix \in Splices(list, file.list) \cup Splices(file.list, list) : f = Whole(mix)
    BY DEF Overwritten
  <1>3. CASE f = Whole(list)
    BY <1>3 DEF Whole
  <1>4. CASE f = Without("torn")
    BY <1>4, EmptyGenuine DEF Without
  <1>5. ASSUME NEW mix \in Splices(list, file.list) \cup Splices(file.list, list), f = Whole(mix)
        PROVE  AllGenuine(f.list)
    <2>1. AllGenuine(mix)
      BY <1>1, SplicesAreGenuine
    <2> QED
      BY <1>5, <2>1 DEF Whole
  <1> QED
    BY <1>2, <1>3, <1>4, <1>5

\* A step that makes no event keeps every genuine one, so that only the lists it
\* changes need a look.
LEMMA NothingMade ==
    ASSUME HInv, UNCHANGED <<made, past>>,
           \A list \in Lists' : list \in Lists \/ AllGenuine(list)
    PROVE  HInv'
  <1>1. ASSUME NEW list PROVE AllGenuine(list)' <=> AllGenuine(list)
    BY DEF AllGenuine, Genuine, Last
  <1>2. \A list \in Lists' : AllGenuine(list)'
    BY <1>1 DEF HInv
  <1>3. ASSUME NEW h \in DOMAIN past PROVE Kept(h)'
    <2>1. Kept(h)
      BY DEF HInv
    <2> QED
      BY <2>1 DEF Kept, LastHash, AllGenuine, Genuine, Last
  <1> QED
    BY <1>2, <1>3 DEF HInv

\* An event that is made is made for the list of its process, which is remembered.
LEMMA AddIsHistory ==
    ASSUME TypeOK, HInv, NEW p \in Processes, Add(p)
    PROVE  HInv'
  <1> PICK M, e, more : M = memory[p] /\ e = NextEvent(M) /\ more = Append(M, e)
    OBVIOUS
  <1>1. M \in Seq(EvidenceEvent) /\ made \in Nat /\ past \in Seq(Seq(EvidenceEvent))
    BY DEF TypeOK
  <1>2. e \in EvidenceEvent /\ e.event_hash = made + 1
    BY <1>1, NextIsTyped DEF NextEvent
  <1>3. /\ more \in Seq(EvidenceEvent) /\ Len(more) = Len(M) + 1 /\ more[Len(more)] = e
        /\ \A i \in 1 .. Len(M) : more[i] = M[i]
        /\ DOMAIN more = 1 .. Len(M) + 1 /\ DOMAIN M = 1 .. Len(M) /\ Len(M) \in Nat
    BY <1>1, <1>2
  <1>4. /\ made' = made + 1 /\ past' = Append(past, more)
        /\ memory' = [memory EXCEPT ![p] = more] /\ UNCHANGED file
    BY DEF Add
  <1>5. /\ Len(past') = made' /\ DOMAIN past = 1 .. made /\ DOMAIN past' = 1 .. made + 1
        /\ past'[made + 1] = more /\ \A h \in 1 .. made : past'[h] = past[h]
    BY <1>1, <1>3, <1>4 DEF HInv
  <1>6. ASSUME NEW g, Genuine(g) PROVE Genuine(g)'
    BY <1>1, <1>5, <1>6 DEF Genuine, Last
  <1>7. Genuine(e)'
    BY <1>1, <1>2, <1>3, <1>5 DEF Genuine, Last
  <1>8. ASSUME NEW list, AllGenuine(list) PROVE AllGenuine(list)'
    BY <1>6, <1>8 DEF AllGenuine
  <1>9. more # << >>
    BY <1>3, EmptySeq
  <1>10. AllGenuine(more)'
    <2>1. AllGenuine(M)
      BY DEF HInv, Lists
    <2>2. \A i \in 1 .. Len(M) : Genuine(more[i])'
      BY <1>3, <1>6, <2>1 DEF AllGenuine
    <2>3. \A i \in 1 .. Len(M) + 1 : i \in 1 .. Len(M) \/ more[i] = e
      BY <1>3
    <2> QED
      BY <1>3, <1>7, <2>2, <2>3 DEF AllGenuine
  <1>11. \A list \in Lists' : list \in Lists \/ list = more
    BY <1>4 DEF TypeOK, Lists
  <1>12. \A list \in Lists' : AllGenuine(list)'
    BY <1>8, <1>10, <1>11 DEF HInv
  <1>13. ASSUME NEW h \in DOMAIN past' PROVE Kept(h)'
    <2> PICK list : list = past'[h]
      OBVIOUS
    <2> SUFFICES list # << >> /\ LastHash(list) = h /\ AllGenuine(list)'
      BY DEF Kept, LastHash, AllGenuine, Genuine, Last
    <2>1. CASE h \in 1 .. made
      <3>1. Kept(h) /\ list = past[h]
        BY <1>5, <2>1 DEF HInv
      <3> QED
        BY <1>8, <3>1 DEF Kept
    <2>2. CASE h = made + 1
      <3>1. list = more
        BY <1>5, <2>2
      <3> QED
        BY <1>2, <1>3, <1>10, <1>9, <2>2, <3>1 DEF LastHash
    <2> QED
      BY <1>1, <1>5, <2>1, <2>2
  <1> QED
    BY <1>5, <1>12, <1>13 DEF HInv

\* Nothing was made before anything happened.
LEMMA InitIsHistory == Init => HInv
  BY EmptyGenuine DEF Init, HInv, Lists, Without

\* Every step keeps the history.
LEMMA NextIsHistory ==
    ASSUME TypeOK, HInv, [Next]_vars
    PROVE  HInv'
  <1>1. ASSUME NEW p \in Processes, Start(p) PROVE HInv'
    <2>1. \A list \in Lists' : list \in Lists
      BY <1>1 DEF Start, Lists, TypeOK
    <2> QED
      BY <1>1, <2>1, NothingMade DEF Start
  <1>2. ASSUME NEW p \in Processes, Truncate(p) \/ FailToWrite(p) PROVE HInv'
    <2>1. \A list \in Lists' : list \in Lists \/ list = << >>
      BY <1>2 DEF Truncate, FailToWrite, Lists, Without
    <2> QED
      BY <1>2, <2>1, NothingMade, EmptyGenuine DEF Truncate, FailToWrite
  <1>3. ASSUME NEW p \in Processes, FailToOpen(p) PROVE HInv'
    <2>1. Lists' = Lists
      BY <1>3 DEF FailToOpen, Lists
    <2> QED
      BY <1>3, <2>1, NothingMade DEF FailToOpen
  <1>4. ASSUME NEW p \in Processes, Write(p) PROVE HInv'
    <2>1. memory[p] \in Seq(EvidenceEvent) /\ AllGenuine(memory[p]) /\ AllGenuine(file.list)
      BY DEF TypeOK, HInv, Lists
    <2>2. AllGenuine(file'.list)
      BY <1>4, <2>1, OverwrittenIsGenuine DEF Write
    <2>3. \A list \in Lists' : list \in Lists \/ list = file'.list
      BY <1>4 DEF Write, Lists
    <2> QED
      BY <1>4, <2>2, <2>3, NothingMade DEF Write
  <1>5. ASSUME NEW p \in Processes, Crash(p) PROVE HInv'
    <2>1. \A list \in Lists' : list \in Lists \/ list = << >>
      BY <1>5 DEF Crash, Lists, TypeOK
    <2> QED
      BY <1>5, <2>1, NothingMade, EmptyGenuine DEF Crash
  <1>6. CASE UNCHANGED vars
    <2>1. Lists' = Lists
      BY <1>6 DEF vars, Lists
    <2> QED
      BY <1>6, <2>1, NothingMade DEF vars
  <1> QED
    BY <1>1, <1>2, <1>3, <1>4, <1>5, <1>6, AddIsHistory DEF Next

\* What verifies was held.
LEMMA VerifiedWasHeld == TypeOK /\ HInv => VerifiedIsHistory
  <1> SUFFICES ASSUME TypeOK, HInv, NEW L \in Lists \ {<< >>},
                      Verifies(L), Verifies(past[LastHash(L)])
               PROVE  L = past[LastHash(L)]
    BY DEF VerifiedIsHistory
  <1>1. L \in Seq(EvidenceEvent)
    BY FileIsTyped DEF TypeOK, Lists
  <1>2. Len(L) \in DOMAIN L /\ AllGenuine(L)
    BY <1>1, EmptySeq DEF HInv
  <1>3. Genuine(Last(L)) /\ LastHash(L) = Last(L).event_hash
    BY <1>2 DEF AllGenuine, Last, LastHash
  <1> PICK K : K = past[LastHash(L)]
    OBVIOUS
  <1>4. LastHash(L) \in DOMAIN past /\ Last(L) = Last(K)
    BY <1>3 DEF Genuine
  <1>5. K \in Seq(EvidenceEvent) /\ K # << >> /\ AllGenuine(K)
    BY <1>4 DEF TypeOK, HInv, Kept
  <1>6. Len(K) \in DOMAIN K
    BY <1>5, EmptySeq
  <1>7. Last(K).seq = Len(K) /\ Last(L).seq = Len(L)
    BY <1>2, <1>6 DEF Verifies, Last
  <1>8. Len(K) = Len(L)
    BY <1>4, <1>7
  <1> QED
    BY <1>1, <1>2, <1>4, <1>5, <1>8, SameEndSameList

\* With any number of processes on one file and whatever fails or is cut short: a list
\* that verify() passes is the list that its last event was made for, if that one does.
THEOREM OnlyWhatWasHeld == Spec => []VerifiedIsHistory
  <1>1. Init => HInv
    BY InitIsHistory
  <1>2. ASSUME TypeOK, HInv, [Next]_vars PROVE HInv'
    BY <1>2, NextIsHistory
  <1>3. TypeOK /\ HInv => VerifiedIsHistory
    BY VerifiedWasHeld
  <1> QED
    BY <1>1, <1>2, <1>3, Typed, PTL DEF Spec
----------------------------------------------------------------------------
(* The workspace                                                           *)

Running(w) == calls[w].pc # "idle"

FileOf(n) == begun[n].file

\* Call m may have had a hand in the file of call a.
Excused(m, a) == Overlapped(m, a) \/ (begun[m].overwrite /\ FileOf(a) \notin Vault)

\* A call that has opened its file, and has not failed.
Opened(a) == a \in told \/ \E w \in Writers : calls[w].pc = "text" /\ calls[w].n = a

\* A call that is under way is one that has begun, not ended, and is nobody else's.
CallsFit ==
    /\ \A n \in 1 .. MaxWrites : n \notin DOMAIN begun => ended[n] = 0
    /\ \A w \in Writers : Running(w) =>
          /\ calls[w].n \in DOMAIN begun
          /\ ended[calls[w].n] = 0
          /\ calls[w].n \notin told
          /\ \A v \in Writers : Running(v) /\ calls[v].n = calls[w].n => v = w

PastALook(w, a) ==
    /\ calls[w].pc = "look again" => Overlapped(calls[w].n, a) \/ FileOf(a) \notin Vault
    /\ calls[w].pc \in {"open", "text"} => Excused(calls[w].n, a)

\* What a file that call a has opened holds: of others only what they may have put there.
\* Alone in it, the call finds it as it left it.
FileStands(a, c) ==
    /\ c # None
    /\ c.by # {} /\ c.by \subseteq DOMAIN begun
    /\ c.by = {a} => c.text = IF a \in told THEN "whole" ELSE "empty"
    /\ \A m \in c.by \ {a} : Excused(m, a)

\* A file stays a file, and a call that is past one of its looks at it has its reason.
Stands(a) ==
    /\ FileStands(a, content[FileOf(a)])
    /\ \A w \in Writers :
          Running(w) /\ Target(w) = FileOf(a) /\ calls[w].n # a => PastALook(w, a)

\* The inductive invariant of the workspace.
WInv ==
    /\ WorkspaceTypeOK
    /\ CallsFit
    /\ \A a \in DOMAIN begun : Opened(a) => Stands(a)

\* What the types say of a call, a file and an acknowledgement.
LEMMA WorkspaceTypes ==
    ASSUME WorkspaceTypeOK
    PROVE  /\ Len(begun) \in Nat /\ DOMAIN begun = 1 .. Len(begun) /\ MaxWrites \in Nat
           /\ DOMAIN begun \subseteq 1 .. MaxWrites
           /\ \A n \in DOMAIN begun : FileOf(n) \in Targets
           /\ \A w \in Writers : calls[w].pc \in Places /\ calls[w].n \in 0 .. MaxWrites
           /\ \A n \in DOMAIN begun : ended[n] \in Nat
           /\ \A f \in Targets : content[f] \in Texts \cup {None}
  <1>1. begun \in Seq([file : Targets, overwrite : BOOLEAN]) /\ Len(begun) <= MaxWrites
    BY DEF WorkspaceTypeOK
  <1>2. /\ Len(begun) \in Nat /\ DOMAIN begun = 1 .. Len(begun) /\ MaxWrites \in Nat
        /\ DOMAIN begun \subseteq 1 .. MaxWrites
    BY <1>1, WorkspaceAssumption
  <1>3. ASSUME NEW n \in DOMAIN begun PROVE FileOf(n) \in Targets
    <2>1. begun[n] \in [file : Targets, overwrite : BOOLEAN]
      BY <1>1, <1>2, ElementOfSeq
    <2> QED
      BY <2>1 DEF FileOf
  <1> QED
    BY <1>2, <1>3 DEF WorkspaceTypeOK

\* What the three forms of a file's text are.
LEMMA FormsOfText ==
    ASSUME NEW n \in 1 .. MaxWrites, NEW c \in Texts
    PROVE  /\ Emptied(n) \in Texts /\ Emptied(n).by = {n} /\ Emptied(n).text = "empty"
           /\ TextOf(n) \in Texts /\ TextOf(n).by = {n} /\ TextOf(n).text = "whole"
           /\ Mixed(n, c) \in Texts /\ n \in Mixed(n, c).by /\ Mixed(n, c).by \subseteq c.by \cup {n}
           /\ c.text # "empty" => Mixed(n, c).by = c.by \cup {n}
  BY DEF Emptied, TextOf, Mixed, Texts

\* Nobody has called.
LEMMA InitWorkspace == WorkspaceInit => WInv
  <1> SUFFICES ASSUME WorkspaceInit PROVE WInv
    OBVIOUS
  <1>1. /\ begun = << >> /\ Len(begun) = 0 /\ begun \in Seq([file : Targets, overwrite : BOOLEAN])
        /\ DOMAIN begun = {}
    BY DEF WorkspaceInit
  <1>2. WorkspaceTypeOK
    BY <1>1, WorkspaceAssumption DEF WorkspaceInit, WorkspaceTypeOK, Idle, Places
  <1> QED
    BY <1>1, <1>2 DEF WorkspaceInit, WInv, CallsFit, Running, Idle

\* A call that goes from one place to the next before it opens its file, for a reason.
LEMMA CallMoves ==
    ASSUME WInv, NEW w \in Writers, NEW place \in {"look again", "open"}, Goto(w, place),
           UNCHANGED content, calls[w].pc \in {"look", "look again"},
           \A a \in DOMAIN begun : Opened(a) /\ Target(w) = FileOf(a) =>
              IF place = "open" THEN Excused(calls[w].n, a)
              ELSE Overlapped(calls[w].n, a) \/ FileOf(a) \notin Vault
    PROVE  WInv'
  <1>1. /\ calls \in [Writers -> [pc : Places, n : 0 .. MaxWrites]]
        /\ calls' = [calls EXCEPT ![w].pc = place] /\ place \in Places
        /\ UNCHANGED <<begun, ended, told>>
    BY DEF WInv, WorkspaceTypeOK, Goto, Places
  <1>2. /\ calls' \in [Writers -> [pc : Places, n : 0 .. MaxWrites]]
        /\ calls'[w].pc = place /\ calls'[w].n = calls[w].n
        /\ \A v \in Writers \ {w} : calls'[v] = calls[v]
    BY <1>1
  <1>3. WorkspaceTypeOK'
    BY <1>1, <1>2 DEF WInv, WorkspaceTypeOK
  <1>4. \A v \in Writers : /\ Running(v)' <=> Running(v)
                           /\ calls'[v].n = calls[v].n /\ Target(v)' = Target(v)
                           /\ calls'[v].pc = "text" <=> calls[v].pc = "text"
    BY <1>1, <1>2 DEF Running, Target
  <1>5. CallsFit'
    <2>1. CallsFit
      BY DEF WInv
    <2>2. \A v \in Writers : (Running(v)' <=> Running(v)) /\ calls'[v].n = calls[v].n
      BY <1>4
    <2>3. UNCHANGED <<begun, ended, told>>
      BY <1>1
    <2> QED
      BY <2>1, <2>2, <2>3 DEF CallsFit
  <1>6. ASSUME NEW a \in DOMAIN begun, Opened(a)' PROVE Stands(a)'
    <2>1. Opened(a) /\ Stands(a) /\ FileOf(a)' = FileOf(a)
      BY <1>1, <1>4, <1>6 DEF WInv, Opened, FileOf
    <2>2. FileStands(a, content[FileOf(a)])'
      BY <1>1, <2>1 DEF Stands, FileStands, Excused, Overlapped, FileOf
    <2>3. ASSUME NEW v \in Writers, Running(v)', Target(v)' = FileOf(a)', calls'[v].n # a
          PROVE  PastALook(v, a)'
      <3>3. \A m, b : /\ Excused(m, b)' <=> Excused(m, b)
                      /\ Overlapped(m, b)' <=> Overlapped(m, b)
        BY <1>1 DEF Excused, Overlapped, FileOf
      <3>1. CASE v = w
        <4>1. Target(w) = FileOf(a) /\ calls'[v].pc = place /\ calls'[v].n = calls[w].n
          BY <1>2, <1>4, <2>1, <2>3, <3>1
        <4> QED
          BY <2>1, <3>3, <4>1 DEF PastALook
      <3>2. CASE v # w
        <4>1. PastALook(v, a) /\ calls'[v] = calls[v]
          BY <1>2, <1>4, <2>1, <2>3, <3>2 DEF Stands
        <4> QED
          BY <2>1, <3>3, <4>1 DEF PastALook
      <3> QED
        BY <3>1, <3>2
    <2> QED
      BY <2>2, <2>3 DEF Stands
  <1> QED
    BY <1>1, <1>3, <1>5, <1>6 DEF WInv

\* A call has no reason yet when it has only begun, and needs none.
LEMMA BeginKeeps ==
    ASSUME WInv, NEW w \in Writers, NEW f \in Targets, NEW overwrite \in BOOLEAN,
           Begin(w, f, overwrite)
    PROVE  WInv'
  <1> PICK n : n = Len(begun) + 1
    OBVIOUS
  <1>1. /\ Len(begun) \in Nat /\ DOMAIN begun = 1 .. Len(begun) /\ MaxWrites \in Nat
        /\ begun \in Seq([file : Targets, overwrite : BOOLEAN])
        /\ Len(begun) < MaxWrites
        /\ n \in 1 .. MaxWrites /\ n \notin DOMAIN begun
    BY WorkspaceTypes DEF WInv, WorkspaceTypeOK, Begin
  <1>2. /\ begun' = Append(begun, [file |-> f, overwrite |-> overwrite])
        /\ begun' \in Seq([file : Targets, overwrite : BOOLEAN])
        /\ Len(begun') = n /\ DOMAIN begun' = 1 .. n /\ n <= MaxWrites
        /\ \A m \in DOMAIN begun : m \in DOMAIN begun' /\ begun'[m] = begun[m]
    BY <1>1 DEF Begin
  <1>3. /\ calls' \in [Writers -> [pc : Places, n : 0 .. MaxWrites]]
        /\ calls'[w].pc = "look" /\ calls'[w].n = n
        /\ \A v \in Writers \ {w} : calls'[v] = calls[v]
        /\ UNCHANGED <<content, ended, told>> /\ ~ Running(w)
    <2>1. calls \in [Writers -> [pc : Places, n : 0 .. MaxWrites]]
      BY DEF WInv, WorkspaceTypeOK
    <2>2. PICK c : c = [pc |-> "look", n |-> n]
      OBVIOUS
    <2>3. c \in [pc : Places, n : 0 .. MaxWrites] /\ c.pc = "look" /\ c.n = n
      BY <1>1, <2>2 DEF Places
    <2>4. calls' = [calls EXCEPT ![w] = c] /\ UNCHANGED <<content, ended, told>> /\ ~ Running(w)
      BY <2>2 DEF Begin, Running
    <2> QED
      BY <2>1, <2>3, <2>4
  <1>4. WorkspaceTypeOK'
    BY <1>2, <1>3 DEF WInv, WorkspaceTypeOK
  <1>5. \A v \in Writers \ {w} : Running(v)' =>
           Running(v) /\ calls'[v] = calls[v] /\ calls[v].n \in DOMAIN begun
    BY <1>3 DEF Running, WInv, CallsFit
  <1>6. CallsFit'
    <2>1. \A m \in 1 .. MaxWrites : m \notin DOMAIN begun' => ended'[m] = 0
      BY <1>2, <1>3 DEF WInv, CallsFit
    <2>2. ended[n] = 0 /\ n \notin told /\ n \in DOMAIN begun'
      BY <1>1, <1>2 DEF WInv, CallsFit, WorkspaceTypeOK
    <2>3. \A v \in Writers \ {w} : Running(v)' => calls'[v].n # n
      BY <1>1, <1>5
    <2>4. ASSUME NEW v \in Writers, Running(v)'
          PROVE  /\ calls'[v].n \in DOMAIN begun'
                 /\ ended'[calls'[v].n] = 0
                 /\ calls'[v].n \notin told'
                 /\ \A u \in Writers : Running(u)' /\ calls'[u].n = calls'[v].n => u = v
      <3>1. CASE v = w
        BY <1>3, <2>2, <2>3, <3>1
      <3>2. CASE v # w
        <4>1. Running(v) /\ calls'[v] = calls[v] /\ calls[v].n \in DOMAIN begun
          BY <1>5, <2>4, <3>2
        <4>2. /\ ended[calls[v].n] = 0 /\ calls[v].n \notin told
              /\ \A u \in Writers : Running(u) /\ calls[u].n = calls[v].n => u = v
          BY <4>1 DEF WInv, CallsFit
        <4>3. calls'[v].n # n
          BY <2>3, <2>4, <3>2
        <4>4. \A u \in Writers : Running(u)' /\ calls'[u].n = calls'[v].n => u = v
          BY <1>3, <1>5, <4>1, <4>2, <4>3
        <4> QED
          BY <1>2, <1>3, <4>1, <4>2, <4>4
      <3> QED
        BY <3>1, <3>2
    <2> QED
      BY <2>1, <2>4 DEF CallsFit
  <1>7. ASSUME NEW a \in DOMAIN begun', Opened(a)' PROVE Stands(a)'
    <2>1. Opened(a) /\ a \in DOMAIN begun
      <3>1. CASE a \in told
        BY <3>1 DEF WInv, WorkspaceTypeOK, Opened
      <3>2. CASE a \notin told
        <4>1. PICK v \in Writers : calls'[v].pc = "text" /\ calls'[v].n = a
          BY <1>3, <1>7, <3>2 DEF Opened
        <4>2. v # w /\ Running(v)'
          BY <1>3, <4>1 DEF Running
        <4> QED
          BY <1>5, <4>1, <4>2 DEF Opened
      <3> QED
        BY <3>1, <3>2
    <2>2. Stands(a) /\ FileOf(a)' = FileOf(a)
      BY <1>2, <2>1 DEF WInv, FileOf
    <2>3. \A m \in DOMAIN begun : Excused(m, a)' <=> Excused(m, a)
      BY <1>2, <1>3, <2>2 DEF Excused, Overlapped
    <2>4. FileStands(a, content[FileOf(a)])'
      BY <1>2, <1>3, <2>2, <2>3 DEF Stands, FileStands
    <2>5. ASSUME NEW v \in Writers, Running(v)', Target(v)' = FileOf(a)', calls'[v].n # a
          PROVE  PastALook(v, a)'
      <3>1. CASE v = w
        BY <1>3, <3>1 DEF PastALook
      <3>2. CASE v # w
        <4>1. /\ Running(v) /\ calls'[v] = calls[v] /\ calls[v].n \in DOMAIN begun
              /\ Target(v) = FileOf(a)
          BY <1>2, <1>5, <2>2, <2>5, <3>2 DEF Target
        <4>2. PastALook(v, a)
          BY <2>2, <2>5, <4>1 DEF Stands
        <4>3. Excused(calls[v].n, a)' <=> Excused(calls[v].n, a)
          BY <2>3, <4>1
        <4> QED
          BY <1>3, <2>2, <4>1, <4>2, <4>3 DEF PastALook, Overlapped
      <3> QED
        BY <3>1, <3>2
    <2> QED
      BY <2>4, <2>5 DEF Stands
  <1> QED
    BY <1>4, <1>6, <1>7 DEF WInv

\* Whoever empties a file had a reason with every call that has opened it before.
LEMMA OpenKeeps ==
    ASSUME WInv, NEW w \in Writers, Open(w)
    PROVE  WInv'
  <1> PICK f, n : f = Target(w) /\ n = calls[w].n
    OBVIOUS
  <1>1. /\ calls[w].pc = "open" /\ Running(w) /\ UNCHANGED <<begun, ended, told>>
        /\ content' = [content EXCEPT ![f] = Emptied(n)]
        /\ calls' = [calls EXCEPT ![w].pc = "text"]
        /\ calls \in [Writers -> [pc : Places, n : 0 .. MaxWrites]]
        /\ content \in [Targets -> Texts \cup {None}]
    BY DEF Open, Goto, Running, WInv, WorkspaceTypeOK
  <1>2. /\ n \in DOMAIN begun /\ f = FileOf(n) /\ f \in Targets /\ n \in 1 .. MaxWrites
        /\ n \notin told /\ ended[n] = 0
        /\ \A v \in Writers : Running(v) /\ calls[v].n = n => v = w
    BY <1>1, WorkspaceTypes DEF WInv, CallsFit, Target, FileOf
  <1>3. /\ calls' \in [Writers -> [pc : Places, n : 0 .. MaxWrites]]
        /\ calls'[w].pc = "text" /\ calls'[w].n = n
        /\ \A v \in Writers \ {w} : calls'[v] = calls[v]
    BY <1>1 DEF Places
  <1>4. Emptied(n) \in Texts /\ Emptied(n).by = {n} /\ Emptied(n).text = "empty"
    BY <1>2 DEF Emptied, Texts
  <1>5. /\ content' \in [Targets -> Texts \cup {None}] /\ content'[f] = Emptied(n)
        /\ \A g \in Targets \ {f} : content'[g] = content[g]
    BY <1>1, <1>2, <1>4
  <1>6. WorkspaceTypeOK'
    BY <1>1, <1>3, <1>5 DEF WInv, WorkspaceTypeOK
  <1>7. /\ \A v \in Writers : (Running(v)' <=> Running(v)) /\ calls'[v].n = calls[v].n
        /\ \A v \in Writers : Target(v)' = Target(v)
    BY <1>1, <1>3 DEF Running, Target
  <1>8. CallsFit'
    <2>1. CallsFit
      BY DEF WInv
    <2> QED
      BY <1>1, <1>7, <2>1 DEF CallsFit
  <1>9. \A m, a : Excused(m, a)' <=> Excused(m, a)
    BY <1>1 DEF Excused, Overlapped, FileOf
  <1>10. ASSUME NEW a \in DOMAIN begun, Opened(a)', a # n PROVE Stands(a)'
    <2>1. Opened(a) /\ Stands(a) /\ FileOf(a)' = FileOf(a) /\ FileOf(a) \in Targets
      BY <1>1, <1>3, <1>10, WorkspaceTypes DEF WInv, Opened, FileOf
    <2>2. f = FileOf(a) => Excused(n, a)
      BY <1>1, <1>10, <2>1 DEF Stands, PastALook
    <2>3. FileStands(a, content[FileOf(a)])'
      <3>1. CASE f = FileOf(a)
        <4>1. Emptied(n) # None
          BY <1>4, WorkspaceAssumption
        <4>2. content'[FileOf(a)'] = Emptied(n)
          BY <1>5, <2>1, <3>1
        <4> QED
          BY <1>1, <1>2, <1>4, <1>9, <1>10, <2>2, <3>1, <4>1, <4>2 DEF FileStands
      <3>2. CASE f # FileOf(a)
        <4>1. content'[FileOf(a)'] = content[FileOf(a)]
          BY <1>5, <2>1, <3>2
        <4>2. FileStands(a, content[FileOf(a)])
          BY <2>1 DEF Stands
        <4> QED
          BY <1>1, <1>9, <4>1, <4>2 DEF FileStands
      <3> QED
        BY <3>1, <3>2
    <2>4. ASSUME NEW v \in Writers, Running(v)', Target(v)' = FileOf(a)', calls'[v].n # a
          PROVE  PastALook(v, a)'
      <3>1. CASE v = w
        BY <1>3, <1>7, <1>9, <2>1, <2>2, <2>4, <3>1 DEF PastALook
      <3>2. CASE v # w
        <4>1. PastALook(v, a)
          BY <1>7, <2>1, <2>4 DEF Stands
        <4> QED
          BY <1>1, <1>3, <1>9, <2>1, <3>2, <4>1 DEF PastALook, Overlapped
      <3> QED
        BY <3>1, <3>2
    <2> QED
      BY <2>3, <2>4 DEF Stands
  <1>11. Stands(n)'
    <2>1. FileStands(n, content[FileOf(n)])'
      <3>1. Emptied(n) # None
        BY <1>4, WorkspaceAssumption
      <3>2. content'[FileOf(n)'] = Emptied(n)
        BY <1>1, <1>2, <1>5 DEF FileOf
      <3> QED
        BY <1>1, <1>2, <1>4, <3>1, <3>2 DEF FileStands
    <2>2. ASSUME NEW v \in Writers, Running(v)' PROVE Overlapped(calls[v].n, n)'
      BY <1>1, <1>2, <1>7, <2>2 DEF WInv, CallsFit, Overlapped
    <2> QED
      BY <1>7, <2>1, <2>2 DEF Stands, PastALook, Excused
  <1> QED
    BY <1>1, <1>6, <1>8, <1>10, <1>11 DEF WInv

\* A call ends, and what it leaves in its file, if anything, is its own and perhaps what
\* was there while it had the file open; if it returns, what it leaves is there.
LEMMA FinishKeeps ==
    ASSUME WInv, NEW w \in Writers, NEW f \in Targets, f = Target(w), NEW n, n = calls[w].n,
           Running(w), Finish(w), told' \in {told, told \cup {n}},
           NEW c \in Texts \cup {None},
           content' = [content EXCEPT ![f] = c],
           \/ c = content[f] /\ told' = told
           \/ /\ calls[w].pc = "text" /\ c \in Texts
              /\ n \in c.by /\ c.by \subseteq content[f].by \cup {n}
              /\ c.by = {n} /\ told' # told => c.text = "whole"
    PROVE  WInv'
  <1>1. /\ calls \in [Writers -> [pc : Places, n : 0 .. MaxWrites]]
        /\ content \in [Targets -> Texts \cup {None}]
        /\ ended \in [1 .. MaxWrites -> Nat]
        /\ calls' = [calls EXCEPT ![w] = Idle]
        /\ ended' = [ended EXCEPT ![n] = Len(begun)]
        /\ UNCHANGED begun
    BY DEF WInv, WorkspaceTypeOK, Finish
  <1>2. /\ n \in DOMAIN begun /\ f = FileOf(n) /\ n \in 1 .. MaxWrites
        /\ n \notin told /\ ended[n] = 0 /\ Len(begun) \in Nat
        /\ \A v \in Writers : Running(v) /\ calls[v].n = n => v = w
        /\ \A m \in DOMAIN begun : m \in Nat /\ m <= Len(begun) /\ ended[m] \in Nat
    BY <1>1, WorkspaceTypes DEF WInv, CallsFit, Target, FileOf
  <1>3. /\ calls' \in [Writers -> [pc : Places, n : 0 .. MaxWrites]]
        /\ ~ Running(w)' /\ calls'[w].pc = "idle"
        /\ \A v \in Writers \ {w} : calls'[v] = calls[v]
    <2>1. Idle \in [pc : Places, n : 0 .. MaxWrites] /\ Idle.pc = "idle"
      BY WorkspaceAssumption DEF Idle, Places
    <2> QED
      BY <1>1, <2>1 DEF Running
  <1>4. /\ ended' \in [1 .. MaxWrites -> Nat] /\ ended'[n] = Len(begun)
        /\ \A m \in 1 .. MaxWrites : m # n => ended'[m] = ended[m]
    BY <1>1, <1>2
  <1>5. /\ content' \in [Targets -> Texts \cup {None}] /\ content'[f] = c
        /\ \A g \in Targets \ {f} : content'[g] = content[g]
    BY <1>1
  <1>6. WorkspaceTypeOK'
    BY <1>1, <1>2, <1>3, <1>4, <1>5 DEF WInv, WorkspaceTypeOK
  <1>7. ASSUME NEW v \in Writers, Running(v)'
        PROVE  /\ v # w /\ calls'[v] = calls[v] /\ Running(v) /\ calls[v].n # n
               /\ calls[v].n \in DOMAIN begun /\ ended'[calls[v].n] = 0 /\ Target(v)' = Target(v)
    <2>1. v # w /\ calls'[v] = calls[v] /\ Running(v)
      BY <1>3, <1>7 DEF Running
    <2>2. calls[v].n # n /\ calls[v].n \in DOMAIN begun /\ ended[calls[v].n] = 0
      BY <1>2, <2>1 DEF WInv, CallsFit
    <2> QED
      BY <1>1, <1>4, <2>1, <2>2, WorkspaceTypes DEF WInv, Target
  <1>8. CallsFit'
    <2>1. \A m \in 1 .. MaxWrites : m \notin DOMAIN begun' => ended'[m] = 0
      BY <1>1, <1>2, <1>4 DEF WInv, CallsFit
    <2>2. ASSUME NEW v \in Writers, Running(v)'
          PROVE  /\ calls'[v].n \in DOMAIN begun'
                 /\ ended'[calls'[v].n] = 0
                 /\ calls'[v].n \notin told'
                 /\ \A u \in Writers : Running(u)' /\ calls'[u].n = calls'[v].n => u = v
      <3>1. calls[v].n \notin told /\ \A u \in Writers : Running(u) /\ calls[u].n = calls[v].n => u = v
        BY <1>7, <2>2 DEF WInv, CallsFit
      <3>2. \A u \in Writers : Running(u)' => Running(u) /\ calls'[u] = calls[u]
        BY <1>7
      <3> QED
        BY <1>1, <1>7, <2>2, <3>1, <3>2
    <2> QED
      BY <2>1, <2>2 DEF CallsFit
  <1>9. ASSUME NEW m \in DOMAIN begun, NEW a \in DOMAIN begun
        PROVE  (Overlapped(m, a) => Overlapped(m, a)') /\ (Excused(m, a) => Excused(m, a)')
    <2>1. ended'[m] = ended[m] \/ ended'[m] = Len(begun)
      BY <1>2, <1>4, WorkspaceTypes DEF WInv
    <2>2. ended'[a] = ended[a] \/ ended'[a] = Len(begun)
      BY <1>2, <1>4, WorkspaceTypes DEF WInv
    <2>3. Overlapped(m, a) => Overlapped(m, a)'
      BY <1>2, <2>1, <2>2 DEF Overlapped
    <2> QED
      BY <1>1, <2>3 DEF Excused, FileOf
  <1>10. ASSUME NEW a \in DOMAIN begun, Opened(a)'
         PROVE  Opened(a) /\ Stands(a) /\ FileOf(a)' = FileOf(a) /\ FileOf(a) \in Targets
    <2>1. a \in told \/ (a = n /\ told' # told) \/ \E v \in Writers : calls'[v].pc = "text" /\ calls'[v].n = a
      BY <1>10 DEF Opened
    <2>2. Opened(a)
      BY <1>3, <2>1 DEF Opened
    <2> QED
      BY <1>1, <2>2, WorkspaceTypes DEF WInv, FileOf
  <1>11. ASSUME NEW a \in DOMAIN begun, Opened(a)' PROVE Stands(a)'
    <2>1. Opened(a) /\ Stands(a) /\ FileOf(a)' = FileOf(a) /\ FileOf(a) \in Targets
      BY <1>10, <1>11
    <2>2. FileStands(a, content[FileOf(a)])
      BY <2>1 DEF Stands
    <2>3. FileStands(a, content[FileOf(a)])'
      <3>1. CASE f # FileOf(a) \/ (c = content[f] /\ told' = told)
        <4>1. content'[FileOf(a)'] = content[FileOf(a)]
          BY <1>5, <2>1, <3>1
        <4>2. a \in told' <=> a \in told
          BY <1>2, <3>1
        <4> QED
          BY <1>1, <1>9, <2>2, <4>1, <4>2 DEF FileStands
      <3>2. CASE f = FileOf(a) /\ ~ (c = content[f] /\ told' = told)
        <4>1. /\ calls[w].pc = "text" /\ c \in Texts
              /\ n \in c.by /\ c.by \subseteq content[f].by \cup {n}
              /\ c.by = {n} /\ told' # told => c.text = "whole"
              /\ content'[FileOf(a)'] = c /\ c # None
          BY <1>5, <2>1, <3>2, WorkspaceAssumption
        <4>2. c.by = {a} => c.text = IF a \in told' THEN "whole" ELSE "empty"
          <5>1. ASSUME c.by = {a} PROVE a = n /\ a \in told'
            <6>1. a = n
              BY <4>1, <5>1
            <6>2. \A v \in Writers : calls'[v].pc = "text" => calls'[v].n # n
              BY <1>7 DEF Running
            <6> QED
              BY <1>11, <6>1, <6>2 DEF Opened
          <5> QED
            BY <1>2, <4>1, <5>1
        <4>3. \A m \in c.by \ {a} : m \in DOMAIN begun /\ Excused(m, a)
          <5>1. ASSUME n # a PROVE Excused(n, a)
            BY <1>2, <2>1, <3>2, <4>1, <5>1 DEF Stands, PastALook
          <5>2. \A m \in content[f].by \ {a} : m \in DOMAIN begun /\ Excused(m, a)
            BY <2>2, <3>2 DEF FileStands
          <5> QED
            BY <1>2, <4>1, <5>1, <5>2
        <4>4. c.by \subseteq DOMAIN begun
          BY <1>2, <2>2, <3>2, <4>1 DEF FileStands
        <4> QED
          BY <1>1, <1>9, <4>1, <4>2, <4>3, <4>4 DEF FileStands
      <3> QED
        BY <3>1, <3>2
    <2>4. ASSUME NEW v \in Writers, Running(v)', Target(v)' = FileOf(a)', calls'[v].n # a
          PROVE  PastALook(v, a)'
      <3>1. PastALook(v, a)
        BY <1>7, <2>1, <2>4 DEF Stands
      <3> QED
        BY <1>7, <1>9, <2>1, <2>4, <3>1 DEF PastALook
    <2> QED
      BY <2>3, <2>4 DEF Stands
  <1> QED
    BY <1>1, <1>6, <1>8, <1>11 DEF WInv

\* Every step of write keeps the invariant.
LEMMA WorkspaceSteps == WInv /\ [WorkspaceNext]_workspaceVars => WInv'
  <1> SUFFICES ASSUME WInv, [WorkspaceNext]_workspaceVars PROVE WInv'
    OBVIOUS
  <1>1. CASE UNCHANGED workspaceVars
    <2>1. UNCHANGED <<calls, content, begun, ended, told>>
      BY <1>1 DEF workspaceVars
    <2>2. WorkspaceTypeOK' /\ CallsFit'
      BY <2>1 DEF WInv, WorkspaceTypeOK, CallsFit, Running
    <2>3. ASSUME NEW a \in DOMAIN begun, Opened(a)' PROVE Stands(a)'
      BY <2>1, <2>3 DEF WInv, Opened, Stands, FileStands, Excused, Overlapped, FileOf, Running,
                        Target, PastALook
    <2> QED
      BY <2>1, <2>2, <2>3 DEF WInv
  <1>2. ASSUME NEW w \in Writers, Raise(w), Running(w), UNCHANGED content PROVE WInv'
    <2>1. PICK f, n, c : f = Target(w) /\ n = calls[w].n /\ c = content[f]
      OBVIOUS
    <2>2. f \in Targets
      BY <1>2, <2>1, WorkspaceTypes DEF WInv, CallsFit, Target, FileOf
    <2>3. c \in Texts \cup {None} /\ content' = [content EXCEPT ![f] = c]
      BY <1>2, <2>1, <2>2 DEF WInv, WorkspaceTypeOK
    <2> QED
      BY <1>2, <2>1, <2>2, <2>3, FinishKeeps DEF Raise
  <1>3. ASSUME NEW w \in Writers, Look(w) PROVE WInv'
    <2>1. calls[w].pc = "look" /\ Running(w) /\ UNCHANGED content
      BY <1>3 DEF Look, Running
    <2>2. CASE Raise(w)
      BY <1>2, <2>1, <2>2
    <2>3. CASE Goto(w, "look again") /\ ~ (Final(w) /\ Exists(Target(w)))
      <3>1. ASSUME NEW a \in DOMAIN begun, Opened(a), Target(w) = FileOf(a)
            PROVE  FileOf(a) \notin Vault
        BY <2>3, <3>1 DEF WInv, Stands, FileStands, Final, Exists
      <3> QED
        BY <2>1, <2>3, <3>1, CallMoves
    <2> QED
      BY <1>3, <2>2, <2>3 DEF Look
  <1>4. ASSUME NEW w \in Writers, LookAgain(w) PROVE WInv'
    <2>1. calls[w].pc = "look again" /\ Running(w) /\ UNCHANGED content
      BY <1>4 DEF LookAgain, Running
    <2>2. CASE Raise(w)
      BY <1>2, <2>1, <2>2
    <2>3. CASE Goto(w, "open") /\ ~ (Exists(Target(w)) /\ ~ MayReplace(w))
      <3>1. ASSUME NEW a \in DOMAIN begun, Opened(a), Target(w) = FileOf(a)
            PROVE  Excused(calls[w].n, a)
        <4>1. Exists(Target(w)) /\ (calls[w].n # a => PastALook(w, a))
          BY <2>1, <3>1 DEF WInv, Stands, FileStands, Exists
        <4>2. calls[w].n # a
          <5>1. calls[w].n \notin told /\ \A v \in Writers : Running(v) /\ calls[v].n = calls[w].n => v = w
            BY <2>1 DEF WInv, CallsFit
          <5> QED
            BY <2>1, <3>1, <5>1 DEF Opened, Running
        <4> QED
          BY <2>1, <2>3, <4>1, <4>2 DEF PastALook, Excused, MayReplace
      <3> QED
        BY <2>1, <2>3, <3>1, CallMoves
    <2> QED
      BY <1>4, <2>2, <2>3 DEF LookAgain
  <1>5. ASSUME NEW w \in Writers, PutText(w) \/ PutPart(w), Finish(w), told' \in {told, told \cup {calls[w].n}},
               told' # told => PutText(w)
        PROVE  WInv'
    <2>1. PICK f, n, old : f = Target(w) /\ n = calls[w].n /\ old = content[f]
      OBVIOUS
    <2>2. calls[w].pc = "text" /\ Running(w)
      BY <1>5 DEF PutText, PutPart, Running
    <2>3. f \in Targets /\ n \in DOMAIN begun /\ n \in 1 .. MaxWrites /\ f = FileOf(n)
      BY <2>1, <2>2, WorkspaceTypes DEF WInv, CallsFit, Target, FileOf
    <2>4. /\ content \in [Targets -> Texts \cup {None}] /\ old \in Texts
          /\ old.by = {n} => old.text = "empty" \/ n \in told
          /\ old.by # {}
      <3>1. FileStands(n, content[f])
        BY <2>1, <2>2, <2>3 DEF WInv, Stands, Opened
      <3>2. content \in [Targets -> Texts \cup {None}]
        BY DEF WInv, WorkspaceTypeOK
      <3> QED
        BY <2>1, <2>3, <3>1, <3>2 DEF FileStands
    <2>5. n \notin told
      BY <2>1, <2>2 DEF WInv, CallsFit
    <2>6. /\ TextOf(n) \in Texts /\ TextOf(n).by = {n} /\ TextOf(n).text = "whole"
          /\ Mixed(n, old) \in Texts /\ n \in Mixed(n, old).by
          /\ Mixed(n, old).by \subseteq old.by \cup {n}
          /\ old.text # "empty" => Mixed(n, old).by = old.by \cup {n}
      BY <2>3, <2>4, FormsOfText
    <2>7. \/ content' = [content EXCEPT ![f] = TextOf(n)]
          \/ /\ content' = [content EXCEPT ![f] = Mixed(n, old)]
             /\ told' # told => old.text # "empty"
      BY <1>5, <2>1, <2>3, <2>4 DEF PutText, PutPart
    <2>8. PICK c \in Texts :
             /\ content' = [content EXCEPT ![f] = c]
             /\ n \in c.by /\ c.by \subseteq old.by \cup {n}
             /\ c.by = {n} /\ told' # told => c.text = "whole"
      <3>1. CASE content' = [content EXCEPT ![f] = TextOf(n)]
        BY <2>6, <3>1
      <3>2. CASE content' = [content EXCEPT ![f] = Mixed(n, old)] /\ (told' # told => old.text # "empty")
        <4>1. ASSUME Mixed(n, old).by = {n}, told' # told PROVE FALSE
          BY <2>4, <2>5, <2>6, <3>2, <4>1
        <4> QED
          BY <2>6, <3>2, <4>1
      <3> QED
        BY <2>7, <3>1, <3>2
    <2> QED
      BY <1>5, <2>1, <2>2, <2>3, <2>8, FinishKeeps
  <1>6. ASSUME NEW w \in Writers, Fail(w) PROVE WInv'
    <2>1. Running(w) /\ Raise(w) /\ Finish(w) /\ told' = told
      BY <1>6 DEF Fail, Raise, Running
    <2>2. CASE UNCHANGED content
      BY <1>2, <2>1, <2>2
    <2>3. CASE PutPart(w) \/ PutText(w)
      BY <1>5, <2>1, <2>3
    <2> QED
      BY <1>6, <2>2, <2>3 DEF Fail
  <1>7. ASSUME NEW w \in Writers, WriteText(w) PROVE WInv'
    BY <1>5, <1>7 DEF WriteText
  <1> QED
    BY <1>1, <1>3, <1>4, <1>6, <1>7, BeginKeeps, OpenKeeps DEF WorkspaceNext

\* The invariant of the workspace holds of every behaviour of its callers.
THEOREM WorkspaceInductive == WorkspaceSpec => []WInv
  BY InitWorkspace, WorkspaceSteps, PTL DEF WorkspaceSpec

\* Every variable of the workspace keeps its type.
THEOREM WorkspaceTyped == WorkspaceSpec => []WorkspaceTypeOK
  <1>1. WInv => WorkspaceTypeOK
    BY DEF WInv
  <1> QED
    BY <1>1, WorkspaceInductive, PTL

\* Any number of callers: what one of them was told is written is there whole and alone,
\* or the file shows others, each of which overlapped that call in time or asked to
\* overwrite, outside the vault.
THEOREM OnlyLostForCause == WorkspaceSpec => []LossNeedsCause
  <1>1. WInv => LossNeedsCause
    <2> SUFFICES ASSUME WInv, NEW a \in told
                 PROVE  \/ content[FileOf(a)] = TextOf(a)
                        \/ /\ content[FileOf(a)].by \ {a} # {}
                           /\ \A m \in content[FileOf(a)].by \ {a} : Excused(m, a)
      BY DEF LossNeedsCause, Excused, FileOf
    <2>1. a \in DOMAIN begun /\ FileOf(a) \in Targets /\ FileStands(a, content[FileOf(a)])
      BY WorkspaceTypes DEF WInv, WorkspaceTypeOK, Opened, Stands
    <2>2. content[FileOf(a)] \in Texts
      BY <2>1, WorkspaceTypes DEF WInv, FileStands
    <2>3. CASE content[FileOf(a)].by = {a}
      BY <2>1, <2>2, <2>3 DEF FileStands, TextOf, Texts
    <2>4. CASE content[FileOf(a)].by # {a}
      BY <2>1, <2>4 DEF FileStands
    <2> QED
      BY <2>3, <2>4
  <1> QED
    BY <1>1, WorkspaceInductive, PTL

\* A vault file that was written is whole, nobody gets past the look at it, and who has
\* opened a file finds it empty.
VaultInv ==
    /\ \A a \in told : FileOf(a) \in Vault =>
          /\ content[FileOf(a)] = TextOf(a)
          /\ \A w \in Writers : Running(w) /\ Target(w) = FileOf(a) => calls[w].pc = "look"
    /\ \A w \in Writers : calls[w].pc = "text" => content[Target(w)] = Emptied(calls[w].n)

\* What docs/ARCHITECTURE.md:148 says of the vault holds of callers that take turns: it
\* takes two that look before either writes to replace what is there.
THEOREM AloneVaultIsFinal ==
    ASSUME \A v, w \in Writers : v = w
    PROVE  WorkspaceSpec => []VaultIsFinal
  <1>1. WorkspaceInit => VaultInv
    BY DEF WorkspaceInit, VaultInv, Idle
  <1>2. ASSUME WInv, VaultInv, [WorkspaceNext]_workspaceVars PROVE VaultInv'
    <2>0. /\ Len(begun) \in Nat /\ DOMAIN begun = 1 .. Len(begun)
          /\ calls \in [Writers -> [pc : Places, n : 0 .. MaxWrites]]
          /\ content \in [Targets -> Texts \cup {None}]
          /\ \A b \in told : b \in DOMAIN begun /\ FileOf(b) \in Targets
          /\ \A w \in Writers : Running(w) =>
                calls[w].n \in DOMAIN begun /\ Target(w) \in Targets /\ calls[w].n \notin told
      BY <1>2, WorkspaceTypes DEF WInv, WorkspaceTypeOK, CallsFit, Target, FileOf
    <2>1. CASE UNCHANGED workspaceVars
      BY <1>2, <2>1 DEF workspaceVars, VaultInv, FileOf, Running, Target
    <2>2. ASSUME NEW w \in Writers, NEW g \in Targets, NEW overwrite \in BOOLEAN,
                 Begin(w, g, overwrite)
          PROVE  VaultInv'
      <3>1. PICK c : c = [pc |-> "look", n |-> Len(begun) + 1]
        OBVIOUS
      <3>2. /\ calls' = [calls EXCEPT ![w] = c] /\ c.pc = "look"
            /\ UNCHANGED <<content, told>>
        BY <2>2, <3>1 DEF Begin
      <3>3. calls'[w].pc = "look" /\ \A v \in Writers : v = w
        BY <2>0, <3>2
      <3>4. ASSUME NEW a \in told PROVE FileOf(a)' = FileOf(a)
        BY <2>0, <2>2 DEF Begin, FileOf
      <3> QED
        BY <1>2, <3>2, <3>3, <3>4 DEF VaultInv
    <2>3. ASSUME NEW w \in Writers, Raise(w), Running(w), UNCHANGED content \/ calls[w].pc = "text",
                 \A g \in Targets \ {Target(w)} : content'[g] = content[g]
          PROVE  VaultInv'
      <3>1. ~ Running(w)' /\ calls'[w].pc # "text" /\ UNCHANGED <<begun, told>> /\ \A v \in Writers : v = w
        BY <2>0, <2>3 DEF Raise, Finish, Idle, Running
      <3>2. ASSUME NEW a \in told, FileOf(a) \in Vault PROVE content'[FileOf(a)] = TextOf(a)
        BY <1>2, <2>0, <2>3, <3>2 DEF VaultInv
      <3> QED
        BY <3>1, <3>2 DEF VaultInv, FileOf
    <2>4. ASSUME NEW w \in Writers, NEW pc2 \in {"look again", "open", "text"}, Goto(w, pc2), Running(w),
                 \/ ~ Exists(Target(w)) /\ UNCHANGED content
                 \/ ~ Final(w) /\ UNCHANGED content
                 \/ calls[w].pc # "look" /\ \A g \in Targets \ {Target(w)} : content'[g] = content[g],
                 pc2 = "text" => content'[Target(w)] = Emptied(calls[w].n)
          PROVE  VaultInv'
      <3>1. ASSUME NEW a \in told, FileOf(a) \in Vault
            PROVE  content'[FileOf(a)] = TextOf(a) /\ Target(w) # FileOf(a)
        <4>1. content[FileOf(a)] = TextOf(a) /\ (Target(w) = FileOf(a) => calls[w].pc = "look")
          BY <1>2, <2>4, <3>1 DEF VaultInv
        <4>2. TextOf(a) # None
          <5>1. a \in 1 .. MaxWrites
            BY <1>2, <2>0, WorkspaceTypes DEF WInv
          <5>2. TextOf(a) \in Texts
            BY <5>1 DEF TextOf, Texts
          <5> QED
            BY <5>2, WorkspaceAssumption
        <4>3. Target(w) # FileOf(a)
          BY <2>4, <3>1, <4>1, <4>2 DEF Exists, Final
        <4> QED
          BY <2>0, <2>4, <3>1, <4>1, <4>3
      <3>2. /\ Target(w)' = Target(w) /\ calls'[w].pc = pc2 /\ calls'[w].n = calls[w].n
            /\ UNCHANGED <<begun, told>> /\ \A v \in Writers : v = w
        BY <2>0, <2>4 DEF Goto, Target
      <3>3. ASSUME NEW a \in told', (FileOf(a) \in Vault)', NEW v \in Writers
            PROVE  /\ (content[FileOf(a)] = TextOf(a))'
                   /\ (Running(v) /\ Target(v) = FileOf(a) => calls[v].pc = "look")'
        <4>1. a \in told /\ FileOf(a)' = FileOf(a) /\ v = w
          BY <2>4, <3>2, <3>3 DEF FileOf
        <4> QED
          BY <3>1, <3>2, <3>3, <4>1 DEF TextOf
      <3>4. ASSUME NEW v \in Writers, calls'[v].pc = "text"
            PROVE  content'[Target(v)'] = Emptied(calls'[v].n)
        BY <2>4, <3>2, <3>4
      <3> QED
        BY <2>4, <3>2, <3>3, <3>4 DEF VaultInv
    <2>5. ASSUME NEW w \in Writers, WriteText(w)
          PROVE  VaultInv'
      <3> PICK n : n = calls[w].n
        OBVIOUS
      <3>0. /\ FileOf(n) = Target(w) /\ calls[w].pc = "text" /\ Running(w)
            /\ UNCHANGED begun /\ told' = told \cup {n}
        BY <2>5 DEF WriteText, PutText, Finish, Running, Target, FileOf
      <3>6. content[FileOf(n)] = Emptied(n)
        BY <1>2, <3>0 DEF VaultInv
      <3>1. /\ FileOf(n) = Target(w) /\ calls[w].pc = "text" /\ Running(w)
            /\ n \in DOMAIN begun /\ FileOf(n) \in Targets /\ n \notin told
            /\ content[FileOf(n)].text = "empty"
            /\ UNCHANGED begun /\ told' = told \cup {n}
        BY <2>0, <3>0, <3>6 DEF Emptied
      <3>2. content' = [content EXCEPT ![FileOf(n)] = TextOf(n)]
        BY <2>5, <3>1 DEF WriteText, PutText
      <3>3. ~ Running(w)' /\ calls'[w].pc # "text" /\ \A v \in Writers : v = w
        BY <2>0, <2>5 DEF WriteText, Finish, Idle, Running
      <3>4. ASSUME NEW a \in told', FileOf(a) \in Vault PROVE content'[FileOf(a)] = TextOf(a)
        <4>1. CASE a = n
          BY <2>0, <3>1, <3>2, <4>1
        <4>2. CASE a # n
          <5>1. a \in told /\ content[FileOf(a)] = TextOf(a) /\ FileOf(a) # FileOf(n)
            BY <1>2, <3>1, <3>4, <4>2 DEF VaultInv
          <5> QED
            BY <2>0, <3>2, <5>1
        <4> QED
          BY <4>1, <4>2
      <3> QED
        BY <3>1, <3>3, <3>4 DEF VaultInv, FileOf
    <2>6. ASSUME NEW w \in Writers,
                 \/ Look(w) \/ LookAgain(w) \/ Open(w) \/ Fail(w)
          PROVE  VaultInv'
      <3>1. CASE Raise(w) /\ Running(w) /\ UNCHANGED content
        BY <2>3, <3>1
      <3>2. CASE Look(w) /\ Goto(w, "look again") /\ ~ (Final(w) /\ Exists(Target(w)))
        BY <2>4, <3>2 DEF Look, Running
      <3>3. CASE LookAgain(w) /\ Goto(w, "open")
        BY <2>4, <3>3 DEF LookAgain, Running
      <3>4. CASE Open(w)
        <4>1. Running(w) /\ Goto(w, "text") /\ calls[w].pc # "look"
          BY <3>4 DEF Open, Running
        <4>2. /\ content'[Target(w)] = Emptied(calls[w].n)
              /\ \A g \in Targets \ {Target(w)} : content'[g] = content[g]
          BY <2>0, <3>4, <4>1 DEF Open
        <4> QED
          BY <2>4, <4>1, <4>2
      <3>5. CASE Fail(w)
        <4>1. /\ Running(w) /\ Raise(w)
              /\ UNCHANGED content \/ calls[w].pc = "text"
          BY <3>5 DEF Fail, PutPart, PutText, Running
        <4>2. \A g \in Targets \ {Target(w)} : content'[g] = content[g]
          BY <2>0, <3>5, <4>1 DEF Fail, PutPart, PutText
        <4> QED
          BY <2>3, <4>1, <4>2
      <3> QED
        BY <2>6, <3>1, <3>2, <3>3, <3>4, <3>5 DEF Look, LookAgain, Running
    <2>7. CASE WorkspaceNext
      BY <2>2, <2>5, <2>6, <2>7 DEF WorkspaceNext
    <2> QED
      BY <1>2, <2>1, <2>7
  <1>3. VaultInv => VaultIsFinal
    BY DEF VaultInv, VaultIsFinal, FileOf
  <1> QED
    BY <1>1, <1>2, <1>3, WorkspaceInductive, PTL DEF WorkspaceSpec
=============================================================================
