------------------------ MODULE BoundedCaptureProofs ------------------------
(***************************************************************************)
(* What BoundedCapture promises of every limit, chunk and pipe size: the   *)
(* types, that a child is dead before its exit code is used, that success  *)
(* is the child's own, and that no output is lost.                         *)
(***************************************************************************)
EXTENDS BoundedCapture, TLAPS

\* What a child can be.
Children == {Running, Dead(0), Dead(1), Dead(137)}

\* Before the joins are over.
Early == {"poll", "check", "remove", "wait", "insist", "join", "raised"}

\* Where the accounts of a stream stand as long as no join has timed out: nothing
\* was lost before its thread ended, and a thread ends at the end of the output or
\* with a full buffer.
Accounts(s) ==
    /\ drain[s] = "reading" => main \in Early /\ wrote[s] = pipe[s] + buffer[s]
    /\ drain[s] = "done" =>
          \/ wrote[s] = buffer[s] - Marks(s)
          \/ wrote[s] > Limit /\ buffer[s] = Limit /\ Marks(s) = 0

\* The inductive invariant.
IInv ==
    /\ TypeOK
    /\ child \in Children
    /\ ReturnedIsDead
    /\ SuccessIsOwn
    /\ main \in Early => ~ gaveUp /\ ~ marked
    /\ main = "mark" => ~ marked
    /\ main = "returned" => child # Running
    /\ ~ gaveUp => \A s \in Streams : Accounts(s)

LEMMA SmallerIsWithin ==
    ASSUME NEW x \in Nat, NEW y \in Nat
    PROVE  /\ Smaller(x, y) \in Nat /\ Smaller(x, y) <= x /\ Smaller(x, y) <= y
           /\ x <= y => Smaller(x, y) = x
           /\ x > y => Smaller(x, y) = y
  BY DEF Smaller

LEMMA ChildIsTyped ==
    ASSUME child \in Children
    PROVE  /\ child \in [state : {"running", "dead"}, code : {0, 1, 137}]
           /\ child # Running /\ child.code = 0 => child = Dead(0)
           /\ Killed \in Children \ {Running}
           /\ child # Running => Killed = child
  <1>1. \A c \in {0, 1, 137} : /\ Dead(c) # Running /\ Dead(c).code = c
                               /\ Dead(c) \in [state : {"running", "dead"}, code : {0, 1, 137}]
    BY DEF Dead, Running
  <1>2. Running \in [state : {"running", "dead"}, code : {0, 1, 137}]
    BY DEF Running
  <1>3. child = Running \/ \E c \in {0, 1, 137} : child = Dead(c)
    BY DEF Children
  <1>4. Killed = IF child = Running THEN Dead(137) ELSE child
    BY DEF Killed
  <1>5. CASE child = Running
    BY <1>1, <1>2, <1>4, <1>5 DEF Children
  <1>6. CASE child # Running
    <2>1. PICK c \in {0, 1, 137} : child = Dead(c)
      BY <1>3, <1>6
    <2> QED
      BY <1>1, <1>4, <1>6, <2>1 DEF Children
  <1> QED
    BY <1>5, <1>6

LEMMA DeadIsNotRunning == \A c \in {0, 1, 137} : Dead(c) # Running
  BY DEF Dead, Running

\* The initial state is in the invariant.
LEMMA InitHolds == Init => IInv
  <1> SUFFICES ASSUME Init PROVE IInv
    OBVIOUS
  <1>0. /\ Limit \in Nat /\ MaxOutput \in Nat /\ PipeSize \in Nat
        /\ \A n \in Nat : [s \in Streams |-> 0] \in [Streams -> 0 .. n]
    BY CaptureAssumption
  <1>1. child \in Children
    BY DEF Init, Children
  <1>2. TypeOK
    <2>1. child \in [state : {"running", "dead"}, code : {0, 1, 137}]
      BY DEF Init, Running
    <2> QED
      BY <2>1, <1>0 DEF Init, TypeOK, Points
  <1>3. \A s \in Streams : Accounts(s)
    BY DEF Init, Accounts, Early, Streams
  <1> QED
    BY <1>1, <1>2, <1>3 DEF Init, IInv, ReturnedIsDead, SuccessIsOwn, Early

\* What the child does to its streams.
LEMMA WritesKeep ==
    ASSUME IInv, NEW s \in Streams, ChildWrites(s)
    PROVE  IInv'
  <1>0. Limit \in Nat /\ MaxOutput \in Nat /\ PipeSize \in Nat
    BY CaptureAssumption
  <1>1. wrote' \in [Streams -> 0 .. MaxOutput] /\ pipe' \in [Streams -> 0 .. PipeSize]
    BY <1>0 DEF ChildWrites, IInv, TypeOK
  <1>2. TypeOK'
    BY <1>1 DEF ChildWrites, IInv, TypeOK
  <1>3. ASSUME ~ gaveUp', NEW x \in Streams PROVE Accounts(x)'
    <2>1. Accounts(x)
      BY <1>3 DEF IInv, ChildWrites
    <2>2. CASE x = s
      <3>1. wrote'[x] = wrote[x] + 1 /\ pipe'[x] = pipe[x] + 1
        BY <2>2 DEF ChildWrites, IInv, TypeOK
      <3>2. wrote[x] \in Int /\ pipe[x] \in Int /\ buffer[x] \in Int
        BY <1>0 DEF IInv, TypeOK
      <3> QED
        BY <2>1, <2>2, <3>1, <3>2 DEF ChildWrites, Accounts
    <2>3. CASE x # s
      BY <2>1, <2>3 DEF ChildWrites, Accounts, Marks, IInv, TypeOK
    <2> QED
      BY <2>2, <2>3
  <1> QED
    BY <1>2, <1>3 DEF ChildWrites, IInv, ReturnedIsDead, SuccessIsOwn

LEMMA ClosesKeep ==
    ASSUME IInv, NEW s \in Streams, ChildCloses(s)
    PROVE  IInv'
  <1>1. open' \in [Streams -> BOOLEAN]
    BY DEF ChildCloses, IInv, TypeOK
  <1>2. TypeOK'
    BY <1>1 DEF ChildCloses, IInv, TypeOK
  <1>3. ~ gaveUp' => \A x \in Streams : Accounts(x)'
    BY DEF ChildCloses, IInv, Accounts, Marks
  <1> QED
    BY <1>2, <1>3 DEF ChildCloses, IInv, ReturnedIsDead, SuccessIsOwn

LEMMA EndsKeep ==
    ASSUME IInv, ChildEnds
    PROVE  IInv'
  <1>1. child' \in Children /\ child' # Running
    BY DeadIsNotRunning DEF ChildEnds, Children
  <1>2. child' \in [state : {"running", "dead"}, code : {0, 1, 137}]
    BY DEF ChildEnds, Dead
  <1>3. TypeOK'
    BY <1>2 DEF ChildEnds, IInv, TypeOK
  <1>4. ~ gaveUp' => \A x \in Streams : Accounts(x)'
    BY DEF ChildEnds, IInv, Accounts, Marks
  <1> QED
    BY <1>1, <1>3, <1>4 DEF ChildEnds, IInv, ReturnedIsDead, SuccessIsOwn

LEMMA DeadlineKeeps ==
    ASSUME IInv, DeadlinePasses
    PROVE  IInv'
  <1>1. TypeOK'
    BY DEF DeadlinePasses, IInv, TypeOK
  <1>2. ~ gaveUp' => \A x \in Streams : Accounts(x)'
    BY DEF DeadlinePasses, IInv, Accounts, Marks
  <1> QED
    BY <1>1, <1>2 DEF DeadlinePasses, IInv, ReturnedIsDead, SuccessIsOwn

\* A read moves what it keeps from the pipe to the buffer, and ends the thread when
\* it found the end or had no room.
LEMMA DrainKeeps ==
    ASSUME IInv, NEW s \in Streams, Drain(s)
    PROVE  IInv'
  <1>0. /\ Limit \in Nat /\ MaxOutput \in Nat /\ PipeSize \in Nat /\ Chunk \in Nat /\ Chunk # 0
        /\ pipe[s] \in 0 .. PipeSize /\ buffer[s] \in 0 .. Limit /\ wrote[s] \in 0 .. MaxOutput
    BY CaptureAssumption DEF IInv, TypeOK
  <1>1. PICK size \in Available(s) :
            /\ pipe' = [pipe EXCEPT ![s] = @ - size]
            /\ buffer' = [buffer EXCEPT ![s] = @ + Kept(size, Limit - buffer[s])]
            /\ drain' = [drain EXCEPT ![s] =
                            IF size = 0 \/ size > Limit - buffer[s] THEN "done" ELSE @]
            /\ overflow' = (overflow \/ size > Limit - buffer[s])
    BY DEF Drain
  <1>2. size \in Nat /\ size <= pipe[s] /\ (size = 0 => pipe[s] = 0)
    BY <1>0, <1>1 DEF Available
  <1> DEFINE kept == Kept(size, Limit - buffer[s])
  <1>3. /\ kept \in Nat /\ kept <= size /\ kept <= Limit - buffer[s]
        /\ size <= Limit - buffer[s] => kept = size
        /\ size > Limit - buffer[s] => kept = Limit - buffer[s]
    <2>1. Limit - buffer[s] \in Nat
      BY <1>0
    <2> QED
      BY <1>2, <2>1, SmallerIsWithin DEF Kept
  <1>4. /\ pipe'[s] = pipe[s] - size /\ buffer'[s] = buffer[s] + kept
        /\ drain'[s] = IF size = 0 \/ size > Limit - buffer[s] THEN "done" ELSE drain[s]
        /\ \A x \in Streams \ {s} : pipe'[x] = pipe[x] /\ buffer'[x] = buffer[x] /\ drain'[x] = drain[x]
    BY <1>1 DEF IInv, TypeOK
  <1>5. TypeOK'
    <2>1. pipe[s] - size \in 0 .. PipeSize /\ buffer[s] + kept \in 0 .. Limit
      BY <1>0, <1>2, <1>3
    <2>2. pipe' \in [Streams -> 0 .. PipeSize]
      BY <1>1, <2>1 DEF IInv, TypeOK
    <2>3. buffer' \in [Streams -> 0 .. Limit]
      <3> HIDE DEF kept
      <3>1. buffer' = [buffer EXCEPT ![s] = buffer[s] + kept]
        BY <1>1 DEF kept
      <3> QED
        BY <2>1, <3>1 DEF IInv, TypeOK
    <2>4. drain' \in [Streams -> {"reading", "done"}]
      BY <1>1 DEF IInv, TypeOK
    <2>5. overflow' \in BOOLEAN
      BY <1>1 DEF IInv, TypeOK
    <2> QED
      BY <2>2, <2>3, <2>4, <2>5 DEF Drain, IInv, TypeOK
  <1>6. ASSUME ~ gaveUp', NEW x \in Streams PROVE Accounts(x)'
    <2>1. Accounts(x) /\ Accounts(s) /\ ~ gaveUp
      BY <1>6 DEF IInv, Drain
    <2>2. CASE x # s
      BY <1>4, <2>1, <2>2 DEF Drain, Accounts, Marks
    <2>3. CASE x = s
      <3>1. main \in Early /\ wrote[s] = pipe[s] + buffer[s] /\ ~ marked
        BY <2>1 DEF Drain, Accounts, IInv
      <3>2. Marks(s)' = 0
        BY <3>1 DEF Marks, Drain
      <3>3. wrote'[s] = wrote[s] /\ main' = main
        BY DEF Drain
      <3>4. drain[s] = "reading"
        BY DEF Drain
      <3>5. CASE size = 0
        BY <1>0, <1>2, <1>3, <1>4, <2>3, <3>1, <3>2, <3>3, <3>5 DEF Accounts
      <3>6. CASE size > Limit - buffer[s]
        BY <1>0, <1>2, <1>3, <1>4, <2>3, <3>1, <3>2, <3>3, <3>6 DEF Accounts
      <3>7. CASE size # 0 /\ size <= Limit - buffer[s]
        BY <1>0, <1>2, <1>3, <1>4, <2>3, <3>1, <3>2, <3>3, <3>4, <3>7 DEF Accounts
      <3> QED
        BY <1>0, <1>2, <3>5, <3>6, <3>7
    <2> QED
      BY <2>2, <2>3
  <1> QED
    BY <1>5, <1>6 DEF Drain, IInv, ReturnedIsDead, SuccessIsOwn

\* The steps of the main thread that touch neither streams nor the history.
LEMMA AccountsStay ==
    ASSUME IInv, UNCHANGED <<wrote, pipe, drain, buffer, marked, gaveUp>>,
           main \in Early => main' \in Early
    PROVE  ~ gaveUp' => \A s \in Streams : Accounts(s)'
  BY DEF IInv, Accounts, Marks

LEMMA MainKeeps ==
    ASSUME IInv, Main
    PROVE  IInv'
  <1>0. Limit \in Nat
    BY CaptureAssumption
  <1>t. child \in Children /\ TypeOK
    BY DEF IInv
  <1>1. CASE Poll
    <2>1. main' \in Early
      BY <1>1 DEF Poll, Early
    <2> QED
      BY <1>1, <2>1, AccountsStay DEF Poll, IInv, TypeOK, Points, Early, ReturnedIsDead, SuccessIsOwn
  <1>2. CASE Check
    <2>1. main' \in {"remove", "poll"} /\ termination' \in Reasons \cup {None}
      BY <1>2, <1>t DEF Check, TypeOK, Reasons
    <2>2. UNCHANGED <<child, open, late, wrote, pipe, drain, buffer, marked, overflow, result, gaveUp>>
      BY <1>2 DEF Check
    <2>3. main = "check"
      BY <1>2 DEF Check
    <2>4. TypeOK'
      BY <1>t, <2>1, <2>2 DEF TypeOK, Points
    <2> QED
      BY <2>1, <2>2, <2>3, <2>4, AccountsStay DEF IInv, Early, ReturnedIsDead, SuccessIsOwn
  <1>3. CASE Remove
    <2>1. child' \in Children
      BY <1>3, <1>t, ChildIsTyped DEF Remove
    <2>2. child' \in [state : {"running", "dead"}, code : {0, 1, 137}]
      BY <1>3, <1>t, <2>1, ChildIsTyped DEF Remove, Children, Running, Dead
    <2> QED
      BY <1>3, <2>1, <2>2, AccountsStay
         DEF Remove, IInv, TypeOK, Points, Early, ReturnedIsDead, SuccessIsOwn
  <1>4. CASE Wait
    <2>1. child' \in Children /\ main' \in {"join", "insist"} /\ (main' = "join" => child' # Running)
      BY <1>4, <1>t, ChildIsTyped DEF Wait
    <2>2. child' \in [state : {"running", "dead"}, code : {0, 1, 137}]
      BY <2>1 DEF Children, Running, Dead
    <2> QED
      BY <1>4, <2>1, <2>2, AccountsStay
         DEF Wait, IInv, TypeOK, Points, Early, ReturnedIsDead, SuccessIsOwn
  <1>5. CASE Insist
    <2>1. /\ main' \in {"join", "raised"} /\ (main' = "join" => child # Running)
          /\ termination' \in Reasons \cup {None}
      BY <1>5, <1>t DEF Insist, TypeOK, Reasons
    <2>2. UNCHANGED <<child, open, late, wrote, pipe, drain, buffer, marked, overflow, result, gaveUp>>
      BY <1>5 DEF Insist
    <2>3. main = "insist"
      BY <1>5 DEF Insist
    <2>4. TypeOK'
      BY <1>t, <2>1, <2>2 DEF TypeOK, Points
    <2> QED
      BY <2>1, <2>2, <2>3, <2>4, AccountsStay DEF IInv, Early, ReturnedIsDead, SuccessIsOwn
  <1>6. CASE Join
    <2>1. main' \in {"return", "mark"} /\ child # Running
      BY <1>6 DEF Join, IInv, ReturnedIsDead
    <2>2. ASSUME ~ gaveUp', NEW s \in Streams PROVE Accounts(s)'
      <3>1. drain[s] = "done" /\ Accounts(s) /\ ~ gaveUp
        BY <1>6, <2>2 DEF Join, Drained, IInv, Early
      <3> QED
        BY <1>6, <3>1 DEF Join, Accounts, Marks
    <2>3. gaveUp' \in BOOLEAN
      BY <1>6 DEF Join
    <2> QED
      BY <1>6, <2>1, <2>2, <2>3 DEF Join, IInv, TypeOK, Points, Early, ReturnedIsDead, SuccessIsOwn
  <1>7. CASE Mark
    <2>1. buffer["stderr"] \in 0 .. Limit /\ "stderr" \in Streams
      BY <1>t DEF TypeOK, Streams
    <2>2. Kept(1, Limit - buffer["stderr"]) = IF HasRoom THEN 1 ELSE 0
      BY <1>0, <2>1 DEF Kept, Smaller, HasRoom
    <2>3. /\ buffer' = [buffer EXCEPT !["stderr"] = buffer["stderr"] + IF HasRoom THEN 1 ELSE 0]
          /\ marked' = HasRoom
      BY <1>7, <2>2 DEF Mark
    <2>4. buffer' \in [Streams -> 0 .. Limit]
      BY <1>0, <1>t, <2>1, <2>3 DEF TypeOK, HasRoom
    <2>5. ~ marked /\ main' = "return" /\ marked' \in BOOLEAN
      BY <1>7 DEF Mark, IInv, HasRoom
    <2>6. ASSUME ~ gaveUp', NEW s \in Streams PROVE Accounts(s)'
      <3>1. Accounts(s) /\ ~ gaveUp /\ drain[s] \in {"reading", "done"} /\ buffer[s] \in 0 .. Limit
        BY <1>7, <1>t, <2>6 DEF Mark, IInv, TypeOK
      <3>2. drain[s] = "done"
        BY <1>7, <3>1 DEF Accounts, Mark, Early
      <3>3. \/ wrote[s] = buffer[s]
            \/ wrote[s] > Limit /\ buffer[s] = Limit
        BY <2>5, <3>1, <3>2 DEF Accounts, Marks
      <3>4. CASE s = "stderr" /\ HasRoom
        <4>0. marked'
          BY <2>3, <3>4
        <4>1. buffer[s] # Limit
          BY <1>0, <3>1, <3>4 DEF HasRoom
        <4>2. buffer'[s] = buffer[s] + 1
          BY <1>t, <2>1, <2>3, <3>4 DEF TypeOK
        <4>3. Marks(s)' = 1
          BY <3>4, <4>0 DEF Marks
        <4> QED
          BY <1>0, <1>7, <3>1, <3>2, <3>3, <4>1, <4>2, <4>3 DEF Mark, Accounts
      <3>5. CASE s # "stderr" \/ ~ HasRoom
        <4>1. buffer'[s] = buffer[s]
          BY <1>t, <2>1, <2>3, <3>1, <3>5 DEF TypeOK
        <4>2. Marks(s)' = 0
          BY <2>3, <3>5 DEF Marks
        <4> QED
          BY <1>0, <1>7, <3>1, <3>2, <3>3, <4>1, <4>2 DEF Mark, Accounts
      <3> QED
        BY <3>4, <3>5
    <2> QED
      BY <1>7, <2>4, <2>5, <2>6 DEF Mark, IInv, TypeOK, Points, Early, ReturnedIsDead, SuccessIsOwn
  <1>8. CASE Return
    <2>1. child # Running /\ main' = "returned"
      BY <1>8 DEF Return, IInv, ReturnedIsDead
    <2>2. child.code \in {0, 1, 137} /\ (child.code = 0 => child = Dead(0))
      BY <1>t, <2>1, ChildIsTyped
    <2>3. result' \in {0, 1, 124, 125, 137, None}
      <3>1. Code \in {124, 125, child.code}
        BY DEF Code
      <3> QED
        BY <1>8, <2>2, <3>1 DEF Return
    <2>4. SuccessIsOwn'
      <3>1. Code = 0 => termination = None /\ child.code = 0
        <4>1. CASE termination = "execution timeout"
          <5>1. Code = 124
            BY <4>1 DEF Code
          <5> QED
            BY <5>1
        <4>2. CASE termination # "execution timeout" /\ termination # None
          <5>1. Code = 125
            BY <4>2 DEF Code
          <5> QED
            BY <5>1
        <4>3. CASE termination # "execution timeout" /\ termination = None
          BY <4>3 DEF Code
        <4> QED
          BY <4>1, <4>2, <4>3
      <3>2. result' = Code /\ child' = child /\ termination' = termination
        BY <1>8 DEF Return
      <3> QED
        BY <2>2, <3>1, <3>2 DEF SuccessIsOwn
    <2> QED
      BY <1>8, <2>1, <2>3, <2>4, AccountsStay DEF Return, IInv, TypeOK, Points, Early, ReturnedIsDead
  <1> QED
    BY <1>1, <1>2, <1>3, <1>4, <1>5, <1>6, <1>7, <1>8 DEF Main

LEMMA StutterKeeps ==
    ASSUME IInv, UNCHANGED vars
    PROVE  IInv'
  <1>1. TypeOK'
    BY DEF vars, IInv, TypeOK
  <1>2. ~ gaveUp' => \A s \in Streams : Accounts(s)'
    BY DEF vars, IInv, Accounts, Marks
  <1> QED
    BY <1>1, <1>2 DEF vars, IInv, ReturnedIsDead, SuccessIsOwn

\* Every step of the child, the threads and the main loop keeps the invariant.
THEOREM Inductive == Spec => []IInv
  <1>1. ASSUME IInv, [Next]_vars PROVE IInv'
    BY <1>1, WritesKeep, ClosesKeep, DrainKeeps, EndsKeep, DeadlineKeeps, MainKeeps, StutterKeeps DEF Next
  <1> QED
    BY <1>1, InitHolds, PTL DEF Spec

\* Every variable keeps its type and no buffer of _run_bounded outgrows
\* MAX_CAPTURE_BYTES.
THEOREM Typed == Spec => []TypeOK
  <1>1. IInv => TypeOK
    BY DEF IInv
  <1> QED
    BY <1>1, Inductive, PTL

\* _run_bounded reads on and uses the exit code only of a child that is dead.
THEOREM DeadWhenReturned == Spec => []ReturnedIsDead
  <1>1. IInv => ReturnedIsDead
    BY DEF IInv
  <1> QED
    BY <1>1, Inductive, PTL

\* An exit code 0 of _run_bounded is the child's own.
THEOREM OwnSuccess == Spec => []SuccessIsOwn
  <1>1. IInv => SuccessIsOwn
    BY DEF IInv
  <1> QED
    BY <1>1, Inductive, PTL

\* Nothing of the output is lost up to the limit, if the joins did not time out.
THEOREM NothingLost == Spec => []NothingIsMissing
  <1>1. ASSUME IInv PROVE NothingIsMissing
    <2> SUFFICES ASSUME main = "returned", ~ gaveUp, NEW s \in Streams
                 PROVE  buffer[s] - Marks(s) = Smaller(wrote[s], Limit)
      BY DEF NothingIsMissing
    <2>1. /\ Accounts(s) /\ drain[s] \in {"reading", "done"}
          /\ buffer[s] \in 0 .. Limit /\ wrote[s] \in 0 .. MaxOutput
      BY <1>1 DEF IInv, TypeOK
    <2>2. Limit \in Nat /\ MaxOutput \in Nat
      BY CaptureAssumption
    <2>3. Marks(s) \in {0, 1}
      BY DEF Marks
    <2> QED
      BY <2>1, <2>2, <2>3 DEF Accounts, Early, Smaller
  <1> QED
    BY <1>1, Inductive, PTL
=============================================================================
