--------------------------- MODULE BoundedCapture ---------------------------
(***************************************************************************)
(* DockerSandboxExecutor._run_bounded: a child process (the docker client; *)
(* the container behind it is not modelled), one thread per output stream  *)
(* that keeps what it writes up to a limit, and a main loop that polls for *)
(* the end of the child, for an overflow and for the deadline, and may     *)
(* have to kill the child.                                                 *)
(*                                                                         *)
(* Output is counted in units.  A thread reads Chunk units at a time: less *)
(* only when the stream has ended.  The limit is a multiple of the chunk,  *)
(* as 4194304 is of 65536.                                                 *)
(***************************************************************************)
EXTENDS Integers

CONSTANTS
    Limit,     \* MAX_CAPTURE_BYTES, in units
    Chunk,     \* the size of a read, in units
    PipeSize,  \* what a pipe holds
    MaxOutput, \* bound: what the child writes to a stream at most
    None

VARIABLES
    child,   \* "running", "dead"; with its exit code when it is dead
    open,    \* stream -> the child has not closed it
    late,    \* the deadline has passed
    wrote,   \* stream -> units written
    pipe,    \* stream -> units in the pipe
    drain,   \* stream -> the capture thread: reading, or done (and the pipe closed)
    buffer,  \* stream -> units kept
    marked,  \* the marker was appended to stderr
    overflow,
    main,    \* where the main thread is
    termination,
    result,  \* the exit code that was returned
    gaveUp   \* history: a capture thread was still busy when the joins timed out

vars == <<child, open, late, wrote, pipe, drain, buffer, marked, overflow, main, termination, result,
          gaveUp>>

Streams == {"stdout", "stderr"}

ASSUME CaptureAssumption ==
    /\ {Chunk, PipeSize} \subseteq Nat \ {0}
    /\ {Limit, MaxOutput} \subseteq Nat
    /\ Limit % Chunk = 0

Points == {"poll", "check", "remove", "wait", "insist", "join", "mark", "return", "returned", "raised"}

Reasons == {"output limit exceeded", "execution timeout", "executor cleanup timeout"}

Running == [state |-> "running", code |-> 0]

\* Exit codes: success, a failure, the signal of kill().
Dead(code) == [state |-> "dead", code |-> code]

Init ==
    /\ child = Running
    /\ open = [s \in Streams |-> TRUE]
    /\ late = FALSE
    /\ wrote = [s \in Streams |-> 0]
    /\ pipe = [s \in Streams |-> 0]
    /\ drain = [s \in Streams |-> "reading"]
    /\ buffer = [s \in Streams |-> 0]
    /\ marked = FALSE
    /\ overflow = FALSE
    /\ main = "poll"
    /\ termination = None
    /\ result = None
    /\ gaveUp = FALSE

----------------------------------------------------------------------------
(* The child                                                               *)

ChildWrites(s) ==
    /\ child = Running
    /\ open[s] /\ wrote[s] < MaxOutput
    /\ drain[s] = "reading" /\ pipe[s] < PipeSize
    /\ wrote' = [wrote EXCEPT ![s] = @ + 1]
    /\ pipe' = [pipe EXCEPT ![s] = @ + 1]
    /\ UNCHANGED <<child, open, late, drain, buffer, marked, overflow, main, termination, result, gaveUp>>

ChildCloses(s) ==
    /\ child = Running /\ open[s]
    /\ open' = [open EXCEPT ![s] = FALSE]
    /\ UNCHANGED <<child, late, wrote, pipe, drain, buffer, marked, overflow, main, termination, result, gaveUp>>

\* It ends with any code, of itself or because nobody reads its output any more.
ChildEnds ==
    /\ child = Running
    /\ child' \in {Dead(0), Dead(1)}
    /\ UNCHANGED <<open, late, wrote, pipe, drain, buffer, marked, overflow, main, termination, result, gaveUp>>

DeadlinePasses ==
    /\ ~ late
    /\ late' = TRUE
    /\ UNCHANGED <<child, open, wrote, pipe, drain, buffer, marked, overflow, main, termination, result, gaveUp>>

----------------------------------------------------------------------------
(* The capture threads                                                     *)

Smaller(x, y) == IF x < y THEN x ELSE y

Kept(size, remaining) == Smaller(size, remaining)

\* read() returns a full chunk, or what is left when the stream has ended.
Available(s) ==
    IF pipe[s] >= Chunk THEN {Chunk}
    ELSE IF child # Running \/ ~ open[s] THEN {pipe[s]} ELSE {}

Drain(s) ==
    /\ drain[s] = "reading"
    /\ \E size \in Available(s) :
          LET remaining == Limit - buffer[s]
          IN  /\ pipe' = [pipe EXCEPT ![s] = @ - size]
              /\ buffer' = [buffer EXCEPT ![s] = @ + Kept(size, remaining)]
              /\ overflow' = (overflow \/ size > remaining)
              /\ drain' = [drain EXCEPT ![s] =
                              IF size = 0 \/ size > remaining THEN "done" ELSE @]
    /\ UNCHANGED <<child, open, late, wrote, marked, main, termination, result, gaveUp>>

----------------------------------------------------------------------------
(* The main thread                                                         *)

\* `while proc.poll() is None', then the body of the loop; the child may end and
\* the overflow may be found between the two.
Poll ==
    /\ main = "poll"
    /\ main' = IF child = Running THEN "check" ELSE "wait"
    /\ UNCHANGED <<child, open, late, wrote, pipe, drain, buffer, marked, overflow, termination, result, gaveUp>>

\* Mutant: the deadline is only looked at when there is no output left to read.
DueWhenQuiet == late /\ \A s \in Streams : drain[s] = "done"

Due == late

Check ==
    /\ main = "check"
    /\ \/ /\ overflow
          /\ termination' = "output limit exceeded" /\ main' = "remove"
       \/ /\ ~ overflow /\ Due
          /\ termination' = "execution timeout" /\ main' = "remove"
       \/ /\ ~ overflow /\ ~ Due
          /\ main' = "poll" /\ UNCHANGED termination
    /\ UNCHANGED <<child, open, late, wrote, pipe, drain, buffer, marked, overflow, result, gaveUp>>

\* docker rm -f may fail; kill() is sent to a client that still runs, and takes
\* effect at once or not within the five seconds of the wait.
Killed == IF child = Running THEN Dead(137) ELSE child

Remove ==
    /\ main = "remove"
    /\ child' \in {Killed, child}
    /\ main' = "wait"
    /\ UNCHANGED <<open, late, wrote, pipe, drain, buffer, marked, overflow, termination, result, gaveUp>>

\* proc.wait(timeout=5)
Wait ==
    /\ main = "wait"
    /\ IF child # Running
       THEN main' = "join" /\ UNCHANGED <<child, termination>>
       ELSE /\ main' = "insist"
            /\ child' \in {Killed, child}
            /\ UNCHANGED termination
    /\ UNCHANGED <<open, late, wrote, pipe, drain, buffer, marked, overflow, result, gaveUp>>

\* Mutant: the second time-out is ignored.
InsistNoMore ==
    /\ main = "insist"
    /\ main' = "join"
    /\ termination' = IF termination = None THEN "executor cleanup timeout" ELSE termination
    /\ UNCHANGED <<child, open, late, wrote, pipe, drain, buffer, marked, overflow, result, gaveUp>>

\* The second wait raises when the child is still there.
Insist ==
    /\ main = "insist"
    /\ IF child # Running
       THEN /\ main' = "join"
            /\ termination' = IF termination = None THEN "executor cleanup timeout"
                              ELSE termination
       ELSE main' = "raised" /\ UNCHANGED termination
    /\ UNCHANGED <<child, open, late, wrote, pipe, drain, buffer, marked, overflow, result, gaveUp>>

\* Mutant: the threads are not waited for.
DrainedNever == TRUE

Drained == \A s \in Streams : drain[s] = "done"

\* thread.join(timeout=2), for both, whether they have ended or not.
Join ==
    /\ main = "join"
    /\ gaveUp' = ~ Drained
    /\ main' = IF termination = None THEN "return" ELSE "mark"
    /\ UNCHANGED <<child, open, late, wrote, pipe, drain, buffer, marked, overflow, termination, result>>

\* The marker is shown, if only in part.
HasRoom == Limit - buffer["stderr"] > 0

\* The marker is one unit; it is cut if there is no room.
Mark ==
    /\ main = "mark"
    /\ marked' = HasRoom
    /\ buffer' = [buffer EXCEPT !["stderr"] = @ + Kept(1, Limit - @)]
    /\ main' = "return"
    /\ UNCHANGED <<child, open, late, wrote, pipe, drain, overflow, termination, result, gaveUp>>

\* Mutant: only the time-out has a code of its own.
CodeOfChild == IF termination = "execution timeout" THEN 124 ELSE child.code

Code ==
    IF termination = "execution timeout" THEN 124
    ELSE IF termination # None THEN 125
    ELSE child.code

Return ==
    /\ main = "return"
    /\ result' = Code
    /\ main' = "returned"
    /\ UNCHANGED <<child, open, late, wrote, pipe, drain, buffer, marked, overflow, termination, gaveUp>>

Main == Poll \/ Check \/ Remove \/ Wait \/ Insist \/ Join \/ Mark \/ Return

Next ==
    \/ \E s \in Streams : ChildWrites(s) \/ ChildCloses(s) \/ Drain(s)
    \/ ChildEnds
    \/ DeadlinePasses
    \/ Main

Spec == Init /\ [][Next]_vars

\* The threads run and time passes.  Nothing is assumed of the child.
FairSpec ==
    Spec /\ WF_vars(Main) /\ WF_vars(DeadlinePasses) /\ \A s \in Streams : WF_vars(Drain(s))

----------------------------------------------------------------------------
(* Properties                                                              *)

\* Every variable holds a value of its type, and no buffer outgrows the limit,
\* whatever both threads and the marker add.
TypeOK ==
    /\ child \in [state : {"running", "dead"}, code : {0, 1, 137}]
    /\ open \in [Streams -> BOOLEAN]
    /\ late \in BOOLEAN /\ marked \in BOOLEAN /\ overflow \in BOOLEAN /\ gaveUp \in BOOLEAN
    /\ wrote \in [Streams -> 0 .. MaxOutput]
    /\ pipe \in [Streams -> 0 .. PipeSize]
    /\ drain \in [Streams -> {"reading", "done"}]
    /\ buffer \in [Streams -> 0 .. Limit]
    /\ main \in Points
    /\ termination \in Reasons \cup {None}
    /\ result \in {0, 1, 124, 125, 137, None}

Marks(s) == IF s = "stderr" /\ marked THEN 1 ELSE 0

\* When the capture threads have ended in time, a run that returns has kept of each
\* stream all that was written, or as much as the limit allows: no chunk is lost
\* between the end of the child and the return.  A timed-out or stopped stream
\* keeps its beginning.
NothingIsMissing ==
    main = "returned" /\ ~ gaveUp =>
        \A s \in Streams :
            buffer[s] - Marks(s) = Smaller(wrote[s], Limit)

\* Nobody goes on to read the output and the exit code of a child that may still
\* run, also when it had to be killed twice.
ReturnedIsDead == main \in {"join", "mark", "return"} => child # Running

\* A code of success is the child's own, and never one of a run that was stopped.
SuccessIsOwn ==
    main = "returned" /\ result = 0 => child = Dead(0) /\ termination = None

\* Every run returns or raises, whatever the child does with its streams.
RunsEnd == <>(main \in {"returned", "raised"})

\* tests/test_container_executor.py:79: an output over the limit makes the
\* execution fail.
OverflowFailsClosed ==
    main = "returned" /\ (\E s \in Streams : wrote[s] > Limit) => result # 0
=============================================================================
