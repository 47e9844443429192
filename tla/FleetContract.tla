--------------------------- MODULE FleetContract ---------------------------
(***************************************************************************)
(* What the fleet coordinator promises about every job, without the clock, *)
(* the tokens, the priorities and the columns by which it keeps the        *)
(* promise.  A job is submitted with a budget of execution attempts, is    *)
(* run by one worker at a time, is handed in once, and is then judged by   *)
(* somebody other than the worker who handed it in.                        *)
(*                                                                         *)
(* One transaction of the coordinator may move several jobs: a claim first *)
(* takes back every lapsed lease and then grants one.  A step is therefore *)
(* a move of any set of jobs, and Takeover and Reassign are the moves of a *)
(* job whose lease is taken back and granted again in one transaction.     *)
(***************************************************************************)
EXTENDS Integers

CONSTANTS
    Jobs,       \* the jobs that may ever be submitted
    Actors,     \* identities, each of which may work and may judge
    Budgets,    \* the numbers of attempts a job may be submitted with
    Nobody      \* stands for no actor

VARIABLE
    life        \* for every job, how far it has come

Phases == {"unborn", "waiting", "running", "delivered", "inspecting",
           "verified", "failed", "blocked"}

Ended == {"verified", "failed", "blocked"}

Life == [phase    : Phases,
         tries    : Nat,
         budget   : Nat,
         producer : Actors \cup {Nobody},
         judge    : Actors \cup {Nobody}]

Unborn == [phase |-> "unborn", tries |-> 0, budget |-> 0,
           producer |-> Nobody, judge |-> Nobody]

Submit(r, s) ==
    /\ r.phase = "unborn"
    /\ \E b \in Budgets : s = [r EXCEPT !.phase = "waiting", !.budget = b]

Start(r, s) ==
    /\ r.phase = "waiting"
    /\ r.tries < r.budget
    /\ \E a \in Actors :
          s = [r EXCEPT !.phase = "running", !.tries = @ + 1, !.producer = a]

\* The attempt is lost: it failed, or its lease lapsed.
Lose(r, s) ==
    /\ r.phase = "running"
    /\ s = [r EXCEPT !.phase = IF r.tries < r.budget THEN "waiting" ELSE "failed",
                     !.producer = Nobody]

\* The attempt is lost and the next one starts.
Takeover(r, s) ==
    /\ r.phase = "running"
    /\ r.tries < r.budget
    /\ \E a \in Actors : s = [r EXCEPT !.tries = @ + 1, !.producer = a]

Deliver(r, s) ==
    /\ r.phase = "running"
    /\ s = [r EXCEPT !.phase = "delivered"]

\* An inspection starts; a lapsed one may be replaced by the same step.
Inspect(r, s) ==
    /\ r.phase \in {"delivered", "inspecting"}
    /\ \E a \in Actors \ {r.producer} :
          s = [r EXCEPT !.phase = "inspecting", !.judge = a]

Abandon(r, s) ==
    /\ r.phase = "inspecting"
    /\ s = [r EXCEPT !.phase = "delivered", !.judge = Nobody]

Rule(r, s) ==
    /\ r.phase = "inspecting"
    /\ \E verdict \in Ended : s = [r EXCEPT !.phase = verdict]

Move(r, s) ==
    \/ Submit(r, s)   \/ Start(r, s)   \/ Lose(r, s)    \/ Takeover(r, s)
    \/ Deliver(r, s)  \/ Inspect(r, s) \/ Abandon(r, s) \/ Rule(r, s)

Init == life = [j \in Jobs |-> Unborn]

Next ==
    /\ life' \in [Jobs -> Life]
    /\ \A j \in Jobs : life'[j] = life[j] \/ Move(life[j], life'[j])

Spec == Init /\ [][Next]_life

----------------------------------------------------------------------------
(* What follows from the promises                                          *)

\* No attempt is beyond the budget, what was handed in has a producer and took an
\* attempt, and whoever inspects or has judged a job is somebody else.
WellKept(r) ==
    /\ r \in Life
    /\ r.phase = "unborn" => r = Unborn
    /\ r.tries <= r.budget
    /\ r.phase \in {"running", "delivered", "inspecting", "verified", "blocked"} =>
          r.producer \in Actors /\ r.tries > 0
    /\ r.phase \in {"inspecting", "verified", "blocked"} => r.judge \in Actors \ {r.producer}

\* Every job is well kept at all times.
JobsWellKept == \A j \in Jobs : WellKept(life[j])

\* A job is handed in once: from then on nobody works on it, and its producer stays.
\* It is judged once: from then on nothing about it changes.
HandedInOnce ==
    [][\A j \in Jobs :
         /\ life[j].phase \in {"delivered", "inspecting"} =>
               /\ life'[j].tries = life[j].tries
               /\ life'[j].producer = life[j].producer
         /\ life[j].phase \in Ended => life'[j] = life[j]]_life
=============================================================================
