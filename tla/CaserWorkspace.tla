--------------------------- MODULE CaserWorkspace ---------------------------
(***************************************************************************)
(* CaserWorkspace.write of workspace.py: files in the zones SCRATCH,       *)
(* WORKSPACE and VAULT, written by callers that know nothing of each       *)
(* other.  A call looks twice whether its target exists, opens it, which   *)
(* empties it, and writes the text.  Calls that are in the file at once    *)
(* empty it under each other and write over each other.  Paths that leave  *)
(* their zone are refused before that and change nothing.                  *)
(***************************************************************************)
EXTENDS Integers, Sequences

CONSTANTS
    Writers,   \* callers
    Targets,   \* files
    Vault,     \* those of them in the zone VAULT
    MaxWrites, \* bound: calls in all
    None

VARIABLES
    calls,   \* writer -> where its call is
    content, \* target -> None, or what is in the file and of which calls
    begun,   \* history: the calls, in the order they began
    ended,   \* history: call -> how many calls had begun when it ended, 0 before that
    told     \* history: calls that returned

workspaceVars == <<calls, content, begun, ended, told>>

\* What can be in a file: the text of one call, a part of it or of several calls' texts,
\* or nothing.
Texts == [by : SUBSET (1 .. MaxWrites), text : {"empty", "part", "whole"}]

ASSUME WorkspaceAssumption ==
    /\ Vault \subseteq Targets
    /\ MaxWrites \in Nat
    /\ None \notin Texts

Places == {"idle", "look", "look again", "open", "text"}

Idle == [pc |-> "idle", n |-> 0]

\* A file that call n has just emptied, one that holds its text, and what is left when
\* n writes its text, or the first part of it, over what is there.
Emptied(n) == [by |-> {n}, text |-> "empty"]

TextOf(n) == [by |-> {n}, text |-> "whole"]

Mixed(n, old) ==
    [by |-> {n} \cup (IF old.text = "empty" THEN {} ELSE old.by), text |-> "part"]

Target(w) == begun[calls[w].n].file

Exists(f) == content[f] # None

WorkspaceInit ==
    /\ calls = [w \in Writers |-> Idle]
    /\ content = [f \in Targets |-> None]
    /\ begun = << >>
    /\ ended = [n \in 1 .. MaxWrites |-> 0]
    /\ told = {}

Goto(w, pc) ==
    /\ calls' = [calls EXCEPT ![w].pc = pc]
    /\ UNCHANGED <<begun, ended, told>>

Finish(w) ==
    /\ calls' = [calls EXCEPT ![w] = Idle]
    /\ ended' = [ended EXCEPT ![calls[w].n] = Len(begun)]
    /\ UNCHANGED begun

Raise(w) == Finish(w) /\ UNCHANGED told

----------------------------------------------------------------------------
Begin(w, f, overwrite) ==
    /\ calls[w].pc = "idle"
    /\ Len(begun) < MaxWrites
    /\ begun' = Append(begun, [file |-> f, overwrite |-> overwrite])
    /\ calls' = [calls EXCEPT ![w] = [pc |-> "look", n |-> Len(begun) + 1]]
    /\ UNCHANGED <<content, ended, told>>

Final(w) == Target(w) \in Vault

Look(w) ==
    /\ calls[w].pc = "look"
    /\ IF Final(w) /\ Exists(Target(w)) THEN Raise(w) ELSE Goto(w, "look again")
    /\ UNCHANGED content

\* Mutant: whoever got here may write.
MayReplaceAny(w) == TRUE

MayReplace(w) == begun[calls[w].n].overwrite

LookAgain(w) ==
    /\ calls[w].pc = "look again"
    /\ IF Exists(Target(w)) /\ ~ MayReplace(w) THEN Raise(w) ELSE Goto(w, "open")
    /\ UNCHANGED content

\* open(..., "w")
Open(w) ==
    /\ calls[w].pc = "open"
    /\ content' = [content EXCEPT ![Target(w)] = Emptied(calls[w].n)]
    /\ Goto(w, "text")

\* The text goes over what another call has put there since the file was emptied, all
\* of it or as far as it reaches.
PutText(w) ==
    /\ calls[w].pc = "text"
    /\ \/ content' = [content EXCEPT ![Target(w)] = TextOf(calls[w].n)]
       \/ /\ content[Target(w)].text # "empty"
          /\ content' = [content EXCEPT ![Target(w)] = Mixed(calls[w].n, @)]

PutPart(w) ==
    /\ calls[w].pc = "text"
    /\ content' = [content EXCEPT ![Target(w)] = Mixed(calls[w].n, @)]

WriteText(w) ==
    /\ PutText(w)
    /\ Finish(w)
    /\ told' = told \cup {calls[w].n}

\* The file cannot be opened or written, or the caller dies, before its text, after a
\* part of it or after all of it.
Fail(w) ==
    /\ calls[w].pc \in {"open", "text"}
    /\ UNCHANGED content \/ PutPart(w) \/ PutText(w)
    /\ Raise(w)

WorkspaceNext ==
    \E w \in Writers :
        \/ \E f \in Targets, overwrite \in BOOLEAN : Begin(w, f, overwrite)
        \/ Look(w)
        \/ LookAgain(w)
        \/ Open(w)
        \/ WriteText(w)
        \/ Fail(w)

WorkspaceSpec == WorkspaceInit /\ [][WorkspaceNext]_workspaceVars

----------------------------------------------------------------------------
(* Properties                                                              *)

\* Every variable holds a value of its type.
WorkspaceTypeOK ==
    /\ begun \in Seq([file : Targets, overwrite : BOOLEAN]) /\ Len(begun) <= MaxWrites
    /\ calls \in [Writers -> [pc : Places, n : 0 .. MaxWrites]]
    /\ content \in [Targets -> Texts \cup {None}]
    /\ ended \in [1 .. MaxWrites -> Nat]
    /\ told \subseteq DOMAIN begun

\* Each of the calls began before the other had ended.
Overlapped(m, n) ==
    /\ ended[n] = 0 \/ m <= ended[n]
    /\ ended[m] = 0 \/ n <= ended[m]

\* What a caller was told is written is there, whole and alone, or the file is another
\* call's: and every other call that had a hand in what is there now overlapped this
\* one in time or asked to overwrite, and in the vault overlapped it.
LossNeedsCause ==
    \A a \in told :
        LET f == begun[a].file
            others == content[f].by \ {a} IN
        \/ content[f] = TextOf(a)
        \/ /\ others # {}
           /\ \A m \in others :
                 Overlapped(m, a) \/ (begun[m].overwrite /\ f \notin Vault)

\* docs/ARCHITECTURE.md:148: what is in the vault is not overwritten.
VaultIsFinal ==
    \A a \in told : begun[a].file \in Vault => content[begun[a].file] = TextOf(a)
=============================================================================
