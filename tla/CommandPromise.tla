---------------------------- MODULE CommandPromise ----------------------------
(***************************************************************************)
(* What the connector promises the backend about the side effect of a      *)
(* command: it is attempted at most once, an attempt that gave no answer   *)
(* stays in doubt until evidence settles it, and a verdict, once given,    *)
(* stands.  ACCEPTED is said only of what was done; REJECTED may be said   *)
(* of what was done, but only of a command in doubt, when the broker's     *)
(* rows do not show it.  ConnectorJournal implements it.                   *)
(***************************************************************************)
CONSTANT Commands

VARIABLES
    verdict,     \* "none", "open", "doubt", "ACCEPTED", "REJECTED", "forgotten"
    attempted,   \* was the side effect attempted?
    done         \* did it take effect?

vars == <<verdict, attempted, done>>

Init ==
    /\ verdict = [c \in Commands |-> "none"]
    /\ attempted = [c \in Commands |-> FALSE]
    /\ done = [c \in Commands |-> FALSE]

TakeOn(c) ==
    /\ verdict[c] = "none"
    /\ verdict' = [verdict EXCEPT ![c] = "open"]
    /\ UNCHANGED <<attempted, done>>

\* The one attempt, made only while every other attempted command is settled.
Attempt(c, took) ==
    /\ verdict[c] = "open" /\ ~attempted[c]
    /\ \A d \in Commands \ {c} : verdict[d] # "doubt"
    /\ attempted' = [attempted EXCEPT ![c] = TRUE]
    /\ done' = [done EXCEPT ![c] = took]
    /\ UNCHANGED verdict

\* The true verdicts a command's state allows.
Truth(c) == IF done[c] THEN "ACCEPTED" ELSE "REJECTED"

\* Open and doubtful commands are settled with the truth, or left in doubt;
\* one step may settle several (a restart).
Settle(who) ==
    /\ who # {}
    /\ \A c \in who : verdict[c] \in {"open", "doubt"}
    /\ \E settled \in SUBSET who :
           verdict' = [c \in Commands |->
               IF c \notin who THEN verdict[c]
               ELSE IF c \in settled THEN Truth(c) ELSE "doubt"]
    /\ UNCHANGED <<attempted, done>>

\* A command in doubt of which no trace is found is rejected, done or not.
Deny(c) ==
    /\ verdict[c] = "doubt"
    /\ verdict' = [verdict EXCEPT ![c] = "REJECTED"]
    /\ UNCHANGED <<attempted, done>>

\* The record of settled commands is dropped, and the promise with it.
Forget(who) ==
    /\ who # {} /\ \A c \in who : verdict[c] \in {"ACCEPTED", "REJECTED", "forgotten"}
    /\ verdict' = [c \in Commands |-> IF c \in who THEN "forgotten" ELSE verdict[c]]
    /\ attempted' = [c \in Commands |-> c \notin who /\ attempted[c]]
    /\ done' = [c \in Commands |-> c \notin who /\ done[c]]

Next ==
    \/ \E c \in Commands : TakeOn(c) \/ Deny(c) \/ \E took \in BOOLEAN : Attempt(c, took)
    \/ \E who \in SUBSET Commands : Settle(who) \/ Forget(who)

Spec == Init /\ [][Next]_vars
=============================================================================
