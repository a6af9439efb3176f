----------------------------- MODULE MCBrowser -----------------------------
(* The browser for TLC: the conversation with the assistant, or the screen  *)
(* that is open. The two share no state, so one run explores each in turn:  *)
(* whichever is not explored stays as it was opened.                        *)
EXTENDS Browser

CONSTANTS s1, s2
VARIABLE part

TwoSpaces == {s1, s2}
EitherPart ==
    /\ part \in {"chat", "screens"} /\ Opens
    /\ part = "chat" => screen = S!AppShell
    /\ part = "screens" => page = s1 /\ kept = [sp \in TwoSpaces |-> 0]
ItsSteps ==
    \/ part = "chat" /\ Next /\ UNCHANGED <<part, open>>
    \/ part = "screens" /\ S!Next /\ UNCHANGED <<part, vars>>
EachInTurn == EitherPart /\ [][ItsSteps]_<<part, vars, open>> /\ Fairness
=============================================================================
