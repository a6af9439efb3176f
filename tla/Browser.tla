------------------------------- MODULE Browser -------------------------------
(* The browser of one person: the conversation with the assistant, which     *)
(* lives as long as the session does (this module extends it), and the       *)
(* screen that is open. They share no state; either may move at any time.    *)
EXTENDS Chat

CONSTANT MaxMoves
ASSUME MovesAreNatural == MaxMoves \in Nat
VARIABLES screen, keys, shown, latest, flights, held, writing, moves

S == INSTANCE Screens
open == <<screen, keys, shown, latest, flights, held, writing, moves>>

Opens == Init /\ S!Init
Moves == \/ Next /\ UNCHANGED open
         \/ S!Next /\ UNCHANGED vars
Browsing == Opens /\ [][Moves]_<<vars, open>>

(* No answer lands in another space than it was asked in, and no box is      *)
(* locked without a request whose end opens it (ChatContext.tsx).            *)
ConversationsApart == SpacesApart /\ LocksHaveReason
(* A screen that drops late answers shows what was asked last                *)
(* (ResourceContext.tsx, SearchSelect.tsx).                                  *)
ShowsWhatWasAsked == S!ShowsWhatWasAsked
(* No double submit, and no lock left behind (SyncPanel.tsx, DataSources.tsx). *)
OneWriteAtATime == S!OneWriteAtATime

BrowserTypeOK == TypeOK /\ S!TypeOK
=============================================================================
