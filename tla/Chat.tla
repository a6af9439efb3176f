-------------------------------- MODULE Chat --------------------------------
(* The conversation with the assistant as the browser keeps it, one per     *)
(* space (ChatContext.tsx), the page and the history panel that act on it   *)
(* (Assistant.tsx, ChatHistoryPanel.tsx) and the stored conversations they  *)
(* read and extend (ai-fde main.py and store.py). One signed-in person.     *)
EXTENDS Naturals, Sequences, FiniteSets

CONSTANTS Spaces,               \* the spaces the person may open
          MaxSession, MaxMsg, MaxWaiting   \* bounds: conversations, questions, requests under way

ASSUME BoundsAreNaturals ==
    MaxSession \in Nat \ {0} /\ MaxMsg \in Nat \ {0} /\ MaxWaiting \in Nat

VARIABLES page,       \* the space whose assistant page is open
          conv,       \* what the browser holds of each space's conversation
          kept,       \* localStorage: the conversation remembered per space, 0 for none
          restored,   \* the spaces whose remembered conversation was looked for
          waiting,    \* the requests under way
          stored,     \* the conversations in the database
          nextMsg

vars == <<page, conv, kept, restored, waiting, stored, nextMsg>>

Sessions == 1..MaxSession
Msgs == 1..MaxMsg
Turn == [who: {"ask", "reply"}, msg: Msgs]
(* draft is the text in the box, a question's number or 0; sid is 0 until   *)
(* the first reply names the conversation.                                  *)
EMPTY == [sid |-> 0, turns |-> <<>>, busy |-> FALSE, loading |-> FALSE, draft |-> 0]
Stored == [space: Spaces, turns: Seq(Turn), deleted: BOOLEAN]
Slots == 1..MaxWaiting
Request == [n: Slots, kind: {"load", "open", "send", "delete"}, space: Spaces, sid: 0..MaxSession, msg: 0..MaxMsg,
            at: {"out", "asked", "ok", "gone", "refused", "failed"}, body: Seq(Turn)]

Live(id) == id \in DOMAIN stored /\ ~stored[id].deleted
Ask(m) == [who |-> "ask", msg |-> m]
Reply(m) == [who |-> "reply", msg |-> m]
Sent(kind, sp, id, m) ==
    [n |-> CHOOSE n \in Slots : \A r \in waiting : r.n /= n,
     kind |-> kind, space |-> sp, sid |-> id, msg |-> m, at |-> "out", body |-> <<>>]
(* remember: the storage key carries the space.                             *)
Remembered_Anywhere(sp, id) == [s \in Spaces |-> id]
Remembered(sp, id) == [kept EXCEPT ![sp] = id]

Init ==
    /\ page \in Spaces /\ restored = {} /\ waiting = {} /\ nextMsg = 1
    /\ conv = [sp \in Spaces |-> EMPTY]
    /\ stored = [id \in {1} |-> [space |-> page, turns |-> <<Ask(1), Reply(1)>>, deleted |-> FALSE]]
    /\ kept \in {[sp \in Spaces |-> 0], [sp \in Spaces |-> IF sp = page THEN 1 ELSE 0]}

Room == Cardinality(waiting) < MaxWaiting
Launch(r) == Room /\ waiting' = waiting \cup {r}
Shows(sp, c) == conv' = [conv EXCEPT ![sp] = c]

(* load: marks the conversation as being read back, and asks for it.        *)
Load(sp, id) == Launch(Sent("load", sp, id, 0)) /\ Shows(sp, [conv[sp] EXCEPT !.loading = TRUE])

(* The page opens in a space: restore, once per space and sign-in, and not  *)
(* over a conversation already on screen.                                   *)
Visit(sp) ==
    /\ page' = sp
    /\ restored' = restored \cup {sp}
    /\ IF sp \in restored \/ conv[sp].turns /= <<>> \/ conv[sp].busy \/ kept[sp] = 0
       THEN UNCHANGED <<conv, waiting>> ELSE Load(sp, kept[sp])
    /\ UNCHANGED <<kept, stored, nextMsg>>

(* A conversation of this space, picked in the history or named by a link.  *)
Open(id) ==
    /\ id \in DOMAIN stored /\ stored[id].space = page /\ ~conv[page].busy
    /\ restored' = restored \cup {page}
    /\ Launch(Sent("open", page, id, 0)) /\ Shows(page, [conv[page] EXCEPT !.loading = TRUE])
    /\ UNCHANGED <<page, kept, stored, nextMsg>>

Type ==
    /\ nextMsg < MaxMsg /\ conv[page].draft = 0
    /\ nextMsg' = nextMsg + 1 /\ Shows(page, [conv[page] EXCEPT !.draft = nextMsg + 1])
    /\ UNCHANGED <<page, kept, restored, waiting, stored>>

(* send: refused while an answer is on its way or a conversation is read    *)
(* back; otherwise the question joins the transcript and is posted.         *)
Send ==
    LET c == conv[page] IN
    /\ c.draft /= 0 /\ ~c.busy /\ ~c.loading
    /\ Launch(Sent("send", page, c.sid, c.draft))
    /\ Shows(page, [c EXCEPT !.draft = 0, !.busy = TRUE, !.turns = Append(@, Ask(c.draft))])
    /\ UNCHANGED <<page, kept, restored, stored, nextMsg>>

(* New chat: not while an answer is on its way.                             *)
Fresh(sp) == Shows(sp, [EMPTY EXCEPT !.draft = conv[sp].draft]) /\ kept' = Remembered(sp, 0)
NewChat == ~conv[page].busy /\ Fresh(page) /\ UNCHANGED <<page, restored, waiting, stored, nextMsg>>

(* The history's Delete, which is not held back by an answer on its way. It *)
(* keeps, to compare with later, the conversation on screen when clicked.   *)
Delete(id) ==
    /\ id \in DOMAIN stored /\ stored[id].space = page
    /\ Launch([Sent("delete", page, id, 0) EXCEPT !.msg = IF conv[page].sid = id THEN 1 ELSE 0])
    /\ UNCHANGED <<page, conv, kept, restored, stored, nextMsg>>

------------------------------------------------------------------------------
(* The server's side of a request.                                          *)

Becomes(r, q) == waiting' = (waiting \ {r}) \cup {q}
At(r, at) == Becomes(r, [r EXCEPT !.at = at])

(* session_messages: 404 when it is gone, the stored turns otherwise.       *)
Serve(r) ==
    /\ r.at = "out" /\ r.kind \in {"load", "open"}
    /\ \/ /\ ~Live(r.sid) /\ At(r, "gone")
       \/ /\ Live(r.sid) /\ Becomes(r, [r EXCEPT !.at = "ok", !.body = stored[r.sid].turns])
       \/ At(r, "failed")
    /\ UNCHANGED <<page, conv, kept, restored, stored, nextMsg>>

(* delete_session: what was said is erased, the row stays.                  *)
Erase(r) ==
    /\ r.at = "out" /\ r.kind = "delete"
    /\ \/ /\ Live(r.sid) /\ At(r, "ok")
          /\ stored' = [stored EXCEPT ![r.sid].deleted = TRUE, ![r.sid].turns = <<>>]
       \/ /\ At(r, "failed") /\ UNCHANGED stored
    /\ UNCHANGED <<page, conv, kept, restored, nextMsg>>

(* chat, up to the model: refused for rate or credit, or 404, before        *)
(* anything is stored; then the session is made if need be, and the         *)
(* question stored.                                                         *)
TakeQuestion(r) ==
    /\ r.at = "out" /\ r.kind = "send"
    /\ \/ /\ \E at \in {"refused", "failed"} : At(r, at)
          /\ UNCHANGED stored
       \/ /\ Live(r.sid) /\ At(r, "asked")
          /\ stored' = [stored EXCEPT ![r.sid].turns = Append(@, Ask(r.msg))]
       \/ LET id == Cardinality(DOMAIN stored) + 1 IN
          /\ r.sid = 0 /\ id \in Sessions
          /\ Becomes(r, [r EXCEPT !.sid = id, !.at = "asked"])
          /\ stored' = [i \in DOMAIN stored \cup {id} |->
                          IF i = id THEN [space |-> r.space, turns |-> <<Ask(r.msg)>>, deleted |-> FALSE]
                          ELSE stored[i]]
    /\ UNCHANGED <<page, conv, kept, restored, nextMsg>>

(* chat, after the model: append_message stores the answer whatever has     *)
(* become of the conversation meanwhile.                                    *)
StoreAnswer(r) ==
    /\ r.at = "asked"
    /\ \/ /\ At(r, "ok")
          /\ stored' = [stored EXCEPT ![r.sid].turns = Append(@, Reply(r.msg))]
       \/ /\ At(r, "failed") /\ UNCHANGED stored
    /\ UNCHANGED <<page, conv, kept, restored, nextMsg>>

------------------------------------------------------------------------------
(* The answers, as the browser takes them.                                  *)

(* load's two ends: painted into the conversation as it is by then; or      *)
(* forgotten when gone.                                                     *)
LoadEnds(r) ==
    /\ r.kind = "load" /\ r.at \in {"ok", "gone", "failed"}
    /\ waiting' = waiting \ {r}
    /\ kept' = CASE r.at = "ok" -> Remembered(r.space, r.sid)
                 [] r.at = "gone" -> Remembered(r.space, 0)
                 [] OTHER -> kept
    /\ Shows(r.space, IF r.at = "ok"
                      THEN [conv[r.space] EXCEPT !.sid = r.sid, !.turns = r.body, !.loading = FALSE]
                      ELSE [conv[r.space] EXCEPT !.loading = FALSE])
    /\ UNCHANGED <<page, restored, stored, nextMsg>>

(* open's two ends: the conversation is replaced, all but its draft; or,    *)
(* with nothing on screen, the remembered one is read back.                 *)
OpenEnds(r) ==
    LET c == conv[r.space] IN
    /\ r.kind = "open"
    /\ \/ /\ r.at = "ok"
          /\ waiting' = waiting \ {r} /\ kept' = Remembered(r.space, r.sid)
          /\ Shows(r.space, [EMPTY EXCEPT !.draft = c.draft, !.sid = r.sid, !.turns = r.body])
       \/ /\ r.at \in {"gone", "failed"} /\ UNCHANGED kept
          /\ IF c.turns = <<>> /\ ~c.busy /\ kept[r.space] \notin {0, r.sid}
             THEN /\ Becomes(r, [r EXCEPT !.kind = "load", !.sid = kept[r.space], !.at = "out"])
                  /\ Shows(r.space, [c EXCEPT !.loading = TRUE])
             ELSE waiting' = waiting \ {r} /\ Shows(r.space, [c EXCEPT !.loading = FALSE])
    /\ UNCHANGED <<page, restored, stored, nextMsg>>

(* send's ends: the reply joins the transcript; a refused question goes     *)
(* back in the box, unless something is being written there; any other      *)
(* failure leaves the question where it is.                                 *)
Answered(c, r) == [c EXCEPT !.sid = r.sid, !.turns = Append(@, Reply(r.msg)), !.busy = FALSE]
Refused(c, r) == [c EXCEPT !.busy = FALSE, !.draft = IF @ = 0 THEN r.msg ELSE @,
                           !.turns = SelectSeq(@, LAMBDA t : t /= Ask(r.msg))]
Failed_StaysBusy(c) == c
Failed(c) == [c EXCEPT !.busy = FALSE]
SendEnds(r) ==
    LET c == conv[r.space] IN
    /\ r.kind = "send" /\ r.at \in {"ok", "refused", "failed"}
    /\ waiting' = waiting \ {r}
    /\ kept' = IF r.at = "ok" THEN Remembered(r.space, r.sid) ELSE kept
    /\ Shows(r.space, CASE r.at = "ok" -> Answered(c, r)
                        [] r.at = "refused" -> Refused(c, r)
                        [] OTHER -> Failed(c))
    /\ UNCHANGED <<page, restored, stored, nextMsg>>

(* The panel's Delete ends: the one on screen when it was clicked goes from *)
(* the page too.                                                            *)
DeleteEnds(r) ==
    /\ r.kind = "delete" /\ r.at \in {"ok", "failed"}
    /\ waiting' = waiting \ {r}
    /\ IF r.at = "ok" /\ r.msg = 1 THEN Fresh(r.space) ELSE UNCHANGED <<conv, kept>>
    /\ UNCHANGED <<page, restored, stored, nextMsg>>

Goes(r) == \/ Serve(r) \/ Erase(r) \/ TakeQuestion(r) \/ StoreAnswer(r)
           \/ LoadEnds(r) \/ OpenEnds(r) \/ SendEnds(r) \/ DeleteEnds(r)
Acts == (\E sp \in Spaces : Visit(sp)) \/ Type \/ Send \/ NewChat
        \/ \E id \in Sessions : Open(id) \/ Delete(id)
Next == Acts \/ \E r \in waiting : Goes(r)
(* Every request ends: with an answer, or with the failure the transport    *)
(* reports. Nothing obliges the person.                                     *)
Fairness == \A n \in Slots : WF_vars(\E r \in waiting : r.n = n /\ Goes(r))
Spec == Init /\ [][Next]_vars /\ Fairness

------------------------------------------------------------------------------
(* What is held of a conversation, whatever its transcript: the filter of   *)
(* Refused is a recursion that is not reasoned about.                       *)
Conversation(turns) ==
    [sid: 0..MaxSession, turns: {turns}, busy: BOOLEAN, loading: BOOLEAN, draft: 0..MaxMsg]
TypeOK ==
    /\ page \in Spaces /\ restored \subseteq Spaces /\ nextMsg \in Msgs
    /\ kept \in [Spaces -> 0..MaxSession]
    /\ conv = [sp \in Spaces |-> conv[sp]] /\ \A sp \in Spaces : conv[sp] \in Conversation(conv[sp].turns)
    /\ \E n \in Sessions : stored \in [1..n -> Stored]
    /\ waiting \subseteq Request /\ IsFiniteSet(waiting)

(* The two flags that lock the box have a request behind them whose end     *)
(* clears them: however opens, reads, sends, deletions and new chats        *)
(* overlap, the page is never left locked with nothing under way            *)
(* (ChatContext.tsx:233, 276, 344).                                         *)
LocksHaveReason ==
    \A sp \in Spaces :
        /\ conv[sp].busy => \E r \in waiting : r.kind = "send" /\ r.space = sp
        /\ conv[sp].loading => \E r \in waiting : r.kind \in {"load", "open"} /\ r.space = sp

(* What a space remembers, and what it shows, is a conversation of that     *)
(* space: no answer lands in another space's, wherever the person has gone  *)
(* by the time it arrives (ChatContext.tsx:168, 229).                       *)
SpacesApart ==
    \A sp \in Spaces : \A id \in {kept[sp], conv[sp].sid} \ {0} : stored[id].space = sp

(* What the two rest on: every id a request carries, a space remembers or   *)
(* shows is of a conversation made in that space.                           *)
MadeIn(sp, id) == id = 0 \/ (id \in DOMAIN stored /\ stored[id].space = sp)
IdsMadeHere ==
    /\ \A sp \in Spaces : MadeIn(sp, kept[sp]) /\ MadeIn(sp, conv[sp].sid)
    /\ \A r \in waiting : MadeIn(r.space, r.sid)
(* Only a question waits for an answer, and a question has a number.        *)
IsInOrder(r) == (r.at = "asked" => r.kind = "send") /\ (r.kind = "send" => r.msg /= 0)
IInv == TypeOK /\ IdsMadeHere /\ (\A r \in waiting : IsInOrder(r)) /\ LocksHaveReason

(* A locked box opens again.                                                *)
BoxOpensAgain ==
    \A sp \in Spaces :
        /\ conv[sp].busy ~> ~conv[sp].busy
        /\ conv[sp].loading ~> ~conv[sp].loading

(* "The message would go to a new session and then be painted over"         *)
(* (ChatContext.tsx:280): a question being answered stays on screen.        *)
NotPaintedOver ==
    \A r \in waiting : r.kind = "send" /\ r.at \in {"out", "asked"}
                         => \E i \in DOMAIN conv[r.space].turns : conv[r.space].turns[i] = Ask(r.msg)

(* "What was said is erased; what it cost is kept" (store.py:419): nothing  *)
(* said is in a deleted conversation.                                       *)
ErasedStaysErased == \A id \in DOMAIN stored : stored[id].deleted => stored[id].turns = <<>>
=============================================================================
