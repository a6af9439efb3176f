---------------------------- MODULE Browser_proofs ----------------------------
(***************************************************************************)
(* Theorems about Browser, for every number of spaces, conversations,      *)
(* questions, requests under way and moves.                                *)
(***************************************************************************)
EXTENDS Browser, FiniteSetTheorems, TLAPS

(* What a step does to the conversation of one space: the requests that     *)
(* end, the requests that begin, what is on screen and remembered.          *)
Shown(sp, c) == /\ conv' = [s \in Spaces |-> conv'[s]] /\ conv'[sp] = c
                /\ \A s \in Spaces \ {sp} : conv'[s] = conv[s]
Grows == /\ \E n \in Sessions : stored' \in [1..n -> Stored]
         /\ \A id \in DOMAIN stored : id \in DOMAIN stored' /\ stored'[id].space = stored[id].space
Effect(sp, gone, new) ==
    /\ gone \subseteq waiting /\ new \subseteq Request /\ IsFiniteSet(new)
    /\ waiting' = (waiting \ gone) \cup new
    /\ \A r \in gone \cup new : r.space = sp
    /\ Grows
    /\ Shown(sp, conv'[sp]) /\ conv'[sp] \in Conversation(conv'[sp].turns)
    /\ kept' \in [Spaces -> 0..MaxSession] /\ \A s \in Spaces \ {sp} : kept'[s] = kept[s]
    /\ \A r \in new : MadeIn(sp, r.sid)' /\ IsInOrder(r)
    /\ MadeIn(sp, kept[sp])' /\ MadeIn(sp, conv[sp].sid)'
    /\ conv'[sp].busy => \/ \E r \in new : r.kind = "send"
                         \/ conv[sp].busy /\ \A r \in gone : r.kind # "send"
    /\ conv'[sp].loading => \/ \E r \in new : r.kind \in {"load", "open"}
                            \/ conv[sp].loading /\ \A r \in gone : r.kind \notin {"load", "open"}

LEMMA EffectKeeps ==
  ASSUME IInv, NEW sp \in Spaces, NEW gone, NEW new, Effect(sp, gone, new),
         page' \in Spaces, restored' \subseteq Spaces, nextMsg' \in Msgs
  PROVE  IInv'
<1>1. TypeOK'
  <2>1. IsFiniteSet(waiting')
    BY FS_Subset, FS_Union DEF IInv, TypeOK, Effect
  <2>2. \A s \in Spaces : conv'[s] \in Conversation(conv'[s].turns)
    BY DEF IInv, TypeOK, Effect, Shown
  <2>. QED BY <2>1, <2>2 DEF IInv, TypeOK, Effect, Shown, Grows
<1>2. \A s, id : MadeIn(s, id) /\ Grows => (id = 0 \/ (id \in DOMAIN stored' /\ stored'[id].space = s))
  BY DEF MadeIn, Grows
<1>3. IdsMadeHere'
  <2>1. ASSUME NEW s \in Spaces PROVE MadeIn(s, kept[s])' /\ MadeIn(s, conv[s].sid)'
    <3>1. CASE s = sp
      BY <3>1 DEF Effect
    <3>2. CASE s # sp
      BY <1>2, <3>2 DEF Effect, Shown, IInv, IdsMadeHere, MadeIn
    <3>. QED BY <3>1, <3>2
  <2>2. ASSUME NEW r \in waiting' PROVE MadeIn(r.space, r.sid)'
    <3>1. CASE r \in new
      BY <3>1 DEF Effect
    <3>2. CASE r \in waiting
      BY <1>2, <3>2 DEF Effect, IInv, IdsMadeHere, MadeIn
    <3>. QED BY <3>1, <3>2 DEF Effect
  <2>. QED BY <2>1, <2>2 DEF IdsMadeHere
<1>4. LocksHaveReason'
  <2>1. ASSUME NEW s \in Spaces, conv'[s].busy
        PROVE  \E r \in waiting' : r.kind = "send" /\ r.space = s
    BY <2>1 DEF Effect, Shown, IInv, LocksHaveReason
  <2>2. ASSUME NEW s \in Spaces, conv'[s].loading
        PROVE  \E r \in waiting' : r.kind \in {"load", "open"} /\ r.space = s
    BY <2>2 DEF Effect, Shown, IInv, LocksHaveReason
  <2>. QED BY <2>1, <2>2 DEF LocksHaveReason
<1>5. \A r \in waiting' : IsInOrder(r)
  BY DEF IInv, Effect
<1>. QED BY <1>1, <1>3, <1>4, <1>5 DEF IInv

(* A request has a number while there is room for one.                      *)
LEMMA SentIsARequest ==
  ASSUME IInv, Room, NEW kind \in {"load", "open", "send", "delete"}, NEW sp \in Spaces,
         NEW id \in 0..MaxSession, NEW m \in 0..MaxMsg
  PROVE  /\ Sent(kind, sp, id, m) \in Request
         /\ Sent(kind, sp, id, m).kind = kind /\ Sent(kind, sp, id, m).space = sp
         /\ Sent(kind, sp, id, m).sid = id
         /\ IsInOrder(Sent(kind, sp, id, m)) <=> (kind = "send" => m /= 0)
<1> DEFINE N == {r.n : r \in waiting}
<1>1. IsFiniteSet(waiting) /\ waiting \subseteq Request /\ MaxWaiting \in Nat
  BY BoundsAreNaturals DEF IInv, TypeOK
<1>2. Cardinality(N) <= Cardinality(waiting) /\ IsFiniteSet(N)
  <2> DEFINE f == [r \in waiting |-> r.n]
  <2>1. N = {f[r] : r \in waiting}
    OBVIOUS
  <2>2. f \in Surjection(waiting, N)
    BY DEF Surjection
  <2>. QED BY <1>1, <2>2, FS_Surjection, FS_CardinalityType
<1>3. IsFiniteSet(Slots) /\ Cardinality(Slots) = MaxWaiting
  BY <1>1, FS_Interval DEF Slots
<1>4. N # Slots
  <2>1. Cardinality(waiting) \in Nat /\ Cardinality(N) \in Nat
    BY <1>1, <1>2, FS_CardinalityType
  <2>. HIDE DEF N
  <2>. QED BY <1>1, <1>2, <1>3, <2>1 DEF Room
<1>5. N \subseteq Slots
  BY <1>1 DEF Request
<1>6. \E n \in Slots : \A r \in waiting : r.n /= n
  BY <1>4, <1>5
<1> DEFINE n == CHOOSE n \in Slots : \A r \in waiting : r.n /= n
<1>7. n \in Slots
  BY <1>6
<1>8. <<>> \in Seq(Turn)
  OBVIOUS
<1>9. Sent(kind, sp, id, m) = [n |-> n, kind |-> kind, space |-> sp, sid |-> id, msg |-> m, at |-> "out", body |-> <<>>]
  BY DEF Sent
<1>. HIDE DEF n
<1>. QED BY <1>7, <1>8, <1>9 DEF Request, IsInOrder

LEMMA ShowsIsShown ==
  ASSUME IInv, NEW sp \in Spaces, NEW c, Shows(sp, c)
  PROVE  Shown(sp, c)
BY DEF IInv, TypeOK, Shows, Shown

LEMMA SameConversations ==
  ASSUME IInv, NEW sp \in Spaces, UNCHANGED conv
  PROVE  Shown(sp, conv[sp])
BY DEF IInv, TypeOK, Shown

LEMMA SameStored ==
  ASSUME IInv, UNCHANGED stored
  PROVE  Grows /\ \A s, id : MadeIn(s, id) => (id = 0 \/ (id \in DOMAIN stored' /\ stored'[id].space = s))
BY DEF IInv, TypeOK, Grows, MadeIn

(* The person's steps.                                                      *)
LEMMA NothingBegins ==
  ASSUME IInv, NEW sp \in Spaces, UNCHANGED <<waiting, stored>>,
         \/ UNCHANGED kept
         \/ kept' = [kept EXCEPT ![sp] = 0],
         NEW c \in Conversation(conv[sp].turns) \cup Conversation(<<>>), Shown(sp, c),
         c.sid \in {0, conv[sp].sid}, c.busy => conv[sp].busy, c.loading => conv[sp].loading
  PROVE  Effect(sp, {}, {})
<1>1. Grows /\ \A s, id : MadeIn(s, id) => (id = 0 \/ (id \in DOMAIN stored' /\ stored'[id].space = s))
  BY SameStored
<1>2. kept' \in [Spaces -> 0..MaxSession] /\ \A s \in Spaces \ {sp} : kept'[s] = kept[s]
  BY BoundsAreNaturals DEF IInv, TypeOK
<1>3. kept'[sp] \in {0, kept[sp]}
  BY DEF IInv, TypeOK
<1>4. conv'[sp] = c /\ c \in Conversation(c.turns)
  BY DEF Shown, Conversation
<1>5. MadeIn(sp, kept[sp])' /\ MadeIn(sp, conv[sp].sid)'
  BY <1>1, <1>3, <1>4 DEF IInv, IdsMadeHere, MadeIn
<1>. QED BY <1>1, <1>2, <1>4, <1>5, FS_EmptySet DEF Effect

LEMMA OneBegins ==
  ASSUME IInv, NEW sp \in Spaces, NEW r \in Request, UNCHANGED <<kept, stored>>,
         waiting' = waiting \cup {r}, r.space = sp, MadeIn(sp, r.sid), IsInOrder(r),
         NEW T, NEW c \in Conversation(T), Shown(sp, c), c.sid = conv[sp].sid,
         c.busy => conv[sp].busy \/ r.kind = "send",
         c.loading => conv[sp].loading \/ r.kind \in {"load", "open"}
  PROVE  Effect(sp, {}, {r})
<1>1. Grows /\ \A s, id : MadeIn(s, id) => (id = 0 \/ (id \in DOMAIN stored' /\ stored'[id].space = s))
  BY SameStored
<1>2. conv'[sp] = c /\ c \in Conversation(c.turns)
  BY DEF Shown, Conversation
<1>3. MadeIn(sp, kept[sp])' /\ MadeIn(sp, conv[sp].sid)' /\ MadeIn(sp, r.sid)'
  BY <1>1, <1>2 DEF IInv, IdsMadeHere, MadeIn
<1>. QED BY <1>1, <1>2, <1>3, FS_Singleton DEF Effect, IInv, TypeOK

LEMMA LoadEffect ==
  ASSUME IInv, NEW sp \in Spaces, NEW id, id \in 0..MaxSession, MadeIn(sp, id),
         NEW kind \in {"load", "open"}, Launch(Sent(kind, sp, id, 0)),
         Shows(sp, [conv[sp] EXCEPT !.loading = TRUE]), UNCHANGED <<kept, stored>>
  PROVE  \E r : Effect(sp, {}, {r})
<1> DEFINE r == Sent(kind, sp, id, 0)  c == [conv[sp] EXCEPT !.loading = TRUE]
<1>1. r \in Request /\ r.kind = kind /\ r.space = sp /\ r.sid = id /\ IsInOrder(r)
  <2>1. kind \in {"load", "open", "send", "delete"} /\ 0 \in 0..MaxMsg
    BY BoundsAreNaturals
  <2>. QED BY <2>1, SentIsARequest DEF Launch
<1>2. c \in Conversation(conv[sp].turns) /\ c.sid = conv[sp].sid /\ c.busy = conv[sp].busy
  BY DEF IInv, TypeOK, Conversation
<1>3. Shown(sp, c) /\ waiting' = waiting \cup {r}
  BY ShowsIsShown DEF Launch
<1>. HIDE DEF r, c
<1>. QED BY <1>1, <1>2, <1>3, OneBegins

LEMMA VisitKeeps ==
  ASSUME IInv, NEW sp \in Spaces, Visit(sp)
  PROVE  IInv'
<1>1. CASE UNCHANGED <<conv, waiting>>
  <2>1. Effect(sp, {}, {})
    BY <1>1, SameConversations, NothingBegins DEF Visit, IInv, TypeOK
  <2>. QED BY <2>1, EffectKeeps DEF Visit, IInv, TypeOK
<1>2. CASE Load(sp, kept[sp])
  <2>1. kept[sp] \in 0..MaxSession /\ MadeIn(sp, kept[sp])
    BY DEF IInv, TypeOK, IdsMadeHere
  <2>2. \E r : Effect(sp, {}, {r})
    BY <1>2, <2>1, LoadEffect DEF Load, Visit
  <2>. QED BY <2>2, EffectKeeps DEF Visit, IInv, TypeOK
<1>. QED BY <1>1, <1>2 DEF Visit

LEMMA OpenKeeps ==
  ASSUME IInv, NEW id \in Sessions, Open(id)
  PROVE  IInv'
<1>1. page \in Spaces /\ id \in 0..MaxSession /\ MadeIn(page, id)
  BY DEF Open, IInv, TypeOK, MadeIn, Sessions
<1>2. \E r : Effect(page, {}, {r})
  BY <1>1, LoadEffect DEF Open
<1>. QED BY <1>1, <1>2, EffectKeeps DEF Open, IInv, TypeOK

LEMMA TypeKeeps ==
  ASSUME IInv, Type
  PROVE  IInv'
<1> DEFINE c == [conv[page] EXCEPT !.draft = nextMsg + 1]
<1>1. page \in Spaces /\ nextMsg + 1 \in Msgs /\ nextMsg + 1 \in 0..MaxMsg
  BY BoundsAreNaturals DEF Type, IInv, TypeOK, Msgs
<1>2. /\ c \in Conversation(conv[page].turns)
      /\ c.sid = conv[page].sid /\ c.busy = conv[page].busy /\ c.loading = conv[page].loading
  BY <1>1 DEF IInv, TypeOK, Conversation
<1>3. Shown(page, c)
  BY <1>1, ShowsIsShown DEF Type
<1>. HIDE DEF c
<1>4. Effect(page, {}, {})
  BY <1>1, <1>2, <1>3, NothingBegins DEF Type
<1>. QED BY <1>1, <1>4, EffectKeeps DEF Type, IInv, TypeOK

LEMMA Asking ==
  ASSUME NEW old, old \in Conversation(old.turns), NEW turns
  PROVE  LET c == [old EXCEPT !.draft = 0, !.busy = TRUE, !.turns = turns]
         IN  c \in Conversation(turns) /\ c.sid = old.sid /\ c.loading = old.loading
<1> DEFINE T == {old.turns, turns}
<1>1. old \in [sid: 0..MaxSession, turns: T, busy: BOOLEAN, loading: BOOLEAN, draft: 0..MaxMsg]
  BY DEF Conversation
<1>2. turns \in T /\ 0 \in 0..MaxMsg
  BY BoundsAreNaturals
<1>. HIDE DEF T
<1>. QED BY <1>1, <1>2 DEF Conversation

LEMMA SendKeeps ==
  ASSUME IInv, Send
  PROVE  IInv'
<1> DEFINE old == conv[page]
           turns == Append(old.turns, Ask(old.draft))
           c == [old EXCEPT !.draft = 0, !.busy = TRUE, !.turns = turns]
           r == Sent("send", page, old.sid, old.draft)
<1>1. page \in Spaces /\ old \in Conversation(old.turns) /\ MadeIn(page, old.sid)
  BY DEF IInv, TypeOK, IdsMadeHere
<1>2. old.sid \in 0..MaxSession /\ old.draft \in 0..MaxMsg
  BY <1>1 DEF Conversation
<1>3. r \in Request /\ r.kind = "send" /\ r.space = page /\ r.sid = old.sid /\ IsInOrder(r)
  BY <1>1, <1>2, SentIsARequest DEF Send, Launch
<1>4. c \in Conversation(turns) /\ c.sid = old.sid /\ c.loading = old.loading
  BY <1>1, Asking
<1>. HIDE DEF turns
<1>5. Shown(page, c) /\ waiting' = waiting \cup {r}
  BY <1>1, ShowsIsShown DEF Send, Launch, turns
<1>. HIDE DEF r, c
<1>6. Effect(page, {}, {r})
  BY <1>1, <1>3, <1>4, <1>5, OneBegins DEF Send
<1>. QED BY <1>1, <1>6, EffectKeeps DEF Send, IInv, TypeOK

LEMMA FreshIs ==
  ASSUME IInv, NEW sp \in Spaces, Fresh(sp)
  PROVE  \E c \in Conversation(<<>>) : /\ Shown(sp, c) /\ c.sid = 0 /\ ~c.busy /\ ~c.loading
                                       /\ kept' = [kept EXCEPT ![sp] = 0]
<1> DEFINE c == [EMPTY EXCEPT !.draft = conv[sp].draft]
<1>1. conv[sp].draft \in 0..MaxMsg
  BY DEF IInv, TypeOK, Conversation
<1>2. EMPTY \in Conversation(<<>>) /\ EMPTY.sid = 0 /\ ~EMPTY.busy /\ ~EMPTY.loading
  BY BoundsAreNaturals DEF EMPTY, Conversation
<1>3. c \in Conversation(<<>>) /\ c.sid = 0 /\ ~c.busy /\ ~c.loading
  BY <1>1, <1>2 DEF Conversation
<1>4. Shown(sp, c)
  BY ShowsIsShown DEF Fresh
<1>. QED BY <1>3, <1>4 DEF Fresh, Remembered

LEMMA NewChatKeeps ==
  ASSUME IInv, NewChat
  PROVE  IInv'
<1>1. page \in Spaces
  BY DEF IInv, TypeOK
<1>2. PICK c \in Conversation(<<>>) : /\ Shown(page, c) /\ c.sid = 0 /\ ~c.busy /\ ~c.loading
                                      /\ kept' = [kept EXCEPT ![page] = 0]
  BY <1>1, FreshIs DEF NewChat
<1>3. Effect(page, {}, {})
  BY <1>1, <1>2, NothingBegins DEF NewChat
<1>. QED BY <1>1, <1>3, EffectKeeps DEF NewChat, IInv, TypeOK

LEMMA DeleteKeeps ==
  ASSUME IInv, NEW id \in Sessions, Delete(id)
  PROVE  IInv'
<1> DEFINE m == IF conv[page].sid = id THEN 1 ELSE 0
           s == Sent("delete", page, id, 0)
           r == [s EXCEPT !.msg = m]
<1>1. page \in Spaces /\ id \in 0..MaxSession /\ MadeIn(page, id) /\ m \in 0..MaxMsg /\ 0 \in 0..MaxMsg
  BY BoundsAreNaturals DEF Delete, IInv, TypeOK, MadeIn, Sessions
<1>2. Room /\ waiting' = waiting \cup {r}
  BY DEF Delete, Launch
<1>3. s \in Request /\ s.kind = "delete" /\ s.space = page /\ s.sid = id /\ IsInOrder(s)
  BY <1>1, <1>2, SentIsARequest
<1>. HIDE DEF s, m
<1>4. r \in Request /\ r.kind = s.kind /\ r.space = s.space /\ r.sid = s.sid /\ IsInOrder(r)
  BY <1>1, <1>3 DEF Request, IsInOrder
<1>5. Shown(page, conv[page]) /\ conv[page] \in Conversation(conv[page].turns)
  BY <1>1, SameConversations DEF Delete, IInv, TypeOK
<1>. HIDE DEF r
<1>6. Effect(page, {}, {r})
  BY <1>1, <1>2, <1>3, <1>4, <1>5, OneBegins DEF Delete
<1>. QED BY <1>1, <1>6, EffectKeeps DEF Delete, IInv, TypeOK

(* The server's steps, and a conversation read back instead of another: one *)
(* request becomes the next.                                                *)
LEMMA OneGoesOn ==
  ASSUME IInv, NEW r \in waiting, NEW q \in Request, Becomes(r, q), Grows,
         UNCHANGED <<conv, kept>>,
         q.space = r.space, q.kind = r.kind, MadeIn(r.space, q.sid)', IsInOrder(q)
  PROVE  Effect(r.space, {r}, {q})
<1>1. r.space \in Spaces
  BY DEF IInv, TypeOK, Request
<1>2. conv[r.space] \in Conversation(conv[r.space].turns) /\ Shown(r.space, conv[r.space])
  BY <1>1, SameConversations DEF IInv, TypeOK
<1>3. MadeIn(r.space, kept[r.space])' /\ MadeIn(r.space, conv[r.space].sid)'
  BY <1>1 DEF Grows, IInv, IdsMadeHere, MadeIn
<1>. QED BY <1>1, <1>2, <1>3, FS_Singleton DEF Becomes, Effect, IInv, TypeOK

LEMMA AtIs ==
  ASSUME IInv, NEW r \in waiting, NEW at \in {"out", "asked", "ok", "gone", "refused", "failed"},
         at = "asked" => r.kind = "send"
  PROVE  LET q == [r EXCEPT !.at = at] IN
         q \in Request /\ q.space = r.space /\ q.kind = r.kind /\ q.sid = r.sid /\ IsInOrder(q)
BY DEF IInv, TypeOK, Request, IsInOrder

LEMMA AtKeeps ==
  ASSUME IInv, NEW r \in waiting, NEW at \in {"out", "asked", "ok", "gone", "refused", "failed"},
         at = "asked" => r.kind = "send", At(r, at), Grows, UNCHANGED <<page, conv, kept, restored, nextMsg>>
  PROVE  IInv'
<1> DEFINE q == [r EXCEPT !.at = at]
<1>1. q \in Request /\ q.space = r.space /\ q.kind = r.kind /\ q.sid = r.sid /\ IsInOrder(q)
  BY AtIs
<1>2. Becomes(r, q) /\ MadeIn(r.space, r.sid)'
  BY DEF At, IInv, IdsMadeHere, MadeIn, Grows
<1>. HIDE DEF q
<1>3. Effect(r.space, {r}, {q})
  BY <1>1, <1>2, OneGoesOn
<1>. QED BY <1>3, EffectKeeps DEF IInv, TypeOK, Request

LEMMA ServeKeeps ==
  ASSUME IInv, NEW r \in waiting, Serve(r)
  PROVE  IInv'
<1>1. Grows
  BY SameStored DEF Serve
<1>2. CASE At(r, "gone") \/ At(r, "failed")
  BY <1>1, <1>2, AtKeeps DEF Serve
<1> DEFINE q == [r EXCEPT !.at = "ok", !.body = stored[r.sid].turns]
<1>3. CASE Live(r.sid) /\ Becomes(r, q)
  <2>1. stored[r.sid].turns \in Seq(Turn)
    BY <1>3 DEF Live, IInv, TypeOK, Stored
  <2>2. q \in Request /\ q.space = r.space /\ q.kind = r.kind /\ q.sid = r.sid /\ IsInOrder(q)
    BY <2>1 DEF IInv, TypeOK, Request, IsInOrder
  <2>3. MadeIn(r.space, r.sid)'
    BY <1>1 DEF IInv, IdsMadeHere, MadeIn, Grows
  <2>. HIDE DEF q
  <2>4. Effect(r.space, {r}, {q})
    BY <1>1, <1>3, <2>2, <2>3, OneGoesOn DEF Serve
  <2>. QED BY <2>4, EffectKeeps DEF Serve, IInv, TypeOK, Request
<1>. QED BY <1>2, <1>3 DEF Serve

(* A turn more, or all of them erased: the conversations stay where they    *)
(* were made.                                                               *)
LEMMA RowGrows ==
  ASSUME IInv, NEW id \in DOMAIN stored, NEW row \in Stored, row.space = stored[id].space,
         stored' = [stored EXCEPT ![id] = row]
  PROVE  Grows
BY DEF IInv, TypeOK, Grows

LEMMA TurnGrows ==
  ASSUME IInv, NEW id \in DOMAIN stored, NEW t \in Turn,
         stored' = [stored EXCEPT ![id].turns = Append(@, t)]
  PROVE  Grows
<1> DEFINE row == [stored[id] EXCEPT !.turns = Append(stored[id].turns, t)]
<1>1. stored[id] \in Stored
  BY DEF IInv, TypeOK
<1>2. Append(stored[id].turns, t) \in Seq(Turn)
  BY <1>1 DEF Stored
<1>3. row \in Stored /\ row.space = stored[id].space
  BY <1>1, <1>2 DEF Stored
<1>4. stored' = [stored EXCEPT ![id] = row]
  OBVIOUS
<1>. HIDE DEF row
<1>. QED BY <1>3, <1>4, RowGrows

LEMMA EraseKeeps ==
  ASSUME IInv, NEW r \in waiting, Erase(r)
  PROVE  IInv'
<1>1. CASE At(r, "failed") /\ UNCHANGED stored
  BY <1>1, SameStored, AtKeeps DEF Erase
<1>2. CASE /\ Live(r.sid) /\ At(r, "ok")
           /\ stored' = [stored EXCEPT ![r.sid].deleted = TRUE, ![r.sid].turns = <<>>]
  <2>1. r.sid \in DOMAIN stored /\ stored[r.sid] \in Stored
    BY <1>2 DEF Live, IInv, TypeOK
  <2> DEFINE row == [stored[r.sid] EXCEPT !.deleted = TRUE, !.turns = <<>>]
  <2>2. row \in Stored /\ row.space = stored[r.sid].space
    <3>1. <<>> \in Seq(Turn)
      OBVIOUS
    <3>. QED BY <2>1, <3>1 DEF Stored
  <2>3. stored' = [stored EXCEPT ![r.sid] = row]
    BY <1>2, <2>1 DEF Stored
  <2>. HIDE DEF row
  <2>4. Grows
    BY <2>1, <2>2, <2>3, RowGrows
  <2>. QED BY <1>2, <2>4, AtKeeps DEF Erase
<1>. QED BY <1>1, <1>2 DEF Erase

LEMMA StoreAnswerKeeps ==
  ASSUME IInv, NEW r \in waiting, StoreAnswer(r)
  PROVE  IInv'
<1>1. CASE At(r, "failed") /\ UNCHANGED stored
  BY <1>1, SameStored, AtKeeps DEF StoreAnswer
<1>2. CASE At(r, "ok") /\ stored' = [stored EXCEPT ![r.sid].turns = Append(@, Reply(r.msg))]
  <2>1. CASE r.sid \in DOMAIN stored
    <3>1. Reply(r.msg) \in Turn
      BY BoundsAreNaturals DEF StoreAnswer, IInv, TypeOK, IsInOrder, Request, Reply, Turn, Msgs
    <3>2. Grows
      BY <1>2, <2>1, <3>1, TurnGrows
    <3>. QED BY <1>2, <3>2, AtKeeps DEF StoreAnswer
  <2>2. CASE r.sid \notin DOMAIN stored
    <3>1. UNCHANGED stored
      BY <1>2, <2>2 DEF IInv, TypeOK
    <3>. QED BY <1>2, <3>1, SameStored, AtKeeps DEF StoreAnswer
  <2>. QED BY <2>1, <2>2
<1>. QED BY <1>1, <1>2 DEF StoreAnswer

LEMMA TakeQuestionKeeps ==
  ASSUME IInv, NEW r \in waiting, TakeQuestion(r)
  PROVE  IInv'
<1>1. r \in Request /\ r.kind = "send" /\ r.msg \in Msgs
  BY BoundsAreNaturals DEF TakeQuestion, IInv, TypeOK, IsInOrder, Request, Msgs
<1>2. Ask(r.msg) \in Turn
  BY <1>1 DEF Ask, Turn
<1>3. CASE (\E at \in {"refused", "failed"} : At(r, at)) /\ UNCHANGED stored
  BY <1>3, SameStored, AtKeeps DEF TakeQuestion
<1>4. CASE /\ Live(r.sid) /\ At(r, "asked")
           /\ stored' = [stored EXCEPT ![r.sid].turns = Append(@, Ask(r.msg))]
  <2>1. Grows
    BY <1>2, <1>4, TurnGrows DEF Live
  <2>. QED BY <1>1, <1>4, <2>1, AtKeeps DEF TakeQuestion
<1> DEFINE id == Cardinality(DOMAIN stored) + 1
           row == [space |-> r.space, turns |-> <<Ask(r.msg)>>, deleted |-> FALSE]
           q == [r EXCEPT !.sid = id, !.at = "asked"]
<1>5. CASE /\ r.sid = 0 /\ id \in Sessions /\ Becomes(r, q)
           /\ stored' = [i \in DOMAIN stored \cup {id} |-> IF i = id THEN row ELSE stored[i]]
  <2>1. PICK n \in Sessions : stored \in [1..n -> Stored]
    BY DEF IInv, TypeOK
  <2>2. DOMAIN stored = 1..n /\ n \in Nat /\ id = n + 1
    <3>1. n \in Nat /\ DOMAIN stored = 1..n
      BY <2>1 DEF Sessions
    <3>2. Cardinality(1..n) = n
      BY <3>1, FS_Interval
    <3>. QED BY <3>1, <3>2
  <2>3. row \in Stored /\ row.space = r.space
    BY <1>1, <1>2 DEF Stored, Request
  <2>4. q \in Request /\ q.space = r.space /\ q.kind = r.kind /\ q.sid = id /\ IsInOrder(q)
    <3>1. id \in 0..MaxSession
      BY <1>5, BoundsAreNaturals DEF Sessions
    <3>. HIDE DEF id
    <3>. QED BY <1>1, <3>1 DEF IInv, IsInOrder, Request
  <2>. HIDE DEF id, row, q
  <2>5. stored' \in [1..id -> Stored]
    <3>1. 1..id = 1..n \cup {id} /\ id \notin 1..n
      BY <2>2
    <3>. QED BY <1>5, <2>1, <2>2, <2>3, <3>1
  <2>6. Grows
    BY <1>5, <2>2, <2>5 DEF Grows
  <2>7. PICK new \in Request : new = q
    BY <2>4
  <2>8. MadeIn(r.space, new.sid)'
    <3>1. stored'[n + 1].space = r.space /\ n + 1 \in DOMAIN stored'
      BY <1>5, <2>2, <2>3
    <3>. QED BY <2>2, <2>4, <2>7, <3>1 DEF MadeIn
  <2>9. Effect(r.space, {r}, {new})
    BY <1>5, <2>4, <2>6, <2>7, <2>8, OneGoesOn DEF TakeQuestion
  <2>. QED BY <2>9, EffectKeeps DEF TakeQuestion, IInv, TypeOK, Request
<1>. QED BY <1>3, <1>4, <1>5 DEF TakeQuestion

(* The answers.                                                             *)
LEMMA OneEnds ==
  ASSUME IInv, NEW r \in waiting, waiting' = waiting \ {r}, UNCHANGED stored,
         \/ UNCHANGED kept
         \/ kept' = [kept EXCEPT ![r.space] = r.sid]
         \/ kept' = [kept EXCEPT ![r.space] = 0],
         NEW T, NEW c \in Conversation(T), Shown(r.space, c),
         c.sid \in {0, r.sid, conv[r.space].sid},
         c.busy => conv[r.space].busy /\ r.kind # "send",
         c.loading => conv[r.space].loading /\ r.kind \notin {"load", "open"}
  PROVE  Effect(r.space, {r}, {}) /\ r.space \in Spaces
<1>1. Grows /\ \A s, id : MadeIn(s, id) => (id = 0 \/ (id \in DOMAIN stored' /\ stored'[id].space = s))
  BY SameStored
<1>2. r.space \in Spaces /\ r.sid \in 0..MaxSession /\ MadeIn(r.space, r.sid) /\ MadeIn(r.space, 0)
  BY DEF IInv, TypeOK, Request, IdsMadeHere, MadeIn
<1>3. /\ kept' \in [Spaces -> 0..MaxSession] /\ \A s \in Spaces \ {r.space} : kept'[s] = kept[s]
      /\ kept'[r.space] \in {0, r.sid, kept[r.space]}
  BY <1>2, BoundsAreNaturals DEF IInv, TypeOK
<1>4. conv'[r.space] = c /\ c \in Conversation(c.turns)
  BY DEF Shown, Conversation
<1>5. MadeIn(r.space, kept[r.space])' /\ MadeIn(r.space, conv[r.space].sid)'
  BY <1>1, <1>2, <1>3, <1>4 DEF IInv, IdsMadeHere, MadeIn
<1>. QED BY <1>1, <1>2, <1>3, <1>4, <1>5, FS_EmptySet DEF Effect

(* What the answers make of a conversation.                                 *)
LEMMA Awaited ==
  ASSUME NEW old, old \in Conversation(old.turns), NEW load \in BOOLEAN
  PROVE  LET c == [old EXCEPT !.loading = load]
         IN  c \in Conversation(old.turns) /\ c.sid = old.sid /\ c.busy = old.busy /\ c.loading = load
BY DEF Conversation

LEMMA PutBack ==
  ASSUME NEW old, old \in Conversation(old.turns), NEW turns, NEW m \in 0..MaxMsg
  PROVE  LET c == [old EXCEPT !.busy = FALSE, !.draft = m, !.turns = turns]
         IN  c \in Conversation(turns) /\ c.sid = old.sid /\ ~c.busy /\ c.loading = old.loading
<1> DEFINE T == {old.turns, turns}
<1>1. old \in [sid: 0..MaxSession, turns: T, busy: BOOLEAN, loading: BOOLEAN, draft: 0..MaxMsg]
  BY DEF Conversation
<1>2. turns \in T
  OBVIOUS
<1>. HIDE DEF T
<1>. QED BY <1>1, <1>2 DEF Conversation

LEMMA Unanswered ==
  ASSUME NEW old, old \in Conversation(old.turns)
  PROVE  LET c == [old EXCEPT !.busy = FALSE]
         IN  c \in Conversation(old.turns) /\ c.sid = old.sid /\ ~c.busy /\ c.loading = old.loading
BY DEF Conversation

LEMMA LoadEndsKeeps ==
  ASSUME IInv, NEW r \in waiting, LoadEnds(r)
  PROVE  IInv'
<1> DEFINE old == conv[r.space]
           c == IF r.at = "ok" THEN [old EXCEPT !.sid = r.sid, !.turns = r.body, !.loading = FALSE]
                               ELSE [old EXCEPT !.loading = FALSE]
<1>1. r.space \in Spaces /\ r.sid \in 0..MaxSession /\ old \in Conversation(old.turns) /\ 0 \in 0..MaxMsg
  BY BoundsAreNaturals DEF IInv, TypeOK, Request
<1>2. /\ c \in Conversation(IF r.at = "ok" THEN r.body ELSE old.turns)
      /\ c.sid \in {r.sid, old.sid} /\ c.busy = old.busy /\ ~c.loading
  <2>. HIDE DEF old
  <2>1. CASE r.at = "ok"
    <3> DEFINE id == r.sid  turns == r.body
    <3>1. id \in 0..MaxSession /\ c = [old EXCEPT !.sid = id, !.turns = turns, !.loading = FALSE]
      BY <1>1, <2>1
    <3>. HIDE DEF turns, c, id
    <3>2. c \in Conversation(turns) /\ c.sid = id /\ c.busy = old.busy /\ ~c.loading
      <4> DEFINE T == {old.turns, turns}
      <4>1. old \in [sid: 0..MaxSession, turns: T, busy: BOOLEAN, loading: BOOLEAN, draft: 0..MaxMsg]
        BY <1>1 DEF Conversation
      <4>2. turns \in T
        OBVIOUS
      <4>. HIDE DEF T
      <4>. QED BY <3>1, <4>1, <4>2 DEF Conversation
    <3>. QED BY <2>1, <3>2 DEF id, turns
  <2>2. CASE r.at # "ok"
    BY <1>1, <2>2, Awaited
  <2>. QED BY <2>1, <2>2
<1>3. Shown(r.space, c)
  BY <1>1, ShowsIsShown DEF LoadEnds
<1>4. /\ waiting' = waiting \ {r} /\ UNCHANGED stored /\ r.kind = "load"
      /\ \/ UNCHANGED kept
         \/ kept' = [kept EXCEPT ![r.space] = r.sid]
         \/ kept' = [kept EXCEPT ![r.space] = 0]
  BY DEF LoadEnds, Remembered
<1>. HIDE DEF c
<1>5. Effect(r.space, {r}, {})
  BY <1>2, <1>3, <1>4, OneEnds
<1>. QED BY <1>1, <1>5, EffectKeeps DEF LoadEnds, IInv, TypeOK

LEMMA SendEndsKeeps ==
  ASSUME IInv, NEW r \in waiting, SendEnds(r)
  PROVE  IInv'
<1> DEFINE old == conv[r.space]
           c == CASE r.at = "ok" -> Answered(old, r)
                  [] r.at = "refused" -> Refused(old, r)
                  [] OTHER -> Failed(old)
<1>1. r.space \in Spaces /\ r.sid \in 0..MaxSession /\ r.msg \in 0..MaxMsg /\ old \in Conversation(old.turns)
  BY DEF IInv, TypeOK, Request
<1>2. old.draft \in 0..MaxMsg
  BY <1>1 DEF Conversation
<1>3. Shown(r.space, c)
  BY <1>1, ShowsIsShown DEF SendEnds
<1>4. /\ waiting' = waiting \ {r} /\ UNCHANGED stored /\ r.kind = "send"
      /\ \/ UNCHANGED kept
         \/ kept' = [kept EXCEPT ![r.space] = r.sid]
         \/ kept' = [kept EXCEPT ![r.space] = 0]
  BY DEF SendEnds, Remembered
<1>5. \E T : c \in Conversation(T) /\ c.sid \in {r.sid, old.sid} /\ ~c.busy /\ c.loading = old.loading
  <2>1. CASE r.at = "ok"
    <3> DEFINE turns == Append(old.turns, Reply(r.msg))
    <3>1. c = [old EXCEPT !.sid = r.sid, !.turns = turns, !.busy = FALSE]
      BY <2>1 DEF Answered
    <3> DEFINE id == r.sid
    <3>2. id \in 0..MaxSession /\ c = [old EXCEPT !.sid = id, !.turns = turns, !.busy = FALSE]
      BY <1>1, <3>1
    <3>. HIDE DEF old, turns, c, id
    <3>3. c \in Conversation(turns) /\ c.sid = id /\ ~c.busy /\ c.loading = old.loading
      <4> DEFINE T == {old.turns, turns}
      <4>1. old \in [sid: 0..MaxSession, turns: T, busy: BOOLEAN, loading: BOOLEAN, draft: 0..MaxMsg]
        BY <1>1 DEF Conversation
      <4>2. turns \in T
        OBVIOUS
      <4>. HIDE DEF T
      <4>. QED BY <3>2, <4>1, <4>2 DEF Conversation
    <3>. QED BY <3>3 DEF id
  <2>2. CASE r.at = "refused"
    <3> DEFINE m == IF old.draft = 0 THEN r.msg ELSE old.draft
               turns == SelectSeq(old.turns, LAMBDA t : t /= Ask(r.msg))
    <3>1. m \in 0..MaxMsg
      BY <1>1, <1>2
    <3>2. c = [old EXCEPT !.busy = FALSE, !.draft = m, !.turns = turns]
      BY <2>2 DEF Refused
    <3>. HIDE DEF old, m, turns, c
    <3>. QED BY <1>1, <3>1, <3>2, PutBack
  <2>3. CASE r.at \notin {"ok", "refused"}
    <3>1. c = [old EXCEPT !.busy = FALSE]
      BY <2>3 DEF Failed
    <3>. HIDE DEF old, c
    <3>. QED BY <1>1, <3>1, Unanswered
  <2>. QED BY <2>1, <2>2, <2>3
<1>. HIDE DEF c
<1>6. Effect(r.space, {r}, {})
  BY <1>3, <1>4, <1>5, OneEnds
<1>. QED BY <1>1, <1>6, EffectKeeps DEF SendEnds, IInv, TypeOK

LEMMA DeleteEndsKeeps ==
  ASSUME IInv, NEW r \in waiting, DeleteEnds(r)
  PROVE  IInv'
<1>1. r.space \in Spaces
  BY DEF IInv, TypeOK, Request
<1>2. CASE Fresh(r.space)
  <2>1. PICK c \in Conversation(<<>>) : /\ Shown(r.space, c) /\ c.sid = 0 /\ ~c.busy /\ ~c.loading
                                        /\ kept' = [kept EXCEPT ![r.space] = 0]
    BY <1>1, <1>2, FreshIs
  <2>2. Effect(r.space, {r}, {})
    BY <2>1, OneEnds DEF DeleteEnds
  <2>. QED BY <1>1, <2>2, EffectKeeps DEF DeleteEnds, IInv, TypeOK
<1>3. CASE UNCHANGED <<conv, kept>>
  <2>1. Shown(r.space, conv[r.space]) /\ conv[r.space] \in Conversation(conv[r.space].turns)
    BY <1>1, <1>3, SameConversations DEF IInv, TypeOK
  <2>2. Effect(r.space, {r}, {})
    BY <1>3, <2>1, OneEnds DEF DeleteEnds
  <2>. QED BY <1>1, <2>2, EffectKeeps DEF DeleteEnds, IInv, TypeOK
<1>. QED BY <1>2, <1>3 DEF DeleteEnds

LEMMA OpenEndsKeeps ==
  ASSUME IInv, NEW r \in waiting, OpenEnds(r)
  PROVE  IInv'
<1> DEFINE old == conv[r.space]
<1>1. /\ r.space \in Spaces /\ r \in Request /\ old \in Conversation(old.turns)
      /\ r.sid \in 0..MaxSession /\ 0 \in 0..MaxMsg /\ UNCHANGED <<page, restored, stored, nextMsg>>
  BY BoundsAreNaturals DEF IInv, TypeOK, Request, OpenEnds
<1>2. old.draft \in 0..MaxMsg
  BY <1>1 DEF Conversation
<1>3. CASE /\ waiting' = waiting \ {r} /\ kept' = Remembered(r.space, r.sid)
           /\ Shows(r.space, [EMPTY EXCEPT !.draft = old.draft, !.sid = r.sid, !.turns = r.body])
  <2> DEFINE c == [EMPTY EXCEPT !.draft = old.draft, !.sid = r.sid, !.turns = r.body]
  <2>1. EMPTY \in Conversation(EMPTY.turns) /\ ~EMPTY.busy /\ ~EMPTY.loading
    BY BoundsAreNaturals DEF EMPTY, Conversation
  <2>2. c \in Conversation(r.body) /\ c.sid = r.sid /\ ~c.busy /\ ~c.loading
    <3> DEFINE id == r.sid  turns == r.body  m == old.draft  e == EMPTY
    <3>1. /\ id \in 0..MaxSession /\ m \in 0..MaxMsg /\ e \in Conversation(e.turns) /\ ~e.busy /\ ~e.loading
          /\ c = [e EXCEPT !.draft = m, !.sid = id, !.turns = turns]
      BY <1>1, <1>2, <2>1
    <3>. HIDE DEF turns, c, id, m, e
    <3>2. c \in Conversation(turns) /\ c.sid = id /\ c.busy = e.busy /\ c.loading = e.loading
      <4> DEFINE T == {e.turns, turns}
      <4>1. e \in [sid: 0..MaxSession, turns: T, busy: BOOLEAN, loading: BOOLEAN, draft: 0..MaxMsg]
        BY <3>1 DEF Conversation
      <4>2. turns \in T
        OBVIOUS
      <4>. HIDE DEF T
      <4>. QED BY <3>1, <4>1, <4>2 DEF Conversation
    <3>. QED BY <3>1, <3>2 DEF id, turns
  <2>3. Shown(r.space, c)
    BY <1>1, <1>3, ShowsIsShown
  <2>. HIDE DEF c
  <2>4. Effect(r.space, {r}, {})
    BY <1>1, <1>3, <2>2, <2>3, OneEnds DEF Remembered
  <2>. QED BY <1>1, <2>4, EffectKeeps DEF IInv, TypeOK
<1>4. CASE /\ waiting' = waiting \ {r} /\ UNCHANGED kept
           /\ Shows(r.space, [old EXCEPT !.loading = FALSE])
  <2> DEFINE c == [old EXCEPT !.loading = FALSE]
  <2>2. c \in Conversation(old.turns) /\ c.sid = old.sid /\ c.busy = old.busy /\ ~c.loading
    <3>. HIDE DEF old
    <3>. QED BY <1>1, Awaited
  <2>3. Shown(r.space, c)
    BY <1>1, <1>4, ShowsIsShown
  <2>. HIDE DEF c
  <2>4. Effect(r.space, {r}, {})
    BY <1>1, <1>4, <2>2, <2>3, OneEnds DEF OpenEnds
  <2>. QED BY <1>1, <2>4, EffectKeeps DEF IInv, TypeOK
<1> DEFINE q == [r EXCEPT !.kind = "load", !.sid = kept[r.space], !.at = "out"]
           c == [old EXCEPT !.loading = TRUE]
<1>5. CASE /\ Becomes(r, q) /\ Shows(r.space, c) /\ UNCHANGED kept
  <2>1. kept[r.space] \in 0..MaxSession /\ MadeIn(r.space, kept[r.space])
    BY <1>1 DEF IInv, TypeOK, IdsMadeHere
  <2>2. q \in Request /\ q.space = r.space /\ q.kind = "load" /\ q.sid = kept[r.space] /\ IsInOrder(q)
    BY <1>1, <2>1 DEF Request, IsInOrder
  <2>3. c \in Conversation(old.turns) /\ c.sid = old.sid /\ c.busy = old.busy /\ c.loading = TRUE
    <3>. HIDE DEF old
    <3>. QED BY <1>1, Awaited
  <2>4. Shown(r.space, c)
    BY <1>1, <1>5, ShowsIsShown
  <2>. HIDE DEF q, c
  <2>5. PICK new \in Request, d \in Conversation(old.turns) : new = q /\ d = c
    BY <2>2, <2>3
  <2>6. Grows /\ \A s, id : MadeIn(s, id) => (id = 0 \/ (id \in DOMAIN stored' /\ stored'[id].space = s))
    BY <1>1, SameStored
  <2>7. conv'[r.space] = d /\ d \in Conversation(d.turns)
    BY <2>4, <2>5 DEF Shown, Conversation
  <2>8. MadeIn(r.space, kept[r.space])' /\ MadeIn(r.space, conv[r.space].sid)' /\ MadeIn(r.space, new.sid)'
    BY <1>1, <1>5, <2>1, <2>2, <2>3, <2>5, <2>6, <2>7 DEF IInv, IdsMadeHere, MadeIn
  <2>9. Effect(r.space, {r}, {new})
    BY <1>1, <1>5, <2>2, <2>3, <2>4, <2>5, <2>6, <2>7, <2>8, FS_Singleton
       DEF Effect, Becomes, OpenEnds, IInv, TypeOK
  <2>. QED BY <1>1, <2>9, EffectKeeps DEF IInv, TypeOK
<1>. QED BY <1>3, <1>4, <1>5 DEF OpenEnds

LEMMA ChatStep == IInv /\ [Next]_vars => IInv'
<1>. SUFFICES ASSUME IInv, [Next]_vars PROVE IInv'
  OBVIOUS
<1>1. CASE Acts
  BY <1>1, VisitKeeps, TypeKeeps, SendKeeps, NewChatKeeps, OpenKeeps, DeleteKeeps DEF Acts
<1>2. ASSUME NEW r \in waiting, Goes(r) PROVE IInv'
  BY <1>2, ServeKeeps, EraseKeeps, TakeQuestionKeeps, StoreAnswerKeeps, LoadEndsKeeps, OpenEndsKeeps,
     SendEndsKeeps, DeleteEndsKeeps DEF Goes
<1>3. CASE UNCHANGED vars
  BY <1>3 DEF vars, IInv, TypeOK, IdsMadeHere, MadeIn, LocksHaveReason
<1>. QED BY <1>1, <1>2, <1>3 DEF Next

LEMMA ChatBegins == Init => IInv
<1>. SUFFICES ASSUME Init PROVE IInv
  OBVIOUS
<1>1. 1 \in Sessions /\ 1 \in Msgs /\ 0 \in 0..MaxSession /\ 0 \in 0..MaxMsg /\ 1 \in 0..MaxSession
  BY BoundsAreNaturals DEF Sessions, Msgs
<1>2. EMPTY \in Conversation(EMPTY.turns) /\ ~EMPTY.busy /\ ~EMPTY.loading /\ EMPTY.sid = 0
  BY <1>1 DEF EMPTY, Conversation
<1>3. [space |-> page, turns |-> <<Ask(1), Reply(1)>>, deleted |-> FALSE] \in Stored
  <2>1. Ask(1) \in Turn /\ Reply(1) \in Turn
    BY <1>1 DEF Ask, Reply, Turn
  <2>. QED BY <2>1 DEF Init, Stored
<1>4. stored \in [1..1 -> Stored]
  <2>1. {1} = 1..1
    OBVIOUS
  <2>. QED BY <1>3, <2>1 DEF Init
<1>5. TypeOK
  BY <1>1, <1>2, <1>4, FS_EmptySet DEF Init, TypeOK
<1>6. IdsMadeHere
  BY <1>2 DEF Init, IdsMadeHere, MadeIn
<1>7. LocksHaveReason
  BY <1>2 DEF Init, LocksHaveReason
<1>. QED BY <1>5, <1>6, <1>7 DEF IInv, Init

------------------------------------------------------------------------------
(* The screens.                                                             *)

LEMMA ScreensAreWellFormed == \A s \in S!Screens : S!WellFormed(s)
<1>. USE DEF S!WellFormed, S!R, S!KeysOf, S!Screen, S!Read, S!Always, S!Cleared, S!Kept, S!After, S!While, S!Write
<1>1. S!WellFormed(S!ResourceProvider)
  BY DEF S!ResourceProvider
<1>2. S!WellFormed(S!SpaceProvider)
  BY DEF S!SpaceProvider
<1>3. S!WellFormed(S!RailApprovals)
  BY DEF S!RailApprovals
<1>4. S!WellFormed(S!AppShell)
  BY DEF S!AppShell
<1>5. S!WellFormed(S!GlobalSearch)
  BY DEF S!GlobalSearch
<1>6. S!WellFormed(S!SearchSelect)
  BY DEF S!SearchSelect
<1>7. S!WellFormed(S!DeleteDialog)
  BY DEF S!DeleteDialog
<1>8. S!WellFormed(S!Login)
  BY DEF S!Login
<1>9. S!WellFormed(S!SignInForm)
  BY DEF S!SignInForm
<1>10. S!WellFormed(S!RegisterForm)
  BY DEF S!RegisterForm
<1>11. S!WellFormed(S!ChatHistoryPanel)
  BY DEF S!ChatHistoryPanel
<1>12. S!WellFormed(S!Home)
  BY DEF S!Home
<1>13. S!WellFormed(S!DataSources)
  BY DEF S!DataSources
<1>14. S!WellFormed(S!ConnectWizard)
  BY DEF S!ConnectWizard
<1>15. S!WellFormed(S!ConnectionDialog)
  BY DEF S!ConnectionDialog
<1>16. S!WellFormed(S!ResourcePreview)
  BY DEF S!ResourcePreview
<1>17. S!WellFormed(S!ResourceBrowser)
  BY DEF S!ResourceBrowser
<1>18. S!WellFormed(S!ResourceDetail)
  BY DEF S!ResourceDetail
<1>19. S!WellFormed(S!DataGrid)
  BY DEF S!DataGrid
<1>20. S!WellFormed(S!SpacesPage)
  BY DEF S!SpacesPage
<1>21. S!WellFormed(S!CreateDialog)
  BY DEF S!CreateDialog
<1>22. S!WellFormed(S!SyncPanel)
  BY DEF S!SyncPanel
<1>23. S!WellFormed(S!NewSync)
  BY DEF S!NewSync
<1>24. S!WellFormed(S!Schedules)
  BY DEF S!Schedules
<1>25. S!WellFormed(S!Overview)
  BY DEF S!Overview
<1>26. S!WellFormed(S!GraphView)
  BY DEF S!GraphView
<1>27. S!WellFormed(S!ObjectExplorer)
  BY DEF S!ObjectExplorer
<1>28. S!WellFormed(S!ObjectDetail)
  BY DEF S!ObjectDetail
<1>29. S!WellFormed(S!OntologyManager)
  BY DEF S!OntologyManager
<1>30. S!WellFormed(S!ObjectTypeEditor)
  BY DEF S!ObjectTypeEditor
<1>31. S!WellFormed(S!CreateObjectTypeDialog)
  BY DEF S!CreateObjectTypeDialog
<1>32. S!WellFormed(S!LinkBuilder)
  BY DEF S!LinkBuilder
<1>33. S!WellFormed(S!Functions)
  BY DEF S!Functions
<1>34. S!WellFormed(S!FunctionReview)
  BY DEF S!FunctionReview
<1>35. S!WellFormed(S!Actions)
  BY DEF S!Actions
<1>36. S!WellFormed(S!Proposals)
  BY DEF S!Proposals
<1>37. S!WellFormed(S!ProposalCard)
  BY DEF S!ProposalCard
<1>38. S!WellFormed(S!DashboardList)
  BY DEF S!DashboardList
<1>39. S!WellFormed(S!NewBoardDialog)
  BY DEF S!NewBoardDialog
<1>40. S!WellFormed(S!DashboardDetail)
  BY DEF S!DashboardDetail
<1>41. S!WellFormed(S!DashboardHistory)
  BY DEF S!DashboardHistory
<1>42. S!WellFormed(S!CostAnalysis)
  BY DEF S!CostAnalysis
<1>43. S!WellFormed(S!Admin)
  BY DEF S!Admin
<1>44. S!WellFormed(S!Activity)
  BY DEF S!Activity
<1>45. S!WellFormed(S!SettingsPanel)
  BY DEF S!SettingsPanel
<1>46. S!WellFormed(S!AddUserDialog)
  BY DEF S!AddUserDialog
<1>47. S!WellFormed(S!ManageUserDialog)
  BY DEF S!ManageUserDialog
<1>. QED
  BY <1>1, <1>2, <1>3, <1>4, <1>5, <1>6, <1>7, <1>8, <1>9, <1>10, <1>11,
     <1>12, <1>13, <1>14, <1>15, <1>16, <1>17, <1>18, <1>19, <1>20, <1>21,
     <1>22, <1>23, <1>24, <1>25, <1>26, <1>27, <1>28, <1>29, <1>30, <1>31,
     <1>32, <1>33, <1>34, <1>35, <1>36, <1>37, <1>38, <1>39, <1>40, <1>41,
     <1>42, <1>43, <1>44, <1>45, <1>46, <1>47
  DEF S!Screens

(* What is under way after a step: what was, and what was asked again. A    *)
(* read that is asked for other things is counted.                          *)
LEMMA DueAre ==
  ASSUME NEW rs, NEW ks, NEW n, NEW f \in S!Due(rs, ks, n)
  PROVE  f.read \in rs /\ f.n = n[f.read] /\ f.key = S!Asked(f.read, ks) /\ ~f.past
BY DEF S!Due

LEMMA CountedIs ==
  ASSUME S!TypeOK, NEW rs
  PROVE  /\ S!Counted(rs) \in [S!R(screen) -> Nat \ {0}]
         /\ \A r \in S!R(screen) : S!Counted(rs)[r] = latest[r] + IF r \in rs THEN 1 ELSE 0
BY DEF S!TypeOK, S!Counted

AnswersAreCounted == \A f \in flights : f.read \in S!R(screen) /\ f.n \in 1..latest[f.read]

LEMMA AnswersKeep ==
  ASSUME S!IInv, UNCHANGED screen, NEW counted, latest' = S!Counted(counted),
         NEW due, due \subseteq S!R(screen),
         \A f \in flights' : f \in flights \/ f \in S!Due(due, keys', latest'),
         \A r \in S!R(screen) \ counted : S!Active(r, keys')
            => S!Active(r, keys) /\ S!Asked(r, keys') = S!Asked(r, keys)
  PROVE  AnswersAreCounted' /\ S!LatestIsCurrent'
<1>1. S!Counted(counted) \in [S!R(screen) -> Nat \ {0}]
      /\ \A r \in S!R(screen) : latest'[r] = latest[r] + IF r \in counted THEN 1 ELSE 0
  BY CountedIs DEF S!IInv
<1>2. latest \in [S!R(screen) -> Nat \ {0}] /\ AnswersAreCounted
  BY DEF S!IInv, S!TypeOK, AnswersAreCounted
<1>3. \A r : S!Guarded(r)' <=> S!Guarded(r)
  BY DEF S!Guarded
<1>4. ASSUME NEW f \in flights'
      PROVE  /\ f.read \in S!R(screen) /\ f.n \in 1..latest'[f.read]
             /\ S!Guarded(f.read) => ~f.past /\ (f.n = latest'[f.read] /\ S!Active(f.read, keys')
                                                  => f.key = S!Asked(f.read, keys'))
  <2>1. CASE f \in S!Due(due, keys', latest')
    <3>1. f.read \in due /\ f.n = latest'[f.read] /\ f.key = S!Asked(f.read, keys') /\ ~f.past
      BY <2>1, DueAre
    <3>. QED BY <1>1, <3>1
  <2>2. CASE f \in flights
    <3>1. f.read \in S!R(screen) /\ f.n \in 1..latest[f.read]
      BY <1>2, <2>2 DEF AnswersAreCounted
    <3>2. f.n \in 1..latest'[f.read] /\ (f.read \in counted => f.n # latest'[f.read])
          /\ (f.read \notin counted => latest'[f.read] = latest[f.read])
      BY <1>1, <1>2, <3>1
    <3>. QED BY <2>2, <3>1, <3>2 DEF S!IInv, S!LatestIsCurrent
  <2>. QED BY <2>1, <2>2
<1>. QED BY <1>3, <1>4 DEF AnswersAreCounted, S!LatestIsCurrent, S!R, S!Asked, S!Active

(* The locks, and the writes they are for.                                  *)
WritesAreLocked ==
    /\ held \subseteq {0} \cup S!Rows
    /\ writing \subseteq [id: Nat, rows: SUBSET S!Rows, left: 1..4, what: {screen.writes[i] : i \in DOMAIN screen.writes}]
    /\ S!PageHasOneWrite /\ S!RowsHaveOneWrite

LEMMA InTwoParts ==
  S!IInv => WritesAreLocked /\ AnswersAreCounted
BY DEF S!IInv, S!TypeOK, AnswersAreCounted, WritesAreLocked

LEMMA PutTogether ==
  screen \in S!Screens /\ keys \in [S!KeysOf(screen) -> 1..2] /\ DOMAIN shown = S!R(screen)
  /\ latest \in [S!R(screen) -> Nat \ {0}] /\ moves \in 0..MaxMoves
  /\ AnswersAreCounted /\ S!LatestIsCurrent /\ WritesAreLocked
  => S!IInv
BY DEF S!IInv, S!TypeOK, AnswersAreCounted, WritesAreLocked

LEMMA PutTogetherLater ==
  screen' \in S!Screens /\ keys' \in [S!KeysOf(screen') -> 1..2] /\ DOMAIN shown' = S!R(screen')
  /\ latest' \in [S!R(screen') -> Nat \ {0}] /\ moves' \in 0..MaxMoves
  /\ AnswersAreCounted' /\ S!LatestIsCurrent' /\ WritesAreLocked'
  => S!IInv'
BY DEF S!IInv, S!TypeOK, AnswersAreCounted, WritesAreLocked, S!R, S!KeysOf

LEMMA StartLocks ==
  ASSUME S!IInv, NEW i \in DOMAIN screen.writes, NEW rows \in S!Choices, S!Start(screen.writes[i], rows)
  PROVE  WritesAreLocked'
<1> DEFINE w == screen.writes[i]
           x == [id |-> moves', rows |-> rows, what |-> w, left |-> S!Requests(w, rows)]
<1>1. WritesAreLocked /\ moves' \in Nat /\ S!Requests(w, rows) \in 1..4
  BY InTwoParts, ScreensAreWellFormed DEF S!IInv, S!TypeOK, S!Start, S!WellFormed, S!Requests
<1>2. rows \in SUBSET S!Rows
  <2>1. rows = S!Rows \/ \E i1 \in S!Rows : rows = {i1}
    BY Zenon DEF S!Choices
  <2>. QED BY <2>1
<1>3. x \in [id: Nat, rows: SUBSET S!Rows, left: 1..4, what: {screen.writes[j] : j \in DOMAIN screen.writes}]
      /\ x.rows = rows
  BY <1>1, <1>2
<1>4. ~S!Locked(rows) /\ held' = S!Lock(rows) /\ writing' = writing \cup {x} /\ screen' = screen
  BY DEF S!Start
<1>. HIDE DEF x
<1>5. S!PageHasOneWrite'
  BY <1>1, <1>4 DEF WritesAreLocked, S!PageHasOneWrite, S!Locked, S!Lock
<1>6. S!RowsHaveOneWrite'
  <2>1. SUFFICES ASSUME screen.lock = "rows" PROVE S!RowsHaveOneWrite'
    BY <1>4 DEF S!RowsHaveOneWrite
  <2>2. held' = held \cup rows /\ rows \cap held = {}
    BY <1>4, <2>1 DEF S!Lock, S!Locked
  <2>3. held = {j \in S!Rows : \E y \in writing : j \in y.rows} /\ \A y, z \in writing : y.rows \cap z.rows /= {} => y = z
    BY <1>1, <2>1 DEF WritesAreLocked, S!RowsHaveOneWrite
  <2>4. held' = {j \in S!Rows : \E y \in writing' : j \in y.rows}
    BY <1>2, <1>3, <1>4, <2>2, <2>3
  <2>5. \A y \in writing : y.rows \cap x.rows = {}
    BY <1>3, <2>2, <2>3
  <2>6. ASSUME NEW y \in writing', NEW z \in writing', y.rows \cap z.rows /= {} PROVE y = z
    <3>1. CASE y \in writing /\ z \in writing
      BY <2>3, <2>6, <3>1
    <3>2. CASE y = x \/ z = x
      BY <1>4, <2>5, <2>6, <3>2
    <3>. QED BY <1>4, <3>1, <3>2
  <2>. QED BY <1>4, <2>4, <2>6 DEF S!RowsHaveOneWrite
<1>7. held' \subseteq {0} \cup S!Rows
  BY <1>1, <1>2, <1>4 DEF WritesAreLocked, S!Lock
<1>. QED BY <1>1, <1>3, <1>4, <1>5, <1>6, <1>7 DEF WritesAreLocked

LEMMA StepLocks ==
  ASSUME S!IInv, NEW x \in writing, S!Step(x)
  PROVE  WritesAreLocked'
<1> DEFINE y == [x EXCEPT !.left = @ - 1]
<1>1. WritesAreLocked
  BY InTwoParts
<1>2. x \in [id: Nat, rows: SUBSET S!Rows, left: 1..4, what: {screen.writes[j] : j \in DOMAIN screen.writes}]
  BY <1>1 DEF WritesAreLocked
<1>3. y \in [id: Nat, rows: SUBSET S!Rows, left: 1..4, what: {screen.writes[j] : j \in DOMAIN screen.writes}]
      /\ y.rows = x.rows
  BY <1>2 DEF S!Step
<1>4. held' = held /\ writing' = (writing \ {x}) \cup {y} /\ screen' = screen
  BY DEF S!Step
<1>. HIDE DEF y
<1>5. S!PageHasOneWrite'
  BY <1>1, <1>4 DEF WritesAreLocked, S!PageHasOneWrite
<1>6. S!RowsHaveOneWrite'
  <2>1. \A j : (\E z \in writing' : j \in z.rows) <=> (\E z \in writing : j \in z.rows)
    BY <1>3, <1>4
  <2>2. ASSUME screen.lock = "rows", NEW u \in writing', NEW v \in writing', u.rows \cap v.rows /= {} PROVE u = v
    <3> DEFINE before(z) == IF z = y THEN x ELSE z
    <3>1. \A z \in writing' : before(z) \in writing /\ before(z).rows = z.rows
      BY <1>3, <1>4
    <3>2. before(u) = before(v)
      BY <1>1, <2>2, <3>1 DEF WritesAreLocked, S!RowsHaveOneWrite
    <3>. QED BY <1>4, <3>2
  <2>. QED BY <1>1, <1>4, <2>1, <2>2 DEF WritesAreLocked, S!RowsHaveOneWrite
<1>. QED BY <1>1, <1>3, <1>4, <1>5, <1>6 DEF WritesAreLocked

LEMMA EndsUnlocks ==
  ASSUME S!IInv, NEW x \in writing, NEW again, S!Ends(x, again)
  PROVE  WritesAreLocked'
<1>1. WritesAreLocked
  BY InTwoParts
<1>2. held' = S!Unlock(x) /\ writing' = writing \ {x} /\ screen' = screen
  BY DEF S!Ends
<1>3. S!PageHasOneWrite'
  BY <1>1, <1>2 DEF WritesAreLocked, S!PageHasOneWrite, S!Unlock
<1>4. S!RowsHaveOneWrite'
  <2>1. SUFFICES ASSUME screen.lock = "rows" PROVE S!RowsHaveOneWrite'
    BY <1>2 DEF S!RowsHaveOneWrite
  <2>2. held' = held \ x.rows /\ held = {j \in S!Rows : \E y \in writing : j \in y.rows}
        /\ \A y, z \in writing : y.rows \cap z.rows /= {} => y = z
    BY <1>1, <1>2, <2>1 DEF WritesAreLocked, S!RowsHaveOneWrite, S!Unlock
  <2>3. \A y \in writing' : y \in writing /\ y.rows \cap x.rows = {}
    BY <1>2, <2>2
  <2>4. held' = {j \in S!Rows : \E y \in writing' : j \in y.rows}
    BY <1>2, <2>2, <2>3
  <2>. QED BY <1>2, <2>2, <2>4 DEF S!RowsHaveOneWrite
<1>. QED BY <1>1, <1>2, <1>3, <1>4 DEF WritesAreLocked, S!Unlock

(* The person's moves.                                                      *)
LEMMA TurnKeeps ==
  ASSUME S!IInv, NEW k \in DOMAIN keys, S!Turn(k)
  PROVE  S!IInv'
<1> DEFINE new == S!Turned(k)
           moved == {j \in DOMAIN keys : new[j] /= keys[j]}
           rs == {r \in S!R(screen) : screen.reads[r].on \cap moved /= {} /\ S!Active(r, new)}
           left == [r \in S!R(screen) |-> IF screen.reads[r].clears \cap moved /= {} THEN S!Nothing ELSE shown[r]]
           ready == {r \in rs : screen.reads[r].after = 0 \/ left[screen.reads[r].after] /= S!Nothing}
<1>1. /\ moves < MaxMoves /\ moves' = moves + 1 /\ screen' = screen
      /\ keys' = new /\ shown' = left /\ latest' = S!Counted(rs)
      /\ flights' = flights \cup S!Due(ready, keys', latest')
      /\ UNCHANGED <<held, writing>>
  BY DEF S!Turn
<1>2. ready \subseteq S!R(screen)
  OBVIOUS
<1>3. ASSUME NEW r \in S!R(screen) \ rs, S!Active(r, keys')
      PROVE  S!Active(r, keys) /\ S!Asked(r, keys') = S!Asked(r, keys)
  <2>1. \A j \in screen.reads[r].on : j \in DOMAIN keys
    BY DEF S!IInv, S!TypeOK, S!KeysOf
  <2>2. \A j \in screen.reads[r].on : keys'[j] = keys[j]
    BY <1>1, <1>3, <2>1
  <2>3. screen.reads[r].while \subseteq screen.reads[r].on
    BY ScreensAreWellFormed DEF S!IInv, S!TypeOK, S!WellFormed
  <2>. QED BY <1>3, <2>2, <2>3 DEF S!Active, S!Asked
<1>4. AnswersAreCounted' /\ S!LatestIsCurrent'
  <2>. HIDE DEF new, moved, rs, left, ready
  <2>. QED BY <1>1, <1>2, <1>3, AnswersKeep
<1>5. latest' \in [S!R(screen) -> Nat \ {0}]
  <2>. HIDE DEF new, moved, rs, left, ready
  <2>. QED BY <1>1, CountedIs DEF S!IInv
<1>6. keys' \in [S!KeysOf(screen) -> 1..2] /\ DOMAIN shown' = S!R(screen) /\ moves' \in 0..MaxMoves
  <2>1. new \in [S!KeysOf(screen) -> 1..2]
    <3>1. keys \in [S!KeysOf(screen) -> 1..2] /\ keys[k] \in 1..2
      BY DEF S!IInv, S!TypeOK
    <3>2. [keys EXCEPT ![k] = 3 - @] \in [S!KeysOf(screen) -> 1..2]
      BY <3>1
    <3>3. \/ new = [keys EXCEPT ![k] = 3 - @]
          \/ new = [[keys EXCEPT ![k] = 3 - @] EXCEPT !["open"] = 2]
          \/ new = [[keys EXCEPT ![k] = 3 - @] EXCEPT !["term"] = 1]
      BY DEF S!Turned
    <3>. QED BY <3>2, <3>3
  <2>. HIDE DEF new
  <2>. QED BY <1>1, <2>1, MovesAreNatural DEF S!IInv, S!TypeOK
<1>7. WritesAreLocked'
  BY <1>1, InTwoParts DEF WritesAreLocked, S!PageHasOneWrite, S!RowsHaveOneWrite
<1>8. /\ screen' \in S!Screens /\ keys' \in [S!KeysOf(screen') -> 1..2] /\ DOMAIN shown' = S!R(screen')
      /\ latest' \in [S!R(screen') -> Nat \ {0}]
  <2>. HIDE DEF new, moved, rs, left, ready
  <2>. QED BY <1>1, <1>5, <1>6 DEF S!IInv, S!TypeOK
<1>. HIDE DEF new, moved, rs, left, ready
<1>. QED BY <1>4, <1>6, <1>7, <1>8, PutTogetherLater

LEMMA StartKeeps ==
  ASSUME S!IInv, NEW i \in DOMAIN screen.writes, NEW rows \in S!Choices, S!Start(screen.writes[i], rows)
  PROVE  S!IInv'
<1>1. WritesAreLocked'
  BY StartLocks
<1>2. UNCHANGED <<screen, keys, shown, latest, flights>> /\ moves' \in 0..MaxMoves
  BY MovesAreNatural DEF S!Start, S!IInv, S!TypeOK
<1>3. AnswersAreCounted' /\ S!LatestIsCurrent'
  BY <1>2 DEF S!IInv, S!TypeOK, AnswersAreCounted, S!LatestIsCurrent, S!Guarded, S!Asked, S!Active, S!R
<1>. QED BY <1>1, <1>2, <1>3 DEF S!IInv, S!TypeOK, AnswersAreCounted, WritesAreLocked, S!R, S!KeysOf

(* The answers to what was read.                                            *)
LEMMA ArriveKeeps ==
  ASSUME S!IInv, NEW f \in flights, S!Arrive(f)
  PROVE  S!IInv'
<1> DEFINE next == {r \in S!R(screen) : S!Paints(f) /\ screen.reads[r].after = f.read}
<1>1. /\ shown' = IF S!Paints(f) THEN [shown EXCEPT ![f.read] = [n |-> f.n, key |-> f.key]] ELSE shown
      /\ latest' = S!Counted(next)
      /\ flights' = (flights \ {f}) \cup S!Due(next, keys, latest')
      /\ UNCHANGED <<screen, keys, held, writing, moves>>
  BY DEF S!Arrive
<1>2. next \subseteq S!R(screen)
  OBVIOUS
<1>. HIDE DEF next
<1>3. AnswersAreCounted' /\ S!LatestIsCurrent'
  BY <1>1, <1>2, AnswersKeep
<1>4. latest' \in [S!R(screen) -> Nat \ {0}]
  BY <1>1, CountedIs DEF S!IInv
<1>5. WritesAreLocked'
  BY <1>1, InTwoParts DEF WritesAreLocked, S!PageHasOneWrite, S!RowsHaveOneWrite
<1>. QED BY <1>1, <1>3, <1>4, <1>5 DEF S!IInv, S!TypeOK, AnswersAreCounted, WritesAreLocked, S!R, S!KeysOf

LEMMA LoseKeeps ==
  ASSUME S!IInv, NEW f \in flights, S!Lose(f)
  PROVE  S!IInv'
<1>1. flights' \subseteq flights /\ UNCHANGED <<screen, keys, shown, latest, held, writing, moves>>
  BY DEF S!Lose
<1>2. WritesAreLocked'
  BY <1>1, InTwoParts DEF WritesAreLocked, S!PageHasOneWrite, S!RowsHaveOneWrite
<1>3. AnswersAreCounted' /\ S!LatestIsCurrent'
  BY <1>1 DEF S!IInv, S!TypeOK, AnswersAreCounted, S!LatestIsCurrent, S!Guarded, S!Asked, S!Active, S!R
<1>. QED BY <1>1, <1>2, <1>3 DEF S!IInv, S!TypeOK, AnswersAreCounted, WritesAreLocked, S!R, S!KeysOf

(* The requests of a write, and its end.                                    *)
LEMMA StepKeeps ==
  ASSUME S!IInv, NEW x \in writing, S!Step(x)
  PROVE  S!IInv'
<1>1. WritesAreLocked'
  BY StepLocks
<1>2. UNCHANGED <<screen, keys, shown, latest, flights, moves>>
  BY DEF S!Step
<1>3. AnswersAreCounted' /\ S!LatestIsCurrent'
  BY <1>2 DEF S!IInv, S!TypeOK, AnswersAreCounted, S!LatestIsCurrent, S!Guarded, S!Asked, S!Active, S!R
<1>. QED BY <1>1, <1>2, <1>3 DEF S!IInv, S!TypeOK, AnswersAreCounted, WritesAreLocked, S!R, S!KeysOf

LEMMA EndsKeeps ==
  ASSUME S!IInv, NEW x \in writing, NEW again, again \subseteq S!R(screen), S!Ends(x, again)
  PROVE  S!IInv'
<1>1. WritesAreLocked'
  BY EndsUnlocks
<1>2. UNCHANGED <<screen, keys, shown, moves>>
  BY DEF S!Ends
<1>3. AnswersAreCounted' /\ S!LatestIsCurrent' /\ latest' \in [S!R(screen) -> Nat \ {0}]
  <2>1. CASE x.what.past
    <3>1. latest' = S!Counted({})
          /\ flights' = flights \cup {[f EXCEPT !.past = TRUE] : f \in S!Due(again, keys, latest)}
      BY <2>1 DEF S!Ends
    <3>2. latest' = latest
      BY <3>1, CountedIs DEF S!IInv, S!TypeOK
    <3>3. x.what \in {screen.writes[i] : i \in DOMAIN screen.writes}
      BY InTwoParts DEF WritesAreLocked
    <3>4. \A r : ~S!Guarded(r)'
      BY <1>2, <2>1, <3>3 DEF S!Guarded
    <3>5. \A f \in flights' : f.read \in S!R(screen) /\ f.n \in 1..latest[f.read]
      <4>1. \A f \in S!Due(again, keys, latest) :
               [f EXCEPT !.past = TRUE].read = f.read /\ [f EXCEPT !.past = TRUE].n = f.n
        BY DEF S!Due
      <4>2. \A f \in S!Due(again, keys, latest) : f.read \in S!R(screen) /\ f.n \in 1..latest[f.read]
        BY DueAre DEF S!IInv, S!TypeOK
      <4>. QED BY <3>1, <4>1, <4>2 DEF S!IInv, S!TypeOK
    <3>. QED BY <1>2, <3>2, <3>4, <3>5 DEF S!IInv, S!TypeOK, AnswersAreCounted, S!LatestIsCurrent, S!R
  <2>2. CASE ~x.what.past
    <3>1. latest' = S!Counted(again) /\ flights' = flights \cup S!Due(again, keys, latest')
      BY <2>2 DEF S!Ends
    <3>2. AnswersAreCounted' /\ S!LatestIsCurrent'
      BY <1>2, <3>1, AnswersKeep
    <3>. QED BY <3>1, <3>2, CountedIs DEF S!IInv
  <2>. QED BY <2>1, <2>2
<1>. QED BY <1>1, <1>2, <1>3 DEF S!IInv, S!TypeOK, AnswersAreCounted, WritesAreLocked, S!R, S!KeysOf

LEMMA LeaveKeeps ==
  ASSUME S!IInv, NEW x \in writing, S!Leave(x)
  PROVE  S!IInv'
<1>1. writing' = {} /\ held' = {} /\ flights' = {} /\ moves' = MaxMoves
      /\ UNCHANGED <<screen, keys, shown, latest>>
  BY DEF S!Leave
<1>2. WritesAreLocked'
  BY <1>1 DEF WritesAreLocked, S!PageHasOneWrite, S!RowsHaveOneWrite
<1>3. AnswersAreCounted' /\ S!LatestIsCurrent'
  BY <1>1 DEF AnswersAreCounted, S!LatestIsCurrent
<1>4. moves' \in 0..MaxMoves
  BY <1>1, MovesAreNatural
<1>. QED BY <1>1, <1>2, <1>3, <1>4 DEF S!IInv, S!TypeOK, AnswersAreCounted, WritesAreLocked, S!R, S!KeysOf

LEMMA ScreensStep == S!IInv /\ [S!Next]_open => S!IInv'
<1>. SUFFICES ASSUME S!IInv, [S!Next]_open PROVE S!IInv'
  OBVIOUS
<1>1. CASE UNCHANGED open
  BY <1>1 DEF open, S!IInv, S!TypeOK, S!R, S!KeysOf, S!LatestIsCurrent, S!Guarded, S!Asked, S!Active,
              S!PageHasOneWrite, S!RowsHaveOneWrite
<1>2. ASSUME NEW k \in DOMAIN keys, S!Turn(k) PROVE S!IInv'
  BY <1>2, TurnKeeps
<1>3. ASSUME NEW i \in DOMAIN screen.writes, NEW rows \in S!Choices, S!Start(screen.writes[i], rows)
      PROVE  S!IInv'
  BY <1>3, StartKeeps
<1>4. ASSUME NEW f \in flights, S!Arrive(f) \/ S!Lose(f) PROVE S!IInv'
  BY <1>4, ArriveKeeps, LoseKeeps
<1>5. ASSUME NEW x \in writing, S!Step(x) PROVE S!IInv'
  BY <1>5, StepKeeps
<1>6. ASSUME NEW x \in writing, S!Finish(x) PROVE S!IInv'
  <2>1. x.what.again \subseteq S!R(screen)
    BY InTwoParts, ScreensAreWellFormed DEF S!IInv, S!TypeOK, WritesAreLocked, S!WellFormed
  <2>. QED BY <1>6, <2>1, EndsKeeps DEF S!Finish
<1>7. ASSUME NEW x \in writing, S!Fail(x) PROVE S!IInv'
  BY <1>7, EndsKeeps DEF S!Fail
<1>8. ASSUME NEW x \in writing, S!Leave(x) PROVE S!IInv'
  BY <1>8, LeaveKeeps
<1>. QED BY <1>1, <1>2, <1>3, <1>4, <1>5, <1>6, <1>7, <1>8 DEF S!Next, S!Person, S!Goes

LEMMA ScreensBegin == S!Init => S!IInv
<1>. SUFFICES ASSUME S!Init PROVE S!IInv
  OBVIOUS
<1> DEFINE rs == {r \in S!R(screen) : screen.reads[r].after = 0 /\ S!Active(r, keys)}
<1>1. /\ screen \in S!Screens
      /\ keys = [k \in S!KeysOf(screen) |-> 1]
      /\ shown = [r \in S!R(screen) |-> S!Nothing]
      /\ latest = [r \in S!R(screen) |-> 1]
      /\ flights = S!Due(rs, keys, latest)
      /\ held = {} /\ writing = {} /\ moves = 0
  BY DEF S!Init
<1>2. rs \subseteq S!R(screen)
  OBVIOUS
<1>. HIDE DEF rs
<1>3. AnswersAreCounted /\ S!LatestIsCurrent
  BY <1>1, <1>2, DueAre DEF AnswersAreCounted, S!LatestIsCurrent
<1>4. WritesAreLocked
  BY <1>1 DEF WritesAreLocked, S!PageHasOneWrite, S!RowsHaveOneWrite
<1>. QED BY <1>1, <1>3, <1>4, MovesAreNatural, PutTogether

------------------------------------------------------------------------------
(* Both together: neither touches what is the other's.                      *)
LEMMA BrowserStep ==
  (IInv /\ S!IInv) /\ [Moves]_<<vars, open>> => (IInv /\ S!IInv)' /\ [Next]_vars /\ [S!Next]_open
<1>1. [Moves]_<<vars, open>> => [Next]_vars /\ [S!Next]_open
  BY DEF Moves
<1>. QED BY <1>1, ChatStep, ScreensStep

LEMMA BrowserBegins == Opens => IInv /\ S!IInv
BY ChatBegins, ScreensBegin DEF Opens

LEMMA BrowserInv == Browsing => [](IInv /\ S!IInv)
BY BrowserStep, BrowserBegins, PTL DEF Browsing

(* Every variable of the conversation and of the screen keeps to its range, *)
(* the requests under way are finitely many, and every answer under way is  *)
(* to a request that was counted.                                           *)
THEOREM TypeCorrect == Browsing => []BrowserTypeOK
<1>1. IInv /\ S!IInv => BrowserTypeOK
  BY DEF IInv, S!IInv, BrowserTypeOK
<1>. QED BY <1>1, BrowserInv, PTL

(* No answer lands in another space than it was asked in, every remembered  *)
(* and every shown conversation belongs to its space, and no box stays      *)
(* locked without a request whose end opens it, whatever the person does    *)
(* and in whatever order the answers come (ChatContext.tsx).                *)
THEOREM ChatsStayApart == Browsing => []ConversationsApart
<1>1. IInv => ConversationsApart
  BY DEF IInv, TypeOK, IdsMadeHere, MadeIn, Conversation, ConversationsApart, SpacesApart, LocksHaveReason
<1>. QED BY <1>1, BrowserInv, PTL

(* No double submit and no lock left behind, on any of the screens that     *)
(* lock as a whole or row by row (SyncPanel.tsx, DataSources.tsx).          *)
THEOREM OneWrite == Browsing => []OneWriteAtATime
<1>1. S!IInv => OneWriteAtATime
  BY DEF S!IInv, S!PageHasOneWrite, OneWriteAtATime, S!OneWriteAtATime
<1>. QED BY <1>1, BrowserInv, PTL

(* A screen that drops late answers paints only the answer to what it asked *)
(* last, however late and in whatever order the answers come, and keeps     *)
(* nothing of what was left; and that is what is asked for now, unless it   *)
(* is a search box that is closed (ResourceContext.tsx, SearchSelect.tsx).  *)
THEOREM ScreensShowWhatWasAsked == Browsing => ShowsWhatWasAsked
<1>1. ASSUME S!IInv, [S!Next]_open, NEW r \in S!R(screen), S!Guarded(r)
      PROVE  S!Answered(r)
  <2>1. ASSUME NEW k \in DOMAIN keys, S!Turn(k) PROVE S!Answered(r)
    <3> DEFINE moved == {j \in DOMAIN keys : S!Turned(k)[j] /= keys[j]}
    <3>1. CASE screen.reads[r].clears \cap moved /= {}
      BY <2>1, <3>1 DEF S!Turn, S!Answered
    <3>2. CASE screen.reads[r].clears \cap moved = {}
      <4>1. shown'[r] = shown[r] /\ keys' = S!Turned(k)
        BY <2>1, <3>2 DEF S!Turn
      <4>2. screen.reads[r].clears \subseteq DOMAIN keys
        BY <1>1, ScreensAreWellFormed DEF S!IInv, S!TypeOK, S!WellFormed
      <4>. QED BY <3>2, <4>1, <4>2 DEF S!Answered
    <3>. QED BY <3>1, <3>2
  <2>2. ASSUME NEW f \in flights, S!Arrive(f) PROVE S!Answered(r)
    <3>1. CASE S!Paints(f) /\ r = f.read
      <4>1. f.n = latest[r] /\ (S!Active(r, keys) => f.key = S!Asked(r, keys))
        BY <1>1, <3>1 DEF S!IInv, S!LatestIsCurrent, S!Paints, S!Guarded
      <4>2. shown' = [shown EXCEPT ![f.read] = [n |-> f.n, key |-> f.key]] /\ keys' = keys
        BY <2>2, <3>1 DEF S!Arrive
      <4>3. shown'[r].key = f.key /\ shown'[r].n = f.n
        BY <1>1, <3>1, <4>2 DEF S!IInv, S!TypeOK
      <4>. QED BY <4>1, <4>2, <4>3 DEF S!Answered, S!Active, S!Asked
    <3>2. CASE ~(S!Paints(f) /\ r = f.read)
      BY <1>1, <2>2, <3>2 DEF S!Arrive, S!Answered, S!IInv, S!TypeOK
    <3>. QED BY <3>1, <3>2
  <2>3. CASE UNCHANGED <<shown, keys>>
    BY <2>3 DEF S!Answered
  <2>4. (\E k \in DOMAIN keys : S!Turn(k)) \/ (\E f \in flights : S!Arrive(f)) \/ UNCHANGED <<shown, keys>>
    BY <1>1 DEF open, S!Next, S!Person, S!Goes, S!Start, S!Lose, S!Step, S!Finish, S!Fail, S!Ends, S!Leave
  <2>. QED BY <2>1, <2>2, <2>3, <2>4
<1>2. S!IInv /\ [S!Next]_open => [\A r \in S!R(screen) : S!Guarded(r) => S!Answered(r)]_(S!vars)
  BY <1>1
<1>3. Browsing => [][\A r \in S!R(screen) : S!Guarded(r) => S!Answered(r)]_(S!vars)
  <2>1. (IInv /\ S!IInv) /\ [Moves]_<<vars, open>>
        => [\A r \in S!R(screen) : S!Guarded(r) => S!Answered(r)]_(S!vars)
    BY <1>2, BrowserStep
  <2>. QED BY <2>1, BrowserInv, PTL DEF Browsing
<1>. QED BY <1>3 DEF ShowsWhatWasAsked, S!ShowsWhatWasAsked
=============================================================================
