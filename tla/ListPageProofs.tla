--------------------------- MODULE ListPageProofs ---------------------------
(***************************************************************************)
(* Theorem about ListPage: whatever the bounds, in any order of clicks,    *)
(* answers, failures and redraws, an element has one request under way,    *)
(* the last search answered is the one shown, and a toggle at rest says    *)
(* what the server has.                                                    *)
(***************************************************************************)
EXTENDS ListPage, TLAPS, SequenceTheorems

ToggleRequest == [pc : PostStates, el : Draws, on : BOOLEAN, kept : BOOLEAN, awaited : BOOLEAN]
ListRequest   == [pc : ListStates, on : BOOLEAN, old : BOOLEAN, s : Searches]

PageTyped ==
    /\ active \in BOOLEAN /\ foreign \in 0..MaxForeign
    /\ iDraw \in Draws /\ drawn \in 0..MaxDraws /\ search \in Searches /\ shown \in Searches
    /\ lists \in [Draws -> ListRequest]
    /\ cls \in {"success", "danger", "none"} /\ disabled \in BOOLEAN /\ handlers \in 0..2
    /\ posts \in Seq(ToggleRequest) /\ Len(posts) <= MaxPosts
    /\ unseen \in BOOLEAN

\* The table: the last draw is of the search that was entered last, what is shown
\* was answered, and what is under way is newer.
TableOK ==
    /\ drawn <= iDraw
    /\ drawn > 0 => lists[drawn].pc = "drawn"
    /\ \A n \in Draws : n > iDraw => lists[n].pc = "none"
    /\ lists[iDraw].s = search
    /\ SearchShown

\* An answer on its way that is not outdated says what the row is.
AnswersTrue ==
    \A n \in Draws : lists[n].pc = "read" /\ ~lists[n].old => lists[n].on = active

\* A request under way for the element that is shown.
Pending(p) == posts[p].awaited /\ posts[p].el = drawn

\* The element rests with a label and one handler of its own at most, or it is
\* disabled and waits for its request.
ToggleOK ==
    /\ handlers <= 1
    /\ \A p \in DOMAIN posts : posts[p].el <= drawn
    /\ \A p \in DOMAIN posts : Pending(p) => disabled /\ handlers = 0 /\ cls = "none"
    /\ drawn > 0 /\ shown \in Matches /\ cls = "none" => disabled /\ handlers = 0

\* The request asks for what the row is not, until it is served.
RequestTrue(p) ==
    Pending(p) /\ ~unseen =>
        /\ posts[p].pc # "ok" => posts[p].on = ~active
        /\ posts[p].pc = "ok" => posts[p].on = active
        /\ posts[p].pc = "served" => posts[p].kept = active

RequestsTrue == \A p \in DOMAIN posts : RequestTrue(p)

\* What concerns the toggle and its requests.
Truthful == OneRequestEach /\ LabelTrue /\ ToggleOK /\ RequestsTrue

PageInv == PageTyped /\ TableOK /\ AnswersTrue /\ Truthful

LEMMA PagePromises == PageInv => PageTrue
  <1>. SUFFICES ASSUME PageInv PROVE PageTrue
    OBVIOUS
  <1>1. posts \in Seq(ToggleRequest) /\ Len(posts) \in 0..MaxPosts /\ DOMAIN posts = 1..Len(posts)
    BY PageBounds DEF PageInv, PageTyped
  <1>2. \A p \in DOMAIN posts : posts[p] \in ToggleRequest
    BY <1>1
  <1>3. PageTypeOK
    BY <1>1, <1>2 DEF PageInv, PageTyped, PageTypeOK, ToggleRequest, ListRequest
  <1>. QED
    BY <1>3 DEF PageInv, Truthful, TableOK, PageTrue

\* A page just opened.
Opened ==
    /\ active \in BOOLEAN /\ foreign \in 0..MaxForeign
    /\ iDraw = 1 /\ search = All /\ lists = FirstAsked
    /\ drawn = 0 /\ shown = All
    /\ cls = "none" /\ disabled = FALSE /\ handlers = 0
    /\ posts = <<>> /\ unseen = FALSE

LEMMA OpenedHolds == Opened => PageInv
  <1>. SUFFICES ASSUME Opened PROVE PageInv
    OBVIOUS
  <1>1. lists \in [Draws -> ListRequest]
    BY KindsOfSearch DEF Opened, FirstAsked, Sent, ListRequest, ListStates
  <1>2. posts \in Seq(ToggleRequest) /\ Len(posts) = 0
    BY DEF Opened
  <1>6. PageTyped
    <2>1. active \in BOOLEAN /\ disabled \in BOOLEAN /\ unseen \in BOOLEAN
      BY Zenon DEF Opened
    <2>2. foreign \in 0..MaxForeign /\ iDraw \in Draws /\ drawn \in 0..MaxDraws
      BY PageBounds DEF Opened, Draws
    <2>3. search \in Searches /\ shown \in Searches /\ handlers \in 0..2 /\ cls = "none"
      BY KindsOfSearch DEF Opened
    <2>. QED
      BY <1>1, <1>2, <2>1, <2>2, <2>3, PageBounds DEF PageTyped
  <1>3. TableOK /\ AnswersTrue
    BY PageBounds DEF Opened, FirstAsked, Sent, TableOK, SearchShown, AnswersTrue, Draws
  <1>4. DOMAIN posts = {}
    BY DEF Opened
  <1>5. Truthful
    BY <1>4 DEF Opened, Truthful, OneRequestEach, LabelTrue, ToggleOK, RequestsTrue
  <1>. QED
    BY <1>3, <1>5, <1>6 DEF PageInv

LEMMA PageStarts == PageInit => PageInv
  BY OpenedHolds, PageBounds DEF PageInit, Opened

-----------------------------------------------------------------------------
(* The toggle, whatever the table does.                                    *)

\* Rows drawn anew: nobody waits for their toggle yet.
LEMMA DrawTruthful ==
  ASSUME PageInv, NEW n \in Draws, NEW s \in Searches, NEW r \in ListRequest, Draw(n, s, r),
         drawn < n, UNCHANGED <<posts, active>>, s \in Matches => r.old \/ r.on = active
  PROVE  Truthful'
  <1>. USE DEF PageInv, PageTyped, Truthful, Draw, Draws
  <1>1. OneRequestEach'
    BY DEF OneRequestEach
  <1>2. \A p \in DOMAIN posts : posts[p].el < drawn'
    <2>1. \A p \in DOMAIN posts : posts[p] \in ToggleRequest
      OBVIOUS
    <2>2. \A p \in DOMAIN posts : posts[p].el \in Int /\ posts[p].el <= drawn
      BY <2>1, PageBounds DEF ToggleOK, ToggleRequest
    <2>. QED
      BY <2>2, PageBounds
  <1>3. \A p \in DOMAIN posts : ~Pending(p)'
    BY <1>2 DEF Pending
  <1>4. ToggleOK' /\ RequestsTrue'
    <2>1. handlers' <= 1 /\ (shown' \in Matches => cls' # "none")
      OBVIOUS
    <2>2. \A p \in DOMAIN posts : posts[p].el <= drawn'
      <3>1. \A p \in DOMAIN posts : posts[p] \in ToggleRequest
        OBVIOUS
      <3>. QED
        BY <1>2, <3>1, PageBounds DEF ToggleRequest
    <2>. QED
      BY <1>3, <2>1, <2>2 DEF ToggleOK, RequestsTrue, RequestTrue
  <1>5. LabelTrue'
    BY DEF LabelTrue, ListRequest
  <1>. QED
    BY <1>1, <1>4, <1>5

\* The rows stay, and nothing happens to a request.
LEMMA RestTruthful ==
  ASSUME PageInv, UNCHANGED <<drawn, shown, toggle, posts, active, unseen>>
  PROVE  Truthful'
  BY DEF PageInv, Truthful, OneRequestEach, LabelTrue, ToggleOK, RequestsTrue, RequestTrue, Pending,
     toggle

\* The server's steps: the rows stay, requests are awaited as they were; what the
\* row is changes by the only request awaited for it, or by a change unseen.
LEMMA ServerTruthful ==
  ASSUME PageInv, PageTyped', UNCHANGED <<drawn, shown, toggle>>, DOMAIN posts' = DOMAIN posts,
         \A p \in DOMAIN posts : /\ posts'[p].awaited = posts[p].awaited
                                 /\ posts'[p].el = posts[p].el /\ posts'[p].on = posts[p].on,
         unseen => unseen',
         active' # active => unseen' \/ \E p \in DOMAIN posts : Pending(p),
         \A p \in DOMAIN posts : Pending(p) /\ ~unseen' => RequestTrue(p)'
  PROVE  Truthful'
  <1>. USE DEF PageInv, Truthful
  <1>1. OneRequestEach'
    BY DEF OneRequestEach
  <1>2. \A p \in DOMAIN posts : Pending(p)' = Pending(p)
    BY DEF Pending
  <1>3. ToggleOK'
    BY <1>2 DEF ToggleOK, toggle
  <1>4. RequestsTrue'
    BY <1>2 DEF RequestsTrue, RequestTrue
  <1>5. LabelTrue'
    BY DEF LabelTrue, toggle, ToggleOK
  <1>. QED
    BY <1>1, <1>3, <1>4, <1>5

-----------------------------------------------------------------------------
(* The table's steps.                                                      *)

LEMMA ListRequestTyped ==
  ASSUME NEW r \in ListRequest, NEW l \in ListStates, NEW b \in BOOLEAN
  PROVE  [r EXCEPT !.pc = l] \in ListRequest /\ [r EXCEPT !.pc = l, !.on = b] \in ListRequest
  BY DEF ListRequest

\* Rows made anew are typed as the ones before them.
LEMMA DrawTyped ==
  ASSUME PageTyped, NEW n \in Draws, NEW s \in Searches, NEW r \in ListRequest, Draw(n, s, r)
  PROVE  /\ iDraw' \in Draws /\ drawn' \in 0..MaxDraws /\ shown' \in Searches
         /\ cls' \in {"success", "danger", "none"} /\ disabled' \in BOOLEAN /\ handlers' \in 0..2
         /\ unseen' \in BOOLEAN
  <1>1. iDraw' \in Draws /\ drawn' \in 0..MaxDraws /\ shown' \in Searches /\ handlers' \in 0..2
    BY PageBounds DEF Draw, Draws
  <1>2. cls' \in {"success", "danger", "none"}
    BY DEF Draw
  <1>3. disabled' = FALSE /\ unseen' = r.old /\ r.old \in BOOLEAN
    BY DEF Draw, ListRequest
  <1>. QED
    BY <1>1, <1>2, <1>3

LEMMA AskKeeps == ASSUME PageInv, NEW s \in Searches, Ask(s) PROVE PageInv'
  <1>. USE PageBounds DEF PageInv, PageTyped, Draws
  <1>0. iDraw + 1 \in Draws /\ Sent(s) \in ListRequest /\ [Sent(s) EXCEPT !.pc = "drawn"] \in ListRequest
    <2>1. iDraw + 1 \in Draws
      BY DEF Ask
    <2>2. Sent(s) \in ListRequest
      BY DEF Sent, ListRequest, ListStates
    <2>. QED
      BY <2>1, <2>2, ListRequestTyped DEF ListStates
  <1>1. /\ search' = s /\ iDraw' = iDraw + 1
        /\ UNCHANGED <<server, posts>>
        /\ \/ lists' = [lists EXCEPT ![iDraw + 1] = Sent(s)]
           \/ lists' = [lists EXCEPT ![iDraw + 1] = [Sent(s) EXCEPT !.pc = "drawn"]]
    BY DEF Ask, Draw
  <1>2. CASE s \in Short
    <2>1. /\ Draw(iDraw + 1, s, Sent(s))
          /\ lists' = [lists EXCEPT ![iDraw + 1] = [Sent(s) EXCEPT !.pc = "drawn"]]
      BY <1>2 DEF Ask
    <2>2. PageTyped'
      <3>1. lists' \in [Draws -> ListRequest]
        BY <1>0, <2>1
      <3>. QED
        BY <1>0, <1>1, <2>1, <3>1, DrawTyped DEF server
    <2>3. TableOK'
      BY <1>0, <1>1, <2>1 DEF TableOK, Draw, Sent, SearchShown
    <2>4. AnswersTrue'
      BY <1>0, <1>1, <2>1 DEF AnswersTrue, Sent, server
    <2>5. drawn < iDraw + 1 /\ s \notin Matches
      BY <1>2, KindsOfSearch DEF TableOK
    <2>6. Truthful'
      BY <1>0, <1>1, <2>1, <2>5, DrawTruthful DEF server
    <2>. QED
      BY <2>2, <2>3, <2>4, <2>6
  <1>3. CASE s \notin Short
    <2>1. /\ lists' = [lists EXCEPT ![iDraw + 1] = Sent(s)]
          /\ UNCHANGED <<drawn, shown, toggle, unseen>>
      BY <1>3 DEF Ask
    <2>2. PageTyped'
      BY <1>0, <1>1, <2>1 DEF server, toggle
    <2>3. TableOK'
      BY <1>0, <1>1, <2>1 DEF TableOK, Sent, SearchShown
    <2>4. AnswersTrue'
      BY <1>0, <1>1, <2>1 DEF AnswersTrue, Sent, server
    <2>5. Truthful'
      BY <1>1, <2>1, RestTruthful DEF server
    <2>. QED
      BY <2>2, <2>3, <2>4, <2>5
  <1>. QED
    BY <1>2, <1>3

\* An answer is drawn if it is of the last draw asked for, which was not drawn yet.
LEMMA AnswerKeeps == ASSUME PageInv, NEW n \in Draws, Answer(n) PROVE PageInv'
  <1>. USE PageBounds DEF PageInv, PageTyped, Draws
  <1>1. /\ lists[n].pc = "read" /\ lists[n] \in ListRequest /\ lists[n].s \in Searches
        /\ UNCHANGED <<server, search, posts>>
    BY DEF Answer, ListRequest
  <1>2. CASE Late(n)
    <2>1. /\ lists' = [lists EXCEPT ![n].pc = "dropped"]
          /\ UNCHANGED <<iDraw, drawn, shown, toggle, unseen>>
      BY <1>2 DEF Answer
    <2>2. PageTyped'
      BY <1>1, <2>1 DEF server, toggle, ListRequest, ListStates
    <2>3. TableOK' /\ AnswersTrue'
      BY <1>1, <1>2, <2>1 DEF TableOK, SearchShown, AnswersTrue, server, Late, ListRequest
    <2>4. Truthful'
      BY <1>1, <2>1, RestTruthful DEF server
    <2>. QED
      BY <2>2, <2>3, <2>4
  <1>3. CASE ~Late(n)
    <2>1. /\ lists' = [lists EXCEPT ![n].pc = "drawn"]
          /\ Draw(n, lists[n].s, lists[n])
      BY <1>3 DEF Answer
    <2>2. n = iDraw
      BY <1>1, <1>3 DEF Late, TableOK
    <2>3. drawn < n
      BY <1>1, <2>2 DEF TableOK
    <2>4. PageTyped'
      <3>1. lists' \in [Draws -> ListRequest]
        BY <1>1, <2>1, ListRequestTyped DEF ListStates
      <3>. QED
        BY <1>1, <2>1, <3>1, DrawTyped DEF server
    <2>5. TableOK' /\ AnswersTrue'
      BY <1>1, <2>1, <2>2, <2>3 DEF TableOK, SearchShown, AnswersTrue, Draw, server, ListRequest
    <2>6. lists[n].old \/ lists[n].on = active
      BY <1>1 DEF AnswersTrue
    <2>7. Truthful'
      BY <1>1, <2>1, <2>3, <2>6, DrawTruthful DEF server
    <2>. QED
      BY <2>4, <2>5, <2>7
  <1>. QED
    BY <1>2, <1>3

\* Something happens to a request that is not the one whose rows are shown.
LEMMA TableKept ==
  ASSUME PageInv, UNCHANGED <<iDraw, search, drawn, shown>>,
         \A k \in Draws : lists'[k].s = lists[k].s,
         \A k \in Draws : k > iDraw \/ k = drawn => lists'[k].pc = lists[k].pc,
         \A k \in Draws : lists'[k].pc = "drawn" => lists[k].pc = "drawn"
  PROVE  TableOK'
  <1>1. iDraw \in Draws /\ drawn \in Nat /\ (drawn > 0 => drawn \in Draws)
    BY PageBounds DEF PageInv, PageTyped, Draws
  <1>2. TableOK
    BY DEF PageInv
  <1>3. drawn > 0 => lists'[drawn].pc = "drawn"
    BY <1>1, <1>2 DEF TableOK
  <1>4. lists'[iDraw].pc = "drawn" => lists[iDraw].pc = "drawn"
    BY <1>1
  <1>5. ASSUME NEW k \in Draws, k > iDraw PROVE lists'[k].pc = "none"
    BY <1>2, <1>5 DEF TableOK
  <1>6. lists'[iDraw].s = search
    BY <1>1, <1>2 DEF TableOK
  <1>. QED
    BY <1>2, <1>3, <1>4, <1>5, <1>6 DEF TableOK, SearchShown

LEMMA ListKeeps ==
  ASSUME PageInv, NEW n \in Draws, ListFails(n) \/ ServeList(n)
  PROVE  PageInv'
  <1>0. PageTyped /\ TableOK /\ AnswersTrue
    BY DEF PageInv
  <1>1. /\ UNCHANGED <<server, iDraw, search, drawn, shown, toggle, posts, unseen>>
        /\ lists[n].pc \in {"sent", "read"} /\ lists[n] \in ListRequest
        /\ \/ lists' = [lists EXCEPT ![n].pc = "failed"]
           \/ lists' = [lists EXCEPT ![n].pc = "read", ![n].on = active]
    BY <1>0 DEF ListFails, ServeList, PageTyped
  <1>2. lists' \in [Draws -> ListRequest]
    <2>1. [lists[n] EXCEPT !.pc = "failed"] \in ListRequest
          /\ [lists[n] EXCEPT !.pc = "read", !.on = active] \in ListRequest
      BY <1>0, <1>1, ListRequestTyped DEF ListStates, PageTyped
    <2>. QED
      BY <1>0, <1>1, <2>1 DEF PageTyped
  <1>3. PageTyped'
    BY <1>0, <1>1, <1>2 DEF server, toggle, PageTyped
  <1>4. TableOK'
    <2>1. n <= iDraw /\ n # drawn /\ n \in Int /\ iDraw \in Int
      BY <1>0, <1>1, PageBounds DEF TableOK, PageTyped, Draws
    <2>2. \A k \in Draws : lists'[k].s = lists[k].s
      BY <1>0, <1>1 DEF ListRequest, PageTyped
    <2>3. \A k \in Draws : k > iDraw \/ k = drawn => lists'[k].pc = lists[k].pc
      BY <1>0, <1>1, <2>1 DEF ListRequest, PageTyped
    <2>4. \A k \in Draws : lists'[k].pc = "drawn" => lists[k].pc = "drawn"
      BY <1>0, <1>1 DEF ListRequest, PageTyped
    <2>5. UNCHANGED <<iDraw, search, drawn, shown>>
      BY <1>1
    <2>. QED
      BY <2>2, <2>3, <2>4, <2>5, TableKept
  <1>5. AnswersTrue'
    BY <1>0, <1>1 DEF AnswersTrue, server, ListRequest, PageTyped
  <1>6. Truthful'
    BY <1>1, RestTruthful DEF server
  <1>. QED
    BY <1>3, <1>4, <1>5, <1>6 DEF PageInv

-----------------------------------------------------------------------------
(* The toggle's steps.                                                     *)

\* The table's own invariant needs no more than its variables.
LEMMA TableRests ==
  ASSUME PageInv, UNCHANGED <<iDraw, search, drawn, shown, lists, active>>
  PROVE  TableOK' /\ AnswersTrue'
  BY DEF PageInv, TableOK, SearchShown, AnswersTrue

LEMMA RequestsTyped ==
  ASSUME PageTyped
  PROVE  /\ DOMAIN posts = 1..Len(posts) /\ Len(posts) \in Nat
         /\ \A p \in DOMAIN posts : posts[p] \in ToggleRequest
  BY DEF PageTyped

\* One click is one request: an element with a label has at most one handler.
LEMMA ClickKeeps == ASSUME PageInv, Click PROVE PageInv'
  <1>. USE PageBounds DEF PageInv, Truthful
  <1>. DEFINE k == Len(posts)
              new == [pc |-> "sent", el |-> drawn, on |-> cls = "danger", kept |-> FALSE,
                      awaited |-> TRUE]
  <1>1. /\ UNCHANGED <<server, table, unseen>> /\ cls' = "none" /\ disabled' = TRUE /\ handlers' = 0
        /\ drawn > 0 /\ shown \in Matches /\ Fired > 0 /\ k + Fired <= MaxPosts
        /\ posts' = [p \in 1..(k + Fired) |->
                       IF p <= k THEN posts[p]
                       ELSE [pc |-> "sent", el |-> drawn, on |-> p = k + 1 /\ cls = "danger",
                             kept |-> FALSE, awaited |-> TRUE]]
    BY DEF Click
  <1>2. Fired = 1 /\ ~(disabled /\ handlers = 0)
    BY <1>1 DEF Fired, Skipped, ToggleOK, PageTyped
  <1>3. cls # "none" /\ \A p \in DOMAIN posts : ~Pending(p)
    BY <1>1, <1>2 DEF ToggleOK
  <1>4. DOMAIN posts = 1..k /\ k \in Nat /\ \A p \in DOMAIN posts : posts[p] \in ToggleRequest
    BY RequestsTyped
  <1>5. DOMAIN posts' = 1..(k + 1) /\ (\A p \in 1..k : posts'[p] = posts[p]) /\ posts'[k + 1] = new
    BY <1>1, <1>2, <1>4
  <1>6. new \in ToggleRequest
    BY <1>1 DEF ToggleRequest, PostStates, PageTyped, Draws
  <1>. HIDE DEF new
  <1>7. posts' \in Seq(ToggleRequest) /\ Len(posts') = k + 1
    <2>1. posts' = [p \in 1..(k + 1) |-> posts'[p]]
      BY <1>1, <1>2
    <2>2. \A p \in 1..(k + 1) : posts'[p] \in ToggleRequest
      BY <1>4, <1>5, <1>6
    <2>3. posts' \in [1..(k + 1) -> ToggleRequest]
      BY <2>1, <2>2
    <2>. QED
      BY <1>4, <2>3
  <1>8. PageTyped'
    BY <1>1, <1>2, <1>7 DEF PageTyped, server, table
  <1>9. TableOK' /\ AnswersTrue'
    BY <1>1, TableRests DEF server, table
  <1>10. new.awaited = TRUE /\ new.el = drawn /\ new.on = (cls = "danger") /\ new.pc = "sent"
    BY DEF new
  <1>11. UNCHANGED <<drawn, shown, active>>
    BY <1>1 DEF server, table
  <1>12. \A p \in 1..k : ~Pending(p)'
    BY <1>3, <1>4, <1>5, <1>11 DEF Pending
  <1>13. OneRequestEach'
    <2>. SUFFICES ASSUME NEW p \in 1..(k + 1), NEW q \in 1..(k + 1),
                         posts'[p].awaited, posts'[q].awaited, posts'[p].el = posts'[q].el
                  PROVE  p = q
      BY <1>5 DEF OneRequestEach
    <2>1. CASE p \in 1..k /\ q \in 1..k
      BY <1>4, <1>5, <2>1 DEF OneRequestEach
    <2>2. CASE p = k + 1 /\ q \in 1..k
      BY <1>5, <1>10, <1>11, <1>12, <2>2 DEF Pending
    <2>3. CASE p \in 1..k /\ q = k + 1
      BY <1>5, <1>10, <1>11, <1>12, <2>3 DEF Pending
    <2>. QED
      BY <1>4, <2>1, <2>2, <2>3
  <1>14. ToggleOK'
    <2>1. \A p \in DOMAIN posts' : posts'[p].el <= drawn'
      <3>1. drawn \in Int
        BY DEF PageTyped
      <3>2. ASSUME NEW p \in 1..(k + 1) PROVE posts'[p].el <= drawn
        <4>1. CASE p \in 1..k
          BY <1>4, <1>5, <4>1 DEF ToggleOK
        <4>2. CASE p = k + 1
          BY <1>5, <1>10, <3>1, <4>2
        <4>. QED
          BY <1>4, <4>1, <4>2
      <3>. QED
        BY <1>5, <1>11, <3>2
    <2>. QED
      BY <1>1, <2>1 DEF ToggleOK
  <1>15. RequestsTrue'
    <2>1. ~unseen' => new.on = ~active
      <3>1. ~unseen => (cls = "success") = active
        BY <1>1, <1>3 DEF LabelTrue
      <3>2. (cls = "danger") = ~(cls = "success")
        BY <1>3 DEF PageTyped
      <3>. QED
        BY <1>1, <1>10, <3>1, <3>2
    <2>2. ASSUME NEW p \in 1..(k + 1) PROVE RequestTrue(p)'
      <3>1. CASE p \in 1..k
        BY <1>12, <3>1 DEF RequestTrue
      <3>2. CASE p = k + 1
        BY <1>5, <1>10, <1>11, <2>1, <3>2 DEF RequestTrue
      <3>. QED
        BY <1>4, <3>1, <3>2
    <2>. QED
      BY <1>5, <2>2 DEF RequestsTrue
  <1>16. LabelTrue'
    BY <1>1 DEF LabelTrue
  <1>. QED
    BY <1>8, <1>9, <1>13, <1>14, <1>15, <1>16

\* One request changes, and stays one.
LEMMA PostsTyped ==
  ASSUME PageTyped, NEW p \in DOMAIN posts, NEW r \in ToggleRequest
  PROVE  /\ [posts EXCEPT ![p] = r] \in Seq(ToggleRequest)
         /\ Len([posts EXCEPT ![p] = r]) = Len(posts)
         /\ DOMAIN [posts EXCEPT ![p] = r] = DOMAIN posts
  <1>1. DOMAIN posts = 1..Len(posts) /\ Len(posts) \in Nat /\ posts \in Seq(ToggleRequest)
    BY RequestsTyped DEF PageTyped
  <1>. DEFINE new == [posts EXCEPT ![p] = r]
  <1>2. new \in [1..Len(posts) -> ToggleRequest]
    BY <1>1
  <1>. QED
    BY <1>1, <1>2

\* Of two requests for the element that is shown one is not awaited.
LEMMA OnePending ==
  ASSUME PageInv, NEW p \in DOMAIN posts, NEW q \in DOMAIN posts, Pending(p), Pending(q)
  PROVE  p = q
  BY DEF PageInv, Truthful, OneRequestEach, Pending

\* The callback gives the element the label that the row has, unless the request
\* was flipped and the answer lost.
LEMMA CompleteKeeps ==
  ASSUME PageInv, NEW p \in DOMAIN posts, NEW ok \in BOOLEAN, posts[p].awaited, Complete(p, ok),
         unseen' \in BOOLEAN, unseen => unseen', posts[p].el # drawn => unseen' = unseen,
         posts[p].el = drawn /\ ~unseen' => ok = (posts[p].pc = "ok")
  PROVE  PageInv'
  <1>1. PageTyped /\ TableOK /\ AnswersTrue /\ OneRequestEach /\ LabelTrue /\ ToggleOK /\ RequestsTrue
    BY DEF PageInv, Truthful
  <1>. DEFINE r == [posts[p] EXCEPT !.awaited = FALSE]
  <1>2. posts[p] \in ToggleRequest /\ r \in ToggleRequest
    BY <1>1, RequestsTyped DEF ToggleRequest
  <1>3. posts' = [posts EXCEPT ![p] = r] /\ UNCHANGED <<server, table>>
    BY DEF Complete
  <1>4. posts' \in Seq(ToggleRequest) /\ Len(posts') = Len(posts) /\ DOMAIN posts' = DOMAIN posts
    BY <1>1, <1>2, <1>3, PostsTyped
  <1>5. /\ posts'[p].awaited = FALSE /\ posts'[p].el = posts[p].el
        /\ \A q \in DOMAIN posts : q # p => posts'[q] = posts[q]
    BY <1>1, <1>2, <1>3, RequestsTyped DEF ToggleRequest
  <1>6. UNCHANGED <<iDraw, search, drawn, shown, lists, active, foreign>>
    BY <1>3 DEF server, table
  <1>7. \A q \in DOMAIN posts : Pending(q)' => q # p /\ Pending(q) /\ posts'[q] = posts[q]
    BY <1>5, <1>6 DEF Pending
  <1>8. TableOK' /\ AnswersTrue'
    BY <1>6, TableRests
  <1>9. OneRequestEach'
    BY <1>1, <1>4, <1>5 DEF OneRequestEach
  <1>10. \A q \in DOMAIN posts' : posts'[q].el <= drawn'
    BY <1>1, <1>4, <1>5, <1>6 DEF ToggleOK
  <1>11. CASE posts[p].el = drawn
    <2>1. Pending(p)
      BY <1>11 DEF Pending
    <2>2. handlers = 0
      BY <1>1, <2>1 DEF ToggleOK
    <2>3. /\ cls' = IF Label(p, ok) THEN "success" ELSE "danger"
          /\ disabled' = FALSE /\ handlers' = 1
      BY <1>11, <2>2 DEF Complete
    <2>4. \A q \in DOMAIN posts : ~Pending(q)'
      BY <1>7, <2>1, OnePending
    <2>5. ToggleOK' /\ RequestsTrue'
      BY <1>4, <1>10, <2>3, <2>4 DEF ToggleOK, RequestsTrue, RequestTrue
    <2>6. ~unseen' => Label(p, ok) = active
      <3>. SUFFICES ASSUME ~unseen' PROVE Label(p, ok) = active
        OBVIOUS
      <3>1. RequestTrue(p) /\ ~unseen /\ ok = (posts[p].pc = "ok")
        BY <1>1, <1>11 DEF RequestsTrue
      <3>2. active \in BOOLEAN /\ posts[p].on \in BOOLEAN
        BY <1>1, <1>2 DEF PageTyped, ToggleRequest
      <3>. QED
        BY <2>1, <3>1, <3>2 DEF RequestTrue, Label
    <2>7. LabelTrue'
      BY <1>6, <2>3, <2>6, <1>1 DEF LabelTrue, PageTyped
    <2>8. PageTyped'
      <3>1. cls' \in {"success", "danger", "none"} /\ disabled' \in BOOLEAN /\ handlers' \in 0..2
        <4>1. cls' \in {"success", "danger", "none"}
          BY <2>3
        <4>2. handlers' \in 0..2
          BY <2>3
        <4>3. disabled' \in BOOLEAN
          BY <2>3, Zenon
        <4>. QED
          BY <4>1, <4>2, <4>3
      <3>. QED
        BY <1>1, <1>4, <1>6, <3>1 DEF PageTyped
    <2>. QED
      BY <1>8, <1>9, <2>5, <2>7, <2>8 DEF PageInv, Truthful
  <1>12. CASE posts[p].el # drawn
    <2>1. UNCHANGED <<cls, disabled, handlers, unseen>>
      BY <1>12 DEF Complete, toggle
    <2>2. PageTyped'
      BY <1>1, <1>4, <1>6, <2>1 DEF PageTyped
    <2>3. ToggleOK'
      BY <1>1, <1>4, <1>6, <1>7, <1>10, <2>1 DEF ToggleOK
    <2>4. RequestsTrue'
      BY <1>1, <1>4, <1>6, <1>7, <2>1 DEF RequestsTrue, RequestTrue
    <2>5. LabelTrue'
      BY <1>1, <1>6, <2>1 DEF LabelTrue
    <2>. QED
      BY <1>8, <1>9, <2>2, <2>3, <2>4, <2>5 DEF PageInv, Truthful
  <1>. QED
    BY <1>11, <1>12

LEMMA AnsweredKeeps ==
  ASSUME PageInv, NEW p \in DOMAIN posts, ToggleAnswered(p) \/ Timeout(p)
  PROVE  PageInv'
  <1>1. unseen \in BOOLEAN
    BY DEF PageInv, PageTyped
  <1>2. CASE ToggleAnswered(p)
    BY <1>1, <1>2, CompleteKeeps DEF ToggleAnswered
  <1>3. CASE Timeout(p)
    BY <1>1, <1>3, CompleteKeeps DEF Timeout
  <1>. QED
    BY <1>2, <1>3

-----------------------------------------------------------------------------
(* The server's steps.                                                     *)

\* What happens to a request on the server is not seen by the page.
LEMMA ServeKeeps ==
  ASSUME PageInv, NEW p \in DOMAIN posts, Serve(p) \/ Refuse(p)
  PROVE  PageInv'
  <1>1. PageTyped /\ RequestsTrue
    BY DEF PageInv, Truthful
  <1>2. posts[p] \in ToggleRequest /\ posts[p].pc # "ok" /\ active \in BOOLEAN
    BY <1>1, RequestsTyped DEF Serve, Refuse, PageTyped
  <1>3. UNCHANGED <<active, foreign, iDraw, search, lists, drawn, shown, toggle, unseen>>
    BY DEF Serve, Refuse, server, table
  <1>4. PICK r \in ToggleRequest :
          /\ posts' = [posts EXCEPT ![p] = r]
          /\ r.awaited = posts[p].awaited /\ r.el = posts[p].el /\ r.on = posts[p].on
          /\ r.pc # "ok" /\ (r.pc = "served" => r.kept = active)
    <2>1. CASE Serve(p)
      <3>. DEFINE s == [posts[p] EXCEPT !.pc = "served", !.kept = active]
      <3>1. posts' = [posts EXCEPT ![p] = s]
        BY <2>1 DEF Serve
      <3>2. /\ s \in ToggleRequest /\ s.pc = "served" /\ s.kept = active
            /\ s.awaited = posts[p].awaited /\ s.el = posts[p].el /\ s.on = posts[p].on
        BY <1>2 DEF ToggleRequest, PostStates
      <3>. QED
        BY <3>1, <3>2
    <2>2. CASE Refuse(p)
      <3>. DEFINE s == [posts[p] EXCEPT !.pc = "ko"]
      <3>1. posts' = [posts EXCEPT ![p] = s]
        BY <2>2 DEF Refuse
      <3>2. /\ s \in ToggleRequest /\ s.pc = "ko"
            /\ s.awaited = posts[p].awaited /\ s.el = posts[p].el /\ s.on = posts[p].on
        BY <1>2 DEF ToggleRequest, PostStates
      <3>. QED
        BY <3>1, <3>2
    <2>. QED
      BY <2>1, <2>2
  <1>5. posts' \in Seq(ToggleRequest) /\ Len(posts') = Len(posts) /\ DOMAIN posts' = DOMAIN posts
    BY <1>1, <1>4, PostsTyped
  <1>6. PageTyped'
    BY <1>1, <1>3, <1>5 DEF PageTyped, toggle
  <1>7. posts'[p] = r /\ \A q \in DOMAIN posts : q # p => posts'[q] = posts[q]
    BY <1>1, <1>4, RequestsTyped
  <1>8. ASSUME NEW q \in DOMAIN posts, Pending(q), ~unseen' PROVE RequestTrue(q)'
    <2>1. RequestTrue(q) /\ ~unseen
      BY <1>1, <1>3, <1>8 DEF RequestsTrue
    <2>2. CASE q = p
      BY <1>2, <1>3, <1>4, <1>7, <1>8, <2>1, <2>2 DEF RequestTrue
    <2>3. CASE q # p
      BY <1>3, <1>7, <1>8, <2>1, <2>3 DEF RequestTrue
    <2>. QED
      BY <2>2, <2>3
  <1>9. \A q \in DOMAIN posts : /\ posts'[q].awaited = posts[q].awaited
                                /\ posts'[q].el = posts[q].el /\ posts'[q].on = posts[q].on
    BY <1>4, <1>7
  <1>10. Truthful'
    BY <1>3, <1>5, <1>6, <1>8, <1>9, ServerTruthful
  <1>11. TableOK' /\ AnswersTrue'
    BY <1>3, TableRests
  <1>. QED
    BY <1>6, <1>10, <1>11 DEF PageInv

\* The answers on their way are outdated, whatever the row becomes.
LEMMA OutdateKeeps ==
  ASSUME PageInv, Outdate, UNCHANGED <<iDraw, search, drawn, shown>>
  PROVE  lists' \in [Draws -> ListRequest] /\ TableOK' /\ AnswersTrue'
  <1>1. lists \in [Draws -> ListRequest]
    BY DEF PageInv, PageTyped
  <1>2. \A n \in Draws :
          /\ lists'[n] \in ListRequest /\ lists'[n].pc = lists[n].pc /\ lists'[n].s = lists[n].s
          /\ lists'[n].pc = "read" => lists'[n].old = TRUE
    BY <1>1 DEF Outdate, ListRequest
  <1>3. lists' \in [Draws -> ListRequest]
    BY <1>2 DEF Outdate
  <1>4. TableOK'
    BY <1>2, TableKept
  <1>5. AnswersTrue'
    BY <1>2 DEF AnswersTrue
  <1>. QED
    BY <1>3, <1>4, <1>5

\* The row becomes what the request awaited for it asked for, or something unseen.
LEMMA FlipKeeps == ASSUME PageInv, NEW p \in DOMAIN posts, Flip(p) PROVE PageInv'
  <1>1. PageTyped /\ RequestsTrue
    BY DEF PageInv, Truthful
  <1>. DEFINE r == [posts[p] EXCEPT !.pc = "ok"]
  <1>2. posts[p] \in ToggleRequest /\ active \in BOOLEAN /\ unseen \in BOOLEAN
    BY <1>1, RequestsTyped DEF PageTyped
  <1>3. /\ r \in ToggleRequest /\ r.pc = "ok"
        /\ r.awaited = posts[p].awaited /\ r.el = posts[p].el /\ r.on = posts[p].on
    BY <1>2 DEF ToggleRequest, PostStates
  <1>4. /\ posts' = [posts EXCEPT ![p] = r] /\ posts[p].pc = "served"
        /\ active' = ~posts[p].kept
        /\ UNCHANGED <<foreign, iDraw, search, drawn, shown, toggle>> /\ Outdate
    BY DEF Flip
  <1>5. unseen' = (unseen \/ ~Pending(p))
    BY <1>2 DEF Flip, Pending, ToggleRequest
  <1>. HIDE DEF r
  <1>6. posts' \in Seq(ToggleRequest) /\ Len(posts') = Len(posts) /\ DOMAIN posts' = DOMAIN posts
    BY <1>1, <1>3, <1>4, PostsTyped
  <1>7. lists' \in [Draws -> ListRequest] /\ TableOK' /\ AnswersTrue'
    BY <1>4, OutdateKeeps
  <1>8. PageTyped'
    <2>1. active' \in BOOLEAN /\ unseen' \in BOOLEAN
      BY <1>2, <1>4, <1>5 DEF ToggleRequest
    <2>. QED
      BY <1>1, <1>4, <1>6, <1>7, <2>1 DEF PageTyped, toggle
  <1>9. posts'[p] = r /\ \A q \in DOMAIN posts : q # p => posts'[q] = posts[q]
    BY <1>1, <1>4, RequestsTyped
  <1>10. ASSUME NEW q \in DOMAIN posts, Pending(q), ~unseen' PROVE RequestTrue(q)'
    <2>1. RequestTrue(p) /\ Pending(p) /\ ~unseen
      BY <1>1, <1>2, <1>5, <1>10 DEF RequestsTrue
    <2>2. q = p
      BY <1>10, <2>1, OnePending
    <2>3. posts[p].kept = active /\ posts[p].on = ~active
      BY <1>4, <2>1 DEF RequestTrue
    <2>. QED
      BY <1>2, <1>3, <1>4, <1>9, <2>2, <2>3 DEF RequestTrue
  <1>11. \A q \in DOMAIN posts : /\ posts'[q].awaited = posts[q].awaited
                                 /\ posts'[q].el = posts[q].el /\ posts'[q].on = posts[q].on
    BY <1>3, <1>9
  <1>12. Truthful'
    BY <1>4, <1>5, <1>6, <1>8, <1>10, <1>11, ServerTruthful
  <1>. QED
    BY <1>7, <1>8, <1>12 DEF PageInv

LEMMA ForeignKeeps == ASSUME PageInv, Foreign PROVE PageInv'
  <1>1. PageTyped
    BY DEF PageInv
  <1>2. /\ foreign' = foreign + 1 /\ foreign < MaxForeign /\ active' = ~active /\ unseen' = TRUE
        /\ UNCHANGED <<iDraw, search, drawn, shown, toggle, posts>> /\ Outdate
    BY DEF Foreign
  <1>3. lists' \in [Draws -> ListRequest] /\ TableOK' /\ AnswersTrue'
    BY <1>2, OutdateKeeps
  <1>4. PageTyped'
    <2>1. active' \in BOOLEAN /\ foreign' \in 0..MaxForeign
      BY <1>1, <1>2, PageBounds DEF PageTyped
    <2>. QED
      BY <1>1, <1>2, <1>3, <2>1 DEF PageTyped, toggle
  <1>5. Truthful'
    BY <1>2, <1>4, ServerTruthful
  <1>. QED
    BY <1>3, <1>4, <1>5 DEF PageInv

LEMMA ReloadKeeps == ASSUME PageInv, Reload PROVE PageInv'
  <1>1. Opened'
    BY DEF Reload, PageInv, PageTyped, Opened, server
  <1>. QED
    BY <1>1, OpenedHolds, PTL

-----------------------------------------------------------------------------
(* The page.                                                               *)

LEMMA PageKeeps == ASSUME PageInv, [PageNext]_pageVars PROVE PageInv'
  <1>1. ASSUME NEW s \in Searches, Search(s) PROVE PageInv'
    BY <1>1, AskKeeps DEF Search
  <1>2. ASSUME Redraw PROVE PageInv'
    BY <1>2, AskKeeps DEF Redraw, PageInv, PageTyped
  <1>3. ASSUME NEW n \in Draws, Answer(n) \/ ListFails(n) \/ ServeList(n) PROVE PageInv'
    BY <1>3, AnswerKeeps, ListKeeps
  <1>4. ASSUME NEW p \in DOMAIN posts, ToggleAnswered(p) \/ Timeout(p) \/ Serve(p) \/ Flip(p) \/ Refuse(p)
        PROVE  PageInv'
    BY <1>4, AnsweredKeeps, ServeKeeps, FlipKeeps
  <1>5. ASSUME UNCHANGED pageVars PROVE PageInv'
    BY <1>5 DEF pageVars, PageInv, PageTyped, TableOK, SearchShown, AnswersTrue, Truthful,
       OneRequestEach, LabelTrue, ToggleOK, RequestsTrue, RequestTrue, Pending
  <1>. QED
    BY <1>1, <1>2, <1>3, <1>4, <1>5, ClickKeeps, ForeignKeeps, ReloadKeeps DEF PageNext

\* The mailbox list of 990-vimbadmin.js and its DataTables table: whatever is
\* clicked, searched, lost and answered late, an element has one request under
\* way, the last search answered is the one shown, and a toggle at rest says what
\* the server has.
THEOREM PageIsTrue == PageSpec => []PageTrue
  <1>1. PageSpec => []PageInv
    BY PageStarts, PageKeeps, PTL DEF PageSpec
  <1>. QED
    BY <1>1, PagePromises, PTL
=============================================================================
