------------------------------ MODULE ListPage ------------------------------
(***************************************************************************)
(* The mailbox list in the browser: the DataTables table that the server   *)
(* fills, and the Yes/No toggle of one of its rows.  The aliases' and      *)
(* domains' lists are built the same way.                                  *)
(*                                                                         *)
(* Every draw makes new rows, so an element is named by its draw.  The     *)
(* click on a toggle reaches the handlers bound to the element, then the   *)
(* delegated one on the document.  The server handles the requests of the  *)
(* page in any order but one at a time, for each locks the session.        *)
(***************************************************************************)
EXTENDS Integers, Sequences

CONSTANTS
    Searches,   \* what can be searched for
    All,        \* the empty search
    Short,      \* searches of fewer characters than the minimum
    Matches,    \* searches whose result has the row
    MaxDraws, MaxPosts, MaxForeign      \* bounds

ASSUME KindsOfSearch == All \in Searches /\ Matches \subseteq Searches /\ Short \cap Matches = {}
ASSUME PageBounds == MaxDraws \in Nat \ {0} /\ MaxPosts \in Nat /\ MaxForeign \in Nat

VARIABLES
    active,     \* the row's column on the server
    foreign,    \* toggles of it by others so far
    iDraw, search,      \* the table's draw counter and search
    lists,      \* its request for each draw
    drawn, shown,       \* the draw the rows are of, and the search
    cls,        \* the class of the toggle: it says "Yes", "No", or is in between
    disabled, handlers, \* its property, and the handlers bound to it
    posts,      \* the toggle requests sent
    unseen      \* history: a change was made that the shown row does not know

pageVars == <<active, foreign, iDraw, search, lists, drawn, shown, cls, disabled,
              handlers, posts, unseen>>
server == <<active, foreign>>
table  == <<iDraw, search, lists, drawn, shown>>
toggle == <<cls, disabled, handlers>>

Draws == 1..MaxDraws
ListStates == {"none", "sent", "read", "drawn", "dropped", "failed"}
PostStates == {"sent", "served", "ok", "ko"}

PageTypeOK ==
    /\ active \in BOOLEAN /\ foreign \in 0..MaxForeign
    /\ iDraw \in Draws /\ drawn \in 0..MaxDraws /\ search \in Searches /\ shown \in Searches
    /\ lists \in [Draws -> [pc : ListStates, on : BOOLEAN, old : BOOLEAN, s : Searches]]
    /\ cls \in {"success", "danger", "none"} /\ disabled \in BOOLEAN /\ handlers \in 0..2
    /\ DOMAIN posts \in {1..n : n \in 0..MaxPosts}
    /\ \A p \in DOMAIN posts : posts[p] \in
         [pc : PostStates, el : Draws, on : BOOLEAN, kept : BOOLEAN, awaited : BOOLEAN]
    /\ unseen \in BOOLEAN

Sent(s) == [pc |-> "sent", on |-> FALSE, old |-> FALSE, s |-> s]

FirstAsked == [n \in Draws |-> IF n = 1 THEN Sent(All) ELSE [Sent(All) EXCEPT !.pc = "none"]]

\* The page is ready: the table has asked for its first rows.
PageInit ==
    /\ active \in BOOLEAN /\ foreign = 0
    /\ iDraw = 1 /\ search = All /\ lists = FirstAsked
    /\ drawn = 0 /\ shown = All
    /\ cls = "none" /\ disabled = FALSE /\ handlers = 0
    /\ posts = <<>> /\ unseen = FALSE

-----------------------------------------------------------------------------
(* The table.                                                              *)

\* New rows: the toggle is made anew, from the data.
Draw(n, s, r) ==
    /\ iDraw' = n /\ drawn' = n /\ shown' = s
    /\ cls' = IF s \notin Matches THEN "none" ELSE IF r.on THEN "success" ELSE "danger"
    /\ disabled' = FALSE /\ handlers' = 0
    /\ unseen' = r.old

\* A draw asks the server, or is answered at once with no rows when the search
\* is too short; what the server still answers to older ones is then dropped.
Ask(s) ==
    /\ iDraw < MaxDraws
    /\ search' = s
    /\ IF s \in Short
       THEN /\ Draw(iDraw + 1, s, Sent(s))
            /\ lists' = [lists EXCEPT ![iDraw + 1] = [Sent(s) EXCEPT !.pc = "drawn"]]
       ELSE /\ iDraw' = iDraw + 1
            /\ lists' = [lists EXCEPT ![iDraw + 1] = Sent(s)]
            /\ UNCHANGED <<drawn, shown, toggle, unseen>>
    /\ UNCHANGED <<server, posts>>

Search(s) == s # search /\ Ask(s)

\* Another page, or another order, and back.
Redraw == Ask(search)

\* "Protect against out of sequence returns".
Late(n) == n < iDraw

Answer(n) ==
    /\ lists[n].pc = "read"
    /\ lists' = [lists EXCEPT ![n].pc = IF Late(n) THEN "dropped" ELSE "drawn"]
    /\ IF Late(n) THEN UNCHANGED <<iDraw, drawn, shown, toggle, unseen>>
                  ELSE Draw(n, lists[n].s, lists[n])
    /\ UNCHANGED <<server, search, posts>>

\* An error of the request leaves the rows as they are.
ListFails(n) ==
    /\ lists[n].pc \in {"sent", "read"}
    /\ lists' = [lists EXCEPT ![n].pc = "failed"]
    /\ UNCHANGED <<server, iDraw, search, drawn, shown, toggle, posts, unseen>>

-----------------------------------------------------------------------------
(* The toggle.                                                             *)

\* Mutant: the element is not disabled, so the delegated handler runs too.
SkippedNever == FALSE

\* jQuery runs no delegated handler for a click on a disabled element, and a
\* handler of the element itself has disabled it by then.
Skipped == disabled \/ handlers > 0

Fired == handlers + IF Skipped THEN 0 ELSE 1

\* ossToggle unbinds, disables and posts what the class asks for.  A second run
\* in the same click finds neither class.
Click ==
    LET k == Len(posts)
    IN /\ drawn > 0 /\ shown \in Matches /\ Fired > 0 /\ k + Fired <= MaxPosts
       /\ posts' = [p \in 1..(k + Fired) |->
                      IF p <= k THEN posts[p]
                      ELSE [pc |-> "sent", el |-> drawn, on |-> p = k + 1 /\ cls = "danger",
                            kept |-> FALSE, awaited |-> TRUE]]
       /\ cls' = "none" /\ disabled' = TRUE /\ handlers' = 0
       /\ UNCHANGED <<server, table, unseen>>

Label(p, ok) == IF ok THEN posts[p].on ELSE ~posts[p].on

\* The `complete` callback; the element may not be in the table any more.
Complete(p, ok) ==
    /\ posts' = [posts EXCEPT ![p].awaited = FALSE]
    /\ IF posts[p].el = drawn
       THEN /\ cls' = IF Label(p, ok) THEN "success" ELSE "danger"
            /\ disabled' = FALSE /\ handlers' = handlers + 1
       ELSE UNCHANGED toggle
    /\ UNCHANGED <<server, table>>

ToggleAnswered(p) ==
    /\ posts[p].awaited /\ posts[p].pc \in {"ok", "ko"}
    /\ Complete(p, posts[p].pc = "ok")
    /\ UNCHANGED unseen

\* Ten seconds have passed, the connection is lost, or a hook fails after the flush.
Timeout(p) ==
    /\ posts[p].awaited
    /\ Complete(p, FALSE)
    /\ unseen' = (unseen \/ (posts[p].pc = "ok" /\ posts[p].el = drawn))

-----------------------------------------------------------------------------
(* The server.                                                             *)

SessionFree == \A p \in DOMAIN posts : posts[p].pc # "served"

\* The answers on their way no longer say what the row is.
Outdate == lists' = [n \in Draws |->
                       IF lists[n].pc = "read" THEN [lists[n] EXCEPT !.old = TRUE] ELSE lists[n]]

ServeList(n) ==
    /\ lists[n].pc = "sent" /\ SessionFree
    /\ lists' = [lists EXCEPT ![n].pc = "read", ![n].on = active]
    /\ UNCHANGED <<server, iDraw, search, drawn, shown, toggle, posts, unseen>>

\* The entity is found, then flipped and flushed.
Serve(p) ==
    /\ posts[p].pc = "sent" /\ SessionFree
    /\ posts' = [posts EXCEPT ![p].pc = "served", ![p].kept = active]
    /\ UNCHANGED <<server, table, toggle, unseen>>

Flip(p) ==
    /\ posts[p].pc = "served"
    /\ active' = ~posts[p].kept
    /\ posts' = [posts EXCEPT ![p].pc = "ok"]
    /\ Outdate
    /\ unseen' = (unseen \/ ~posts[p].awaited \/ posts[p].el # drawn)
    /\ UNCHANGED <<foreign, iDraw, search, drawn, shown, toggle>>

\* Not logged in, no such mailbox, a plugin's veto, or an exception.
Refuse(p) ==
    /\ posts[p].pc \in {"sent", "served"} /\ (posts[p].pc = "sent" => SessionFree)
    /\ posts' = [posts EXCEPT ![p].pc = "ko"]
    /\ UNCHANGED <<server, table, toggle, unseen>>

\* Somebody else toggles the row.
Foreign ==
    /\ foreign < MaxForeign /\ foreign' = foreign + 1
    /\ active' = ~active
    /\ Outdate /\ unseen' = TRUE
    /\ UNCHANGED <<iDraw, search, drawn, shown, toggle, posts>>

\* The page is opened anew.  What the server still does for the old one would be
\* to the new one what Foreign is.
Reload ==
    /\ \A p \in DOMAIN posts : posts[p].pc \in {"ok", "ko"}
    /\ iDraw' = 1 /\ search' = All /\ lists' = FirstAsked
    /\ drawn' = 0 /\ shown' = All
    /\ cls' = "none" /\ disabled' = FALSE /\ handlers' = 0
    /\ posts' = <<>> /\ unseen' = FALSE
    /\ UNCHANGED server

PageNext ==
    \/ \E s \in Searches : Search(s)
    \/ Redraw \/ Click \/ Foreign \/ Reload
    \/ \E n \in Draws : Answer(n) \/ ListFails(n) \/ ServeList(n)
    \/ \E p \in DOMAIN posts : ToggleAnswered(p) \/ Timeout(p) \/ Serve(p) \/ Flip(p) \/ Refuse(p)

PageSpec == PageInit /\ [][PageNext]_pageVars

-----------------------------------------------------------------------------
(* Properties.                                                             *)

\* A toggle is relative, so a second request undoes the first: however often
\* the element is clicked, and whichever handlers it has gathered, only one of
\* its requests is under way.
OneRequestEach ==
    \A p, q \in DOMAIN posts :
        posts[p].awaited /\ posts[q].awaited /\ posts[p].el = posts[q].el => p = q

\* A search that was answered last is shown, whatever order answers come in.
SearchShown == lists[iDraw].pc = "drawn" => shown = search /\ drawn = iDraw

\* A toggle at rest says what the server has, through refusals, errors and
\* redraws, unless a change was made that the page was not told of: by somebody
\* else, by a request whose answer was lost, or by one of a row drawn over.
LabelTrue == shown \in Matches /\ cls # "none" => unseen \/ (cls = "success") = active

\* The type, and what the page asks for and shows, in any order of clicks, answers
\* and redraws.
PageTrue == PageTypeOK /\ OneRequestEach /\ SearchShown /\ LabelTrue
=============================================================================
