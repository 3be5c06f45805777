----------------------------- MODULE MCWebPages -----------------------------
(***************************************************************************)
(* Small instances for TLC of what the operator's pages work on: the list  *)
(* of mailboxes in a browser, a domain's mailboxes and aliases, and one    *)
(* account's tasks and archive.  They share nothing, so a behaviour moves  *)
(* only one of them; of the account it moves one of three scenes.          *)
(***************************************************************************)
EXTENDS MCMailTask, Directory, ListPage

VARIABLE moving

pages == <<moving, vars, directoryVars, pageVars>>

Scenes == {"two runners", "archive pages", "prune"}

\* Those that do not move are in one of their initial states.
PagesInit ==
    /\ moving \in Scenes \cup {"directory", "list"}
    /\ Init /\ DirectoryInit /\ PageInit
    /\ moving # "list" => active
    /\ IF moving = "directory" THEN \A x \in Rows : goto[x] \cap Automatic = {}
       ELSE mailboxes = {} /\ Rows = {}
    /\ moving \notin Scenes => store = {} /\ mailbox /\ ~arch.there
    /\ moving = "two runners" => ~arch.there

Untouched(T) == \A t \in T : status'[t] = "new"

\* No two workers drain at once.
OneDrain == \A v, w \in Workers : pc'[v] # "idle" /\ pc'[w] # "idle" => v = w

NoRequest == rpc' = rpc
NoMail    == sent' = sent

\* What one scene has of the account: an ARCHIVE and a DELETE on two runners; a
\* DELETE and a request at a time; a DELETE, an autoprune task and no request.
Scene ==
    CASE moving = "two runners"   -> Untouched({prune}) /\ NoRequest /\ NoMail /\ errors' = 0
      [] moving = "archive pages" -> Untouched({archive, prune}) /\ OneDrain
      [] moving = "prune"         -> Untouched({archive}) /\ OneDrain /\ NoRequest /\ NoMail

\* Without what Toggle and Expire change, which only a task to prune looks at.
Steady == (\E w \in Workers : WorkerNext(w)) \/ (\E q \in Requests : RequestNext(q))
          \/ (\E t \in TaskIds : QueueNext(t)) \/ (\E m \in Incoming : Deliver(m))

TasksMove ==
    /\ moving \in Scenes
    /\ IF moving = "prune" THEN Next ELSE Steady
    /\ Scene
    /\ UNCHANGED <<moving, directoryVars, pageVars>>
DirectoryMoves ==
    moving = "directory" /\ DirectoryNext /\ UNCHANGED <<moving, vars, pageVars>>
ListMoves ==
    moving = "list" /\ PageNext /\ UNCHANGED <<moving, vars, directoryVars>>

PagesSpec == PagesInit /\ [][TasksMove \/ DirectoryMoves \/ ListMoves]_pages

Symmetric == WorkerSymmetry \cup Permutations(Clients)
=============================================================================
