------------------------------ MODULE Directory -----------------------------
(***************************************************************************)
(* The mailboxes and aliases of one domain and the counters its row keeps  *)
(* of them, as changed by the web pages, the MCP tools and the queue, with *)
(* the plugin that keeps the automatic (RFC 2142) aliases.                 *)
(*                                                                         *)
(* A request reads in two moments: first the row it is about (or, when it  *)
(* creates one, the domain), then whatever else it needs.  What it decides *)
(* is a unit of work, which EntityManager::flush carries out in one        *)
(* transaction: all of it or, on a duplicate key, nothing.                 *)
(*                                                                         *)
(* Abstractions.  An address is its local part; a `goto` list is a set of  *)
(* addresses of the domain.  The plugin has no defaultMapping.  Quotas,    *)
(* passwords, preferences, log entries and the rights on the domain are    *)
(* left out, and so is a mailbox's `active`.                               *)
(***************************************************************************)
EXTENDS Integers, FiniteSets

CONSTANTS
    Users,          \* local parts
    Automatic,      \* MailboxAutomaticAliases: those whose alias is required
    Catchall,       \* the alias of the whole domain
    Clients,
    MailboxAliases, \* the option mailboxAliases
    MaxMailboxes,   \* domain.max_mailboxes; 0 is no limit
    MaxAliases,     \* domain.max_aliases
    MaxCalls        \* bound: requests in a behaviour

ASSUME AutomaticAreUsers == Automatic \subseteq Users /\ Catchall \notin Users
ASSUME FinitelyMany == IsFiniteSet(Users) /\ MaxMailboxes \in Nat /\ MaxCalls \in Nat

Addresses  == Users \cup {Catchall}
None       == {}            \* no goto: no alias
Only(x, g) == [y \in {x} |-> g]

VARIABLES
    mailboxes,  \* the rows of `mailbox`
    goto,       \* alias.goto of each address
    on,         \* the aliases with alias.active
    mcount,     \* domain.mailbox_count
    acount,     \* domain.alias_count
    req,        \* the requests
    calls,
    lost        \* history: counters a request wrote over, and miscounts

db   == <<mailboxes, goto, on, mcount, acount>>
directoryVars == <<db, req, calls, lost>>

Rows   == {x \in Addresses : goto[x] # None}
SelfAlias(x, g) == g = {x}
Listed == {x \in Rows : ~SelfAlias(x, goto[x])}

BoxAdds    == {"box-add", "box-create", "restore"}      \* web, MCP, archive
BoxDrops   == {"box-purge", "box-delete"}               \* web; MCP and queue
BoxEdits   == {"box-edit"}                              \* its name, quota and the like
AliasAdds  == {"alias-add", "alias-create"}             \* web, MCP
AliasEdits == {"alias-edit", "alias-toggle", "alias-delete", "alias-drop", "detach"}
Ops        == BoxAdds \cup BoxDrops \cup BoxEdits \cup AliasAdds \cup AliasEdits

\* The requests that notify addPostflush.
Hooked == {"box-add", "box-edit", "alias-add", "alias-edit"}

NoWork == [box |-> "none", put |-> <<>>, cut |-> {}, set |-> <<>>, flip |-> FALSE]

\* work: the unit of work.  m, a: the counters as read; m2, a2: as changed.
\* was, on: the alias the request is about, as read.
Idle == [pc |-> "idle", op |-> "none", tgt |-> Catchall, super |-> FALSE,
         dest |-> None, was |-> None, on |-> FALSE, work |-> NoWork,
         m |-> 0, a |-> 0, m2 |-> 0, a2 |-> 0, odd |-> FALSE,
         gone |-> {}, boxGone |-> FALSE, touched |-> {}]

DirectoryTypeOK ==
    /\ mailboxes \subseteq Users
    /\ goto \in [Addresses -> SUBSET Users]
    /\ on \subseteq Rows
    /\ mcount \in Int /\ acount \in Int
    /\ \A q \in Clients :
         /\ req[q].pc \in {"idle", "begun", "ready", "flushed", "extra"}
         /\ req[q].pc = "idle" <=> req[q] = Idle
         /\ req[q].op \in Ops \cup {"none"}
         /\ req[q].pc \in {"begun", "flushed"} => req[q].work = NoWork
         /\ DOMAIN req[q].work.put \cap req[q].work.cut = {}
    /\ calls \in 0..MaxCalls
    /\ lost \subseteq {"mailboxes", "aliases"}

\* Mailboxes and single-address aliases, counted right.
DirectoryInit ==
    /\ mailboxes \in SUBSET Users
    /\ goto \in [Addresses -> {None} \cup {{u} : u \in Users}]
    /\ on = Rows
    /\ mcount = Cardinality(mailboxes)
    /\ acount = Cardinality(Listed)
    /\ req = [q \in Clients |-> Idle]
    /\ calls = 0 /\ lost = {}

-----------------------------------------------------------------------------
(* Requests.                                                               *)

MayBegin(q) == req[q] = Idle /\ calls < MaxCalls

Begin(q, r) ==
    /\ calls' = calls + 1
    /\ req' = [req EXCEPT ![q] = r]
    /\ UNCHANGED <<db, lost>>

Domain(r) == [r EXCEPT !.m = mcount, !.a = acount, !.m2 = mcount, !.a2 = acount]

\* Mutant: the allowance may be exceeded by one.
UsedUpLate(count, max) == max # 0 /\ count > max

UsedUp(count, max) == max # 0 /\ count >= max

\* The web pages hold an admin who is not a super admin to the allowance.
BeginCreate(q, op, t) ==
    /\ MayBegin(q)
    /\ \E super \in BOOLEAN, dest \in (SUBSET Users) \ {None}, active \in BOOLEAN :
         /\ op = "box-add" => super \/ ~UsedUp(mcount, MaxMailboxes)
         /\ op = "alias-add" => super \/ ~UsedUp(acount, MaxAliases)
         /\ op \in BoxAdds => t # Catchall /\ dest = {t}
         /\ op = "alias-create" => Cardinality(dest) = 1
         /\ op # "alias-create" => active
         /\ op \notin {"box-add", "alias-add"} => super
         /\ Begin(q, Domain([Idle EXCEPT !.pc = "begun", !.op = op, !.tgt = t,
                                         !.super = super, !.dest = dest, !.on = active]))

BeginBox(q, op, t) ==
    /\ MayBegin(q) /\ t \in mailboxes
    /\ Begin(q, [Idle EXCEPT !.pc = "begun", !.op = op, !.tgt = t])

\* What an edit makes of the list: any, or the list less one mailbox.
Edited(op, t) ==
    CASE op = "alias-edit" -> (SUBSET Users) \ {None}
      [] op = "detach"     -> {goto[t] \ {u} : u \in mailboxes}
      [] OTHER             -> {goto[t]}

BeginEdit(q, op, t) ==
    /\ MayBegin(q) /\ t \in Rows
    /\ \E dest \in Edited(op, t) :
         Begin(q, [Idle EXCEPT !.pc = "begun", !.op = op, !.tgt = t, !.dest = dest,
                               !.was = goto[t], !.on = t \in on])

EndRequest(q) ==
    /\ req' = [req EXCEPT ![q] = Idle]
    /\ UNCHANGED <<db, calls, lost>>

\* A check fails, a plugin vetoes, the flush fails or the process is killed.
RequestFails(q) == req[q].pc # "idle" /\ EndRequest(q)

\* The request r has decided on its unit of work.
Ready(q, r, work) ==
    /\ req' = [req EXCEPT ![q] = [r EXCEPT
                 !.pc = IF r.pc = "flushed" THEN "extra" ELSE "ready", !.work = work,
                 !.gone = @ \cap (IF r.op \in AliasEdits THEN {r.tgt} ELSE {}),
                 !.touched = @ \cap (IF r.op \in AliasEdits THEN {r.tgt} ELSE {})]]
    /\ UNCHANGED <<db, calls, lost>>

-----------------------------------------------------------------------------
(* Mailboxes.                                                              *)

\* Mutant: the last one stays counted.
LessToOne(count, n) == IF count > n THEN count - n ELSE count

\* decreaseMailboxCount, decreaseAliasCount, n times: not below zero.
Less(count, n) == IF count > n THEN count - n ELSE IF count > 0 THEN 0 ELSE count

\* The self-alias comes with it unless that address has an alias; only MCP's
\* counts it.  A restore makes none.
AddMailbox(q) ==
    LET r    == req[q]
        self == IF r.op # "restore" /\ MailboxAliases /\ r.tgt \notin Rows
                THEN Only(r.tgt, {r.tgt}) ELSE <<>>
        mcp  == r.op = "box-create" /\ self # <<>> IN
    /\ r.pc = "begun" /\ r.op \in BoxAdds /\ r.tgt \notin mailboxes
    /\ Ready(q, [r EXCEPT !.m2 = r.m + 1, !.a2 = IF mcp THEN r.a + 1 ELSE r.a, !.odd = mcp],
             [NoWork EXCEPT !.box = "insert", !.put = self])

\* Nothing that is modelled changes, even when the mailbox is gone by now; what
\* counts is the hook after the flush.
EditMailbox(q) ==
    LET r == req[q] IN
    /\ r.pc = "begun" /\ r.op \in BoxEdits
    /\ Ready(q, Domain(r), NoWork)

\* hasActiveDomainAlias: the entity, when the request is about this alias.
DomainAlias(r) ==
    Catchall \in Rows /\
    IF r.tgt = Catchall /\ Catchall \notin r.gone THEN r.on ELSE Catchall \in on

\* mailbox_purge_preRemove
MayPurge(r) == DomainAlias(r) \/ \A x \in Automatic : goto[x] # {r.tgt}

\* loadWithMailbox: the lists that lose the mailbox.
Trim(u) ==
    [x \in {y \in Rows : u \in goto[y] /\ goto[y] # {u}} |-> goto[x] \ {u}]

\* Repositories\Mailbox::purgeMailbox
RemoveMailbox(q) ==
    LET r    == req[q]
        cut  == {x \in Addresses : goto[x] = {r.tgt}}
        trim == Trim(r.tgt)
        n    == Cardinality({x \in cut : ~SelfAlias(x, goto[x])}) IN
    /\ r.pc = "begun" /\ r.op \in BoxDrops
    /\ r.op = "box-purge" => MayPurge(r)
    /\ Ready(q, [Domain(r) EXCEPT !.m2 = Less(mcount, 1), !.a2 = Less(acount, n),
                                  !.odd = \E x \in DOMAIN trim : SelfAlias(x, trim[x])],
             [NoWork EXCEPT !.box = "delete", !.cut = cut, !.set = trim])

-----------------------------------------------------------------------------
(* Aliases.                                                                *)

AddAlias(q) ==
    LET r    == req[q]
        self == SelfAlias(r.tgt, r.dest)
        mcp  == r.op = "alias-create" IN
    /\ r.pc = "begun" /\ r.op \in AliasAdds /\ r.tgt \notin Rows
    /\ Ready(q, [r EXCEPT !.a2 = IF self /\ ~mcp THEN r.a ELSE r.a + 1, !.odd = self /\ mcp],
             [NoWork EXCEPT !.put = Only(r.tgt, r.dest)])

\* The count stays as it is.
EditAlias(q) ==
    LET r == req[q] IN
    /\ r.pc = "begun" /\ r.op = "alias-edit"
    /\ Ready(q, [Domain(r) EXCEPT !.odd = SelfAlias(r.tgt, r.was) # SelfAlias(r.tgt, r.dest)],
             [NoWork EXCEPT !.set = IF r.dest = r.was THEN <<>> ELSE Only(r.tgt, r.dest)])

\* Mutant: only where an automatic alias leads to is kept.
MayGoItself(r) ==
    IF r.tgt = Catchall THEN Automatic \subseteq on
    ELSE DomainAlias(r) \/ \A x \in Automatic : goto[x] # {r.tgt}

\* alias_delete_preRemove, alias_toggleActive_preToggle
MayGo(r) ==
    IF r.tgt = Catchall THEN Automatic \subseteq on
    ELSE \/ DomainAlias(r)
         \/ r.tgt \notin Automatic /\ \A x \in Automatic : goto[x] # {r.tgt}

ToggleAlias(q) ==
    LET r == req[q] IN
    /\ r.pc = "begun" /\ r.op = "alias-toggle"
    /\ r.on => MayGo(r)
    /\ Ready(q, Domain(r), [NoWork EXCEPT !.flip = TRUE])

\* The count goes down, below zero too except in MCP's.
RemoveAlias(q) ==
    LET r    == req[q]
        self == SelfAlias(r.tgt, r.was) IN
    /\ r.pc = "begun"
    /\ \/ /\ r.op = "alias-delete" /\ MayGo(r)
          /\ Ready(q, [Domain(r) EXCEPT !.a2 = IF self THEN acount ELSE acount - 1],
                   [NoWork EXCEPT !.cut = {r.tgt}])
       \/ /\ r.op = "alias-drop"
          /\ Ready(q, [Domain(r) EXCEPT !.a2 = IF acount > 0 THEN acount - 1 ELSE 0, !.odd = self],
                   [NoWork EXCEPT !.cut = {r.tgt}])

\* mailbox/delete-alias takes one mailbox off the list.
Detach(q) ==
    LET r == req[q] IN
    /\ r.pc = "begun" /\ r.op = "detach"
    /\ IF r.dest = None
       THEN Ready(q, [Domain(r) EXCEPT !.a2 = acount - 1, !.odd = SelfAlias(r.tgt, r.was)],
                  [NoWork EXCEPT !.cut = {r.tgt}])
       ELSE Ready(q, [Domain(r) EXCEPT !.odd = r.dest # r.was /\ SelfAlias(r.tgt, r.dest)],
                  [NoWork EXCEPT !.set = IF r.dest = r.was THEN <<>> ELSE Only(r.tgt, r.dest)])

-----------------------------------------------------------------------------
(* EntityManager::flush and the plugin's addPostflush.                     *)

\* The unit of work inserts no duplicate (unique indexes on the addresses).
Accepted(r) ==
    /\ DOMAIN r.work.put \cap Rows = {}
    /\ r.work.box = "insert" => r.tgt \notin mailboxes

\* A row that was deleted since it was read is neither deleted nor updated,
\* though another may have its address by now.
Cut(r) == r.work.cut \ r.gone
NewGoto(r) ==
    [x \in Addresses |->
        IF x \in Cut(r) THEN None
        ELSE IF x \in DOMAIN r.work.put THEN r.work.put[x]
        ELSE IF x \in DOMAIN r.work.set \ r.gone THEN r.work.set[x]
        ELSE goto[x]]
\* Mutant: a deleted alias stays active.
NewOnKeeps(r) ==
    LET put == IF r.on \/ r.pc = "extra" THEN DOMAIN r.work.put ELSE {} IN
    IF r.work.flip /\ r.tgt \notin r.gone
    THEN IF r.on THEN on \ {r.tgt} ELSE on \cup ({r.tgt} \cap Rows)
    ELSE on \cup put

NewOn(r) ==
    LET put == IF r.on \/ r.pc = "extra" THEN DOMAIN r.work.put ELSE {} IN
    IF r.work.flip /\ r.tgt \notin r.gone
    THEN IF r.on THEN on \ {r.tgt} ELSE on \cup ({r.tgt} \cap Rows)
    ELSE (on \ Cut(r)) \cup put

NewMailboxes(r) ==
    CASE r.work.box = "insert" -> mailboxes \cup {r.tgt}
      [] r.work.box = "delete" /\ ~r.boxGone -> mailboxes \ {r.tgt}
      [] OTHER -> mailboxes

\* What the other requests have read and is now changed.
Overtaken(q, r, g, o) ==
    [p \in Clients |->
        IF p = q \/ req[p] = Idle THEN req[p]
        ELSE [req[p] EXCEPT
                !.gone = @ \cup Cut(r),
                !.boxGone = @ \/ (req[p].tgt \in mailboxes /\ req[p].tgt \notin NewMailboxes(r)),
                !.touched = @ \cup {x \in Addresses :
                    g[x] # goto[x] \/ (x \in on) # (x \in o)}]]

\* A counter that is changed is written as the request computed it, whatever
\* it has become since it was read.
Slips(r) ==
    (IF (r.m2 # r.m /\ r.m # mcount) \/ (r.work.box = "delete" /\ r.boxGone)
     THEN {"mailboxes"} ELSE {})
    \cup
    (IF \/ r.a2 # r.a /\ r.a # acount
        \/ r.odd
        \/ r.gone \cap (r.work.cut \cup DOMAIN r.work.set) # {}
     THEN {"aliases"} ELSE {})

FlushWork(q) ==
    LET r == req[q]  g == NewGoto(r)  o == NewOn(r) IN
    /\ r.pc \in {"ready", "extra"} /\ Accepted(r)
    /\ mailboxes' = NewMailboxes(r)
    /\ goto' = g /\ on' = o
    /\ mcount' = IF r.m2 # r.m THEN r.m2 ELSE mcount
    /\ acount' = IF r.a2 # r.a THEN r.a2 ELSE acount
    /\ lost' = lost \cup Slips(r)
    /\ req' = [Overtaken(q, r, g, o) EXCEPT ![q] =
                 IF r.op \in Hooked /\ r.pc = "ready"
                 THEN [r EXCEPT !.pc = "flushed", !.work = NoWork, !.m = r.m2, !.a = r.a2,
                                !.odd = FALSE, !.gone = r.gone \cap {r.tgt}]
                 ELSE Idle]
    /\ UNCHANGED calls

\* createAutomaticAlias: the alias leads to the new address, or, when that is
\* the domain alias, to itself.
AutomaticGoto(r, x) == IF r.tgt = Catchall THEN {x} ELSE {r.tgt}

\* mailbox_add_addPostflush, alias_add_addPostflush: insert what is missing.
Required(q) ==
    LET r       == req[q]
        missing == IF DomainAlias(r) THEN {} ELSE Automatic \ Rows
        put     == [x \in missing |-> AutomaticGoto(r, x)] IN
    /\ r.pc = "flushed"
    /\ IF missing = {} THEN EndRequest(q)
       ELSE Ready(q, [r EXCEPT !.a2 = r.a + Cardinality(missing),
                               !.odd = \E x \in missing : SelfAlias(x, put[x])],
                  [NoWork EXCEPT !.put = put])

DirectoryNext ==
    \E q \in Clients :
      \/ \E op \in BoxAdds \cup AliasAdds, t \in Addresses : BeginCreate(q, op, t)
      \/ \E op \in BoxDrops \cup BoxEdits, t \in Users : BeginBox(q, op, t)
      \/ \E op \in AliasEdits, t \in Addresses : BeginEdit(q, op, t)
      \/ AddMailbox(q) \/ EditMailbox(q) \/ RemoveMailbox(q)
      \/ AddAlias(q) \/ EditAlias(q) \/ ToggleAlias(q) \/ RemoveAlias(q) \/ Detach(q)
      \/ FlushWork(q) \/ Required(q) \/ RequestFails(q)

DirectorySpec == DirectoryInit /\ [][DirectoryNext]_directoryVars

-----------------------------------------------------------------------------
(* Properties.                                                             *)

\* The domain's mailbox_count is the number of its mailboxes, which the limits
\* and the lists rely on, unless two requests counted from the same value or
\* removed the same mailbox.
MailboxCountRight == "mailboxes" \notin lost => mcount = Cardinality(mailboxes)

\* alias_count is the number of aliases that are no self-aliases ("address ==
\* goto ... does not count"), with the same reservation and unless a request
\* counted a self-alias, or made one an ordinary alias or the reverse.
AliasCountRight == "aliases" \notin lost => acount = Cardinality(Listed)

\* An admin who is held to the allowance gets past it only by a lost update of
\* the counter, whatever MCP, restores and purges do in between.
LimitKept ==
    [][\A q \in Clients :
         /\ req[q].op = "box-add" /\ ~req[q].super /\ MaxMailboxes # 0
         /\ req[q].pc = "ready" /\ mailboxes' # mailboxes /\ req'[q].pc = "flushed"
         => Cardinality(mailboxes') <= MaxMailboxes \/ "mailboxes" \in lost']_directoryVars

Answered(x) == x \in on \/ Catchall \in on

Uncovers(q) ==
    /\ req[q].pc = "ready" /\ req[q].touched = {} /\ req'[q] = Idle
    /\ \E x \in Automatic : Answered(x) /\ ~Answered(x)'

\* MailboxAutomaticAliases: deleting or disabling an alias, or purging a
\* mailbox, on the web leaves every automatic alias answered that was, unless
\* another request changed the aliases meanwhile.  The one exception: an active
\* domain alias excuses the purge of every mailbox, that of the mailbox it leads
\* to among them, which takes the domain alias with it.
GuardStands ==
    [][\A q \in Clients :
         req[q].op \in {"alias-delete", "alias-toggle", "box-purge"} /\ Uncovers(q) =>
            req[q].op = "box-purge" /\ goto[Catchall] = {req[q].tgt}]_directoryVars
=============================================================================
