--------------------------- MODULE DirectoryProofs --------------------------
(***************************************************************************)
(* Theorems about Directory: the counters of mailboxes and aliases, the    *)
(* allowance, and the guard of the automatic aliases, for every set of     *)
(* addresses and any number of requests at once.                           *)
(***************************************************************************)
EXTENDS Directory, FiniteSetTheorems, TLAPS

Fields == {"pc", "op", "tgt", "super", "dest", "was", "on", "work", "m", "a",
           "m2", "a2", "odd", "gone", "boxGone", "touched"}

\* What a unit of work does to mailbox_count is what it does to the rows.
WorkCounts(r) ==
    /\ r.work.box = "insert" => r.m2 = r.m + 1
    /\ r.work.box = "delete" =>
          /\ r.m2 = Less(r.m, 1)
          /\ r.boxGone \/ r.tgt \in mailboxes
          /\ r.boxGone \/ r.m > 0 \/ "mailboxes" \in lost
    /\ r.work.box \notin {"insert", "delete"} => r.m2 = r.m

\* One request: its counter was read as an integer; the mailbox it has read to
\* delete is there or known to be gone; who is held to the allowance saw room.
Sound(r) ==
    /\ DOMAIN r = Fields
    /\ r.m \in Int /\ r.m2 \in Int
    /\ r.tgt \in Addresses
    /\ r.pc \in {"idle", "begun", "flushed"} => r.m2 = r.m
    /\ r.pc = "begun" /\ r.op \in BoxDrops => r.boxGone \/ r.tgt \in mailboxes
    /\ r.pc = "ready" => WorkCounts(r)
    /\ r.pc = "extra" => r.work.box = "none" /\ r.m2 = r.m
    /\ r.pc = "ready" /\ r.work.box = "insert" => r.tgt \in Users
    /\ r.pc = "begun" /\ r.op \in BoxAdds => r.tgt \in Users
    /\ r.op = "box-add" /\ ~r.super /\ MaxMailboxes # 0 /\ r.pc \in {"begun", "ready"}
       => r.m < MaxMailboxes
    /\ r.op = "box-add" /\ r.pc = "ready" => r.work.box = "insert"

IInv ==
    /\ mailboxes \subseteq Users /\ mcount \in Int
    /\ MailboxCountRight
    /\ DOMAIN req = Clients
    /\ \A q \in Clients : Sound(req[q])

LEMMA BoxesAreFinite == ASSUME mailboxes \subseteq Users
                        PROVE  IsFiniteSet(mailboxes) /\ Cardinality(mailboxes) \in Nat
  BY FinitelyMany, FS_Subset, FS_CardinalityType

LEMMA InitInv == DirectoryInit => IInv
  <1>. SUFFICES ASSUME DirectoryInit PROVE IInv
    OBVIOUS
  <1>1. mailboxes \subseteq Users /\ mcount \in Int /\ MailboxCountRight
    BY BoxesAreFinite DEF DirectoryInit, MailboxCountRight
  <1>2. Sound(Idle)
    BY DEF Sound, Idle, Fields, Addresses, BoxDrops, BoxAdds
  <1>. QED
    BY <1>1, <1>2 DEF DirectoryInit, IInv

\* A step that leaves the rows and the counter alone and moves one request.
LEMMA OneMoves ==
    ASSUME IInv, UNCHANGED <<db, lost>>,
           NEW q \in Clients, NEW r, req' = [req EXCEPT ![q] = r], Sound(r)
    PROVE  IInv'
  <1>1. mailboxes' = mailboxes /\ mcount' = mcount /\ lost' = lost
    BY DEF db
  <1>2. \A p \in Clients : req'[p] = IF p = q THEN r ELSE req[p]
    BY DEF IInv
  <1>3. \A p \in Clients : Sound(req'[p])
    BY <1>2 DEF IInv
  <1>4. \A p \in Clients : Sound(req[p])'
    BY <1>1, <1>3 DEF Sound, WorkCounts
  <1>. QED
    BY <1>1, <1>4 DEF IInv, MailboxCountRight

LEMMA BeginCreateInv ==
    ASSUME IInv, NEW q \in Clients, NEW op \in BoxAdds \cup AliasAdds,
           NEW t \in Addresses, BeginCreate(q, op, t)
    PROVE  IInv'
  <1>1. PICK super \in BOOLEAN, dest \in (SUBSET Users) \ {None}, active \in BOOLEAN :
           /\ op = "box-add" => super \/ ~UsedUp(mcount, MaxMailboxes)
           /\ op \in BoxAdds => t # Catchall
           /\ Begin(q, Domain([Idle EXCEPT !.pc = "begun", !.op = op, !.tgt = t,
                                           !.super = super, !.dest = dest, !.on = active]))
    BY DEF BeginCreate
  <1>. DEFINE r == Domain([Idle EXCEPT !.pc = "begun", !.op = op, !.tgt = t,
                                       !.super = super, !.dest = dest, !.on = active])
  <1>2. /\ DOMAIN r = Fields /\ r.pc = "begun" /\ r.op = op /\ r.tgt = t /\ r.super = super
        /\ r.m = mcount /\ r.m2 = mcount
    BY DEF Domain, Idle, Fields
  <1>3. Sound(r)
    <2>. HIDE DEF r
    <2>1. op \notin BoxDrops
      BY DEF BoxAdds, AliasAdds, BoxDrops
    <2>2. mcount \in Int /\ MaxMailboxes \in Nat
      BY FinitelyMany DEF IInv
    <2>3. op \in BoxAdds => t \in Users
      BY <1>1 DEF Addresses
    <2>4. op = "box-add" /\ ~super /\ MaxMailboxes # 0 => mcount < MaxMailboxes
      BY <1>1, <2>2 DEF UsedUp
    <2>. QED
      BY <1>2, <2>1, <2>2, <2>3, <2>4 DEF Sound
  <1>. HIDE DEF r
  <1>. QED
    BY <1>1, <1>3, OneMoves DEF Begin, r

LEMMA BeginBoxInv ==
    ASSUME IInv, NEW q \in Clients, NEW op \in BoxDrops \cup BoxEdits, NEW t \in Users,
           BeginBox(q, op, t)
    PROVE  IInv'
  <1>. DEFINE r == [Idle EXCEPT !.pc = "begun", !.op = op, !.tgt = t]
  <1>1. /\ DOMAIN r = Fields /\ r.pc = "begun" /\ r.op = op /\ r.tgt = t
        /\ r.m = 0 /\ r.m2 = 0
    BY DEF Idle, Fields
  <1>2. t \in mailboxes /\ Begin(q, r)
    BY DEF BeginBox
  <1>3. Sound(r)
    <2>. HIDE DEF r
    <2>. QED
      BY <1>1, <1>2 DEF Sound, BoxDrops, BoxEdits, BoxAdds, Addresses
  <1>. HIDE DEF r
  <1>. QED
    BY <1>2, <1>3, OneMoves DEF Begin

LEMMA BeginEditInv ==
    ASSUME IInv, NEW q \in Clients, NEW op \in AliasEdits, NEW t \in Addresses,
           BeginEdit(q, op, t)
    PROVE  IInv'
  <1>1. PICK dest \in Edited(op, t) :
           Begin(q, [Idle EXCEPT !.pc = "begun", !.op = op, !.tgt = t, !.dest = dest,
                                 !.was = goto[t], !.on = t \in on])
    BY DEF BeginEdit
  <1>. DEFINE r == [Idle EXCEPT !.pc = "begun", !.op = op, !.tgt = t, !.dest = dest,
                                !.was = goto[t], !.on = t \in on]
  <1>2. /\ DOMAIN r = Fields /\ r.pc = "begun" /\ r.op = op /\ r.tgt = t
        /\ r.m = 0 /\ r.m2 = 0
    BY DEF Idle, Fields
  <1>3. Sound(r)
    <2>. HIDE DEF r
    <2>. QED
      BY <1>2 DEF Sound, AliasEdits, BoxDrops, BoxAdds
  <1>4. Begin(q, r)
    BY <1>1
  <1>. HIDE DEF r
  <1>. QED
    BY <1>3, <1>4, OneMoves DEF Begin

LEMMA EndInv ==
    ASSUME IInv, NEW q \in Clients, EndRequest(q)
    PROVE  IInv'
  <1>1. Sound(Idle)
    BY DEF Sound, Idle, Fields, Addresses, BoxDrops, BoxAdds
  <1>. QED
    BY <1>1, OneMoves DEF EndRequest

\* A request that has read its row, or added its address, decides on a unit of
\* work; s is the request with its new counters.
LEMMA ReadyInv ==
    ASSUME IInv, NEW q \in Clients, NEW s, NEW work, Ready(q, s, work),
           DOMAIN s = Fields, s.m \in Int, s.m2 \in Int, s.tgt \in Addresses,
           \/ /\ s.pc = "begun"
              /\ work.box = "insert" => s.m2 = s.m + 1 /\ s.tgt \in Users
              /\ work.box = "delete" =>
                    /\ s.m2 = Less(s.m, 1)
                    /\ s.boxGone \/ s.tgt \in mailboxes
                    /\ s.boxGone \/ s.m > 0 \/ "mailboxes" \in lost
              /\ work.box \notin {"insert", "delete"} => s.m2 = s.m
              /\ s.op = "box-add" => work.box = "insert"
              /\ s.op = "box-add" /\ ~s.super /\ MaxMailboxes # 0 => s.m < MaxMailboxes
           \/ s.pc = "flushed" /\ work.box = "none" /\ s.m2 = s.m
    PROVE  IInv'
  <1>. DEFINE gone == s.gone \cap (IF s.op \in AliasEdits THEN {s.tgt} ELSE {})
              touched == s.touched \cap (IF s.op \in AliasEdits THEN {s.tgt} ELSE {})
              l == IF s.pc = "flushed" THEN "extra" ELSE "ready"
              r == [s EXCEPT !.pc = l, !.work = work, !.gone = gone, !.touched = touched]
  <1>1. /\ DOMAIN r = Fields /\ r.pc = l /\ r.work = work
        /\ r.op = s.op /\ r.tgt = s.tgt /\ r.super = s.super /\ r.boxGone = s.boxGone
        /\ r.m = s.m /\ r.m2 = s.m2
    <2>. HIDE DEF gone, touched, l
    <2>. QED
      BY DEF Fields
  <1>2. UNCHANGED <<db, lost>> /\ req' = [req EXCEPT ![q] = r]
    BY DEF Ready
  <1>3. Sound(r)
    <2>. HIDE DEF r, gone, touched
    <2>. QED
      BY <1>1 DEF Sound, WorkCounts
  <1>. HIDE DEF r
  <1>. QED
    BY <1>2, <1>3, OneMoves

-----------------------------------------------------------------------------
(* What the requests decide.                                               *)

LEMMA DomainFields ==
    ASSUME NEW r, DOMAIN r = Fields
    PROVE  /\ DOMAIN Domain(r) = Fields /\ Domain(r).m = mcount /\ Domain(r).m2 = mcount
           /\ Domain(r).pc = r.pc /\ Domain(r).op = r.op /\ Domain(r).tgt = r.tgt
           /\ Domain(r).super = r.super /\ Domain(r).boxGone = r.boxGone
  BY DEF Domain, Fields

LEMMA AddMailboxInv ==
    ASSUME IInv, NEW q \in Clients, AddMailbox(q)
    PROVE  IInv'
  <1>. DEFINE r    == req[q]
              self == IF r.op # "restore" /\ MailboxAliases /\ r.tgt \notin Rows
                      THEN Only(r.tgt, {r.tgt}) ELSE <<>>
              mcp  == r.op = "box-create" /\ self # <<>>
              a2   == IF mcp THEN r.a + 1 ELSE r.a
              s    == [r EXCEPT !.m2 = r.m + 1, !.a2 = a2, !.odd = mcp]
              work == [NoWork EXCEPT !.box = "insert", !.put = self]
  <1>1. r.pc = "begun" /\ r.op \in BoxAdds /\ Ready(q, s, work)
    BY DEF AddMailbox
  <1>. HIDE DEF self, mcp, a2
  <1>2. Sound(r)
    BY DEF IInv
  <1>3. /\ DOMAIN s = Fields /\ s.pc = r.pc /\ s.op = r.op /\ s.tgt = r.tgt
        /\ s.super = r.super /\ s.m = r.m /\ s.m2 = r.m + 1
    BY <1>2 DEF Sound, Fields
  <1>4. work.box = "insert"
    BY DEF NoWork
  <1>. HIDE DEF s, work
  <1>. QED
    BY <1>1, <1>2, <1>3, <1>4, ReadyInv DEF Sound

LEMMA EditMailboxInv ==
    ASSUME IInv, NEW q \in Clients, EditMailbox(q)
    PROVE  IInv'
  <1>. DEFINE r == req[q]
              s == Domain(r)
  <1>1. r.pc = "begun" /\ r.op = "box-edit" /\ Ready(q, s, NoWork)
    BY DEF EditMailbox, BoxEdits
  <1>2. r.tgt \in Addresses /\ DOMAIN r = Fields /\ mcount \in Int
    BY DEF IInv, Sound
  <1>3. /\ DOMAIN s = Fields /\ s.m = mcount /\ s.m2 = mcount
        /\ s.pc = r.pc /\ s.op = r.op /\ s.tgt = r.tgt
    <2>. HIDE DEF r
    <2>. QED
      BY <1>2, DomainFields
  <1>4. NoWork.box = "none"
    BY DEF NoWork
  <1>. HIDE DEF r, s
  <1>. QED
    BY <1>1, <1>2, <1>3, <1>4, ReadyInv

LEMMA RemoveMailboxInv ==
    ASSUME IInv, NEW q \in Clients, RemoveMailbox(q)
    PROVE  IInv'
  <1>. DEFINE r    == req[q]
              cut  == {x \in Addresses : goto[x] = {r.tgt}}
              trim == Trim(r.tgt)
              n    == Cardinality({x \in cut : ~SelfAlias(x, goto[x])})
              a2   == Less(acount, n)
              odd  == \E x \in DOMAIN trim : SelfAlias(x, trim[x])
              m2   == Less(mcount, 1)
              s    == [Domain(r) EXCEPT !.m2 = m2, !.a2 = a2, !.odd = odd]
              work == [NoWork EXCEPT !.box = "delete", !.cut = cut, !.set = trim]
  <1>1. r.pc = "begun" /\ r.op \in BoxDrops /\ Ready(q, s, work)
    BY DEF RemoveMailbox
  <1>. HIDE DEF cut, trim, n, a2, odd
  <1>2. Sound(r) /\ DOMAIN r = Fields
    BY DEF IInv, Sound
  <1>3. m2 \in Int /\ m2 = Less(mcount, 1) /\ mcount \in Int
    BY DEF IInv, Less
  <1>. HIDE DEF m2
  <1>4. /\ DOMAIN s = Fields /\ s.pc = r.pc /\ s.op = r.op /\ s.tgt = r.tgt
        /\ s.boxGone = r.boxGone /\ s.m = mcount /\ s.m2 = m2
    <2>. HIDE DEF r
    <2>. QED
      BY <1>2, DomainFields DEF Fields
  <1>5. work.box = "delete"
    BY DEF NoWork
  <1>6. r.boxGone \/ r.tgt \in mailboxes
    BY <1>1, <1>2 DEF Sound
  <1>7. r.tgt \in mailboxes => mcount > 0 \/ "mailboxes" \in lost
    <2>. SUFFICES ASSUME r.tgt \in mailboxes, "mailboxes" \notin lost PROVE mcount > 0
      BY <1>3
    <2>1. IsFiniteSet(mailboxes) /\ Cardinality(mailboxes) \in Nat
      BY BoxesAreFinite DEF IInv
    <2>2. Cardinality(mailboxes) # 0
      BY <2>1, FS_EmptySet
    <2>. QED
      BY <2>1, <2>2 DEF IInv, MailboxCountRight
  <1>8. r.op # "box-add" /\ r.tgt \in Addresses
    BY <1>1, <1>2 DEF BoxDrops, Sound
  <1>. HIDE DEF r, s, work
  <1>. QED
    BY <1>1, <1>3, <1>4, <1>5, <1>6, <1>7, <1>8, ReadyInv

LEMMA AddAliasInv ==
    ASSUME IInv, NEW q \in Clients, AddAlias(q)
    PROVE  IInv'
  <1>. DEFINE r    == req[q]
              self == SelfAlias(r.tgt, r.dest)
              mcp  == r.op = "alias-create"
              a2   == IF self /\ ~mcp THEN r.a ELSE r.a + 1
              odd  == self /\ mcp
              put  == Only(r.tgt, r.dest)
              s    == [r EXCEPT !.a2 = a2, !.odd = odd]
              work == [NoWork EXCEPT !.put = put]
  <1>1. r.pc = "begun" /\ r.op \in AliasAdds /\ Ready(q, s, work)
    BY DEF AddAlias
  <1>. HIDE DEF self, mcp, a2, odd, put
  <1>2. Sound(r)
    BY DEF IInv
  <1>3. /\ DOMAIN s = Fields /\ s.pc = r.pc /\ s.op = r.op /\ s.tgt = r.tgt
        /\ s.m = r.m /\ s.m2 = r.m2
    BY <1>2 DEF Sound, Fields
  <1>4. work.box = "none"
    BY DEF NoWork
  <1>5. r.op # "box-add"
    BY <1>1 DEF AliasAdds
  <1>. HIDE DEF s, work
  <1>. QED
    BY <1>1, <1>2, <1>3, <1>4, <1>5, ReadyInv DEF Sound

\* The requests about one alias leave the mailboxes and their count alone.
LEMMA AliasWorkInv ==
    ASSUME IInv, NEW q \in Clients, req[q].pc = "begun", req[q].op \in AliasEdits,
           NEW a2, NEW odd, NEW work, work.box = "none",
           \/ Ready(q, Domain(req[q]), work)
           \/ Ready(q, [Domain(req[q]) EXCEPT !.odd = odd], work)
           \/ Ready(q, [Domain(req[q]) EXCEPT !.a2 = a2], work)
           \/ Ready(q, [Domain(req[q]) EXCEPT !.a2 = a2, !.odd = odd], work)
    PROVE  IInv'
  <1>. DEFINE r == req[q]
              d == Domain(r)
  <1>1. Sound(r)
    BY DEF IInv
  <1>2. /\ DOMAIN d = Fields /\ d.m = mcount /\ d.m2 = mcount
        /\ d.pc = "begun" /\ d.op = r.op /\ d.tgt = r.tgt
    <2>. HIDE DEF r
    <2>. QED
      BY <1>1, DomainFields DEF Sound, r
  <1>. HIDE DEF d
  <1>3. PICK s \in {d, [d EXCEPT !.odd = odd], [d EXCEPT !.a2 = a2],
                    [d EXCEPT !.a2 = a2, !.odd = odd]} : Ready(q, s, work)
    BY DEF d
  <1>4. /\ DOMAIN s = Fields /\ s.m = mcount /\ s.m2 = mcount
        /\ s.pc = "begun" /\ s.op = r.op /\ s.tgt = r.tgt
    BY <1>2, <1>3 DEF Fields
  <1>5. r.op # "box-add" /\ r.tgt \in Addresses /\ mcount \in Int
    BY <1>1 DEF AliasEdits, Sound, IInv
  <1>. QED
    BY <1>3, <1>4, <1>5, ReadyInv

LEMMA AliasEditsInv ==
    ASSUME IInv, NEW q \in Clients,
           EditAlias(q) \/ ToggleAlias(q) \/ RemoveAlias(q) \/ Detach(q)
    PROVE  IInv'
  <1>. DEFINE r == req[q]
  <1>1. \A c, e : [NoWork EXCEPT !.cut = c].box = "none" /\ [NoWork EXCEPT !.set = e].box = "none"
    BY DEF NoWork
  <1>2. [NoWork EXCEPT !.flip = TRUE].box = "none"
    BY DEF NoWork
  <1>3. CASE EditAlias(q)
    <2>. DEFINE odd  == SelfAlias(r.tgt, r.was) # SelfAlias(r.tgt, r.dest)
                set  == IF r.dest = r.was THEN <<>> ELSE Only(r.tgt, r.dest)
    <2>1. /\ r.pc = "begun" /\ r.op \in AliasEdits
          /\ Ready(q, [Domain(r) EXCEPT !.odd = odd], [NoWork EXCEPT !.set = set])
      BY <1>3 DEF EditAlias, AliasEdits
    <2>. HIDE DEF odd, set
    <2>. QED
      BY <1>1, <2>1, AliasWorkInv
  <1>4. CASE ToggleAlias(q)
    <2>1. /\ r.pc = "begun" /\ r.op \in AliasEdits
          /\ Ready(q, Domain(r), [NoWork EXCEPT !.flip = TRUE])
      BY <1>4 DEF ToggleAlias, AliasEdits
    <2>. QED
      BY <1>2, <2>1, AliasWorkInv
  <1>5. CASE RemoveAlias(q)
    <2>. DEFINE self == SelfAlias(r.tgt, r.was)
                web  == IF self THEN acount ELSE acount - 1
                mcp  == IF acount > 0 THEN acount - 1 ELSE 0
                work == [NoWork EXCEPT !.cut = {r.tgt}]
    <2>1. /\ r.pc = "begun" /\ r.op \in AliasEdits
          /\ \/ Ready(q, [Domain(r) EXCEPT !.a2 = web], work)
             \/ Ready(q, [Domain(r) EXCEPT !.a2 = mcp, !.odd = self], work)
      BY <1>5 DEF RemoveAlias, AliasEdits
    <2>2. work.box = "none"
      BY <1>1
    <2>. HIDE DEF self, web, mcp, work
    <2>. QED
      BY <2>1, <2>2, AliasWorkInv
  <1>6. CASE Detach(q)
    <2>. DEFINE odd1 == SelfAlias(r.tgt, r.was)
                odd2 == r.dest # r.was /\ SelfAlias(r.tgt, r.dest)
                a2   == acount - 1
                set  == IF r.dest = r.was THEN <<>> ELSE Only(r.tgt, r.dest)
                cut  == {r.tgt}
    <2>1. /\ r.pc = "begun" /\ r.op \in AliasEdits
          /\ \/ Ready(q, [Domain(r) EXCEPT !.a2 = a2, !.odd = odd1], [NoWork EXCEPT !.cut = cut])
             \/ Ready(q, [Domain(r) EXCEPT !.odd = odd2], [NoWork EXCEPT !.set = set])
      BY <1>6 DEF Detach, AliasEdits
    <2>. HIDE DEF odd1, odd2, a2, set, cut
    <2>. QED
      BY <1>1, <2>1, AliasWorkInv
  <1>. QED
    BY <1>3, <1>4, <1>5, <1>6

LEMMA RequiredInv ==
    ASSUME IInv, NEW q \in Clients, Required(q)
    PROVE  IInv'
  <1>. DEFINE r       == req[q]
              missing == IF DomainAlias(r) THEN {} ELSE Automatic \ Rows
              put     == [x \in missing |-> AutomaticGoto(r, x)]
              a2      == r.a + Cardinality(missing)
              odd     == \E x \in missing : SelfAlias(x, put[x])
              s       == [r EXCEPT !.a2 = a2, !.odd = odd]
              work    == [NoWork EXCEPT !.put = put]
  <1>1. r.pc = "flushed" /\ (EndRequest(q) \/ Ready(q, s, work))
    BY DEF Required
  <1>. HIDE DEF missing, put, a2, odd
  <1>2. Sound(r)
    BY DEF IInv
  <1>3. /\ DOMAIN s = Fields /\ s.pc = r.pc /\ s.tgt = r.tgt /\ s.m = r.m /\ s.m2 = r.m2
    BY <1>2 DEF Sound, Fields
  <1>4. work.box = "none"
    BY DEF NoWork
  <1>. HIDE DEF s, work
  <1>. QED
    BY <1>1, <1>2, <1>3, <1>4, ReadyInv, EndInv DEF Sound

-----------------------------------------------------------------------------
(* The flush.                                                              *)

\* The counter follows the rows, unless it slips.
LEMMA FlushCounts ==
    ASSUME IInv, NEW q \in Clients, FlushWork(q)
    PROVE  /\ mailboxes' \subseteq Users /\ mcount' \in Int
           /\ MailboxCountRight'
  <1>. DEFINE r == req[q]
  <1>1. /\ r.pc \in {"ready", "extra"} /\ Accepted(r)
        /\ mailboxes' = NewMailboxes(r)
        /\ mcount' = IF r.m2 # r.m THEN r.m2 ELSE mcount
        /\ lost' = lost \cup Slips(r)
    BY DEF FlushWork
  <1>2. Sound(r) /\ mailboxes \subseteq Users /\ mcount \in Int
    BY DEF IInv
  <1>3. mcount' \in Int
    BY <1>1, <1>2 DEF Sound
  <1>4. r.work.box = "insert" => r.tgt \in Users /\ r.m2 = r.m + 1
    BY <1>1, <1>2 DEF Sound, WorkCounts
  <1>5. mailboxes' \subseteq Users
    BY <1>1, <1>2, <1>4 DEF NewMailboxes
  <1>6. MailboxCountRight'
    <2>. SUFFICES ASSUME "mailboxes" \notin lost' PROVE mcount' = Cardinality(mailboxes')
      BY DEF MailboxCountRight
    <2>1. /\ "mailboxes" \notin lost
          /\ r.m2 = r.m \/ r.m = mcount
          /\ r.work.box = "delete" => ~r.boxGone
      BY <1>1 DEF Slips
    <2>2. mcount = Cardinality(mailboxes)
      BY <2>1 DEF IInv, MailboxCountRight
    <2>3. IsFiniteSet(mailboxes) /\ Cardinality(mailboxes) \in Nat
      BY <1>2, BoxesAreFinite
    <2>4. r.m \in Int /\ r.m2 \in Int
      BY <1>2 DEF Sound
    <2>5. CASE r.work.box = "insert"
      <3>1. r.tgt \notin mailboxes /\ mailboxes' = mailboxes \cup {r.tgt}
        BY <1>1, <2>5 DEF Accepted, NewMailboxes
      <3>2. Cardinality(mailboxes') = Cardinality(mailboxes) + 1
        BY <2>3, <3>1, FS_AddElement
      <3>. QED
        BY <1>1, <1>4, <2>1, <2>2, <2>4, <2>5, <3>2
    <2>6. CASE r.work.box = "delete"
      <3>1. /\ r.m2 = Less(r.m, 1) /\ r.tgt \in mailboxes /\ r.m > 0
        BY <1>1, <1>2, <2>1, <2>6 DEF Sound, WorkCounts
      <3>2. r.m2 = r.m - 1
        BY <2>4, <3>1 DEF Less
      <3>3. mailboxes' = mailboxes \ {r.tgt}
        BY <1>1, <2>1, <2>6 DEF NewMailboxes
      <3>4. Cardinality(mailboxes') = Cardinality(mailboxes) - 1
        BY <2>3, <3>1, <3>3, FS_RemoveElement
      <3>. QED
        BY <1>1, <2>1, <2>2, <2>4, <3>2, <3>4
    <2>7. CASE r.work.box \notin {"insert", "delete"}
      <3>1. r.m2 = r.m
        BY <1>1, <1>2, <2>7 DEF Sound, WorkCounts
      <3>2. mailboxes' = mailboxes
        BY <1>1, <2>7 DEF NewMailboxes
      <3>. QED
        BY <1>1, <2>2, <3>1, <3>2
    <2>. QED
      BY <2>5, <2>6, <2>7
  <1>. QED
    BY <1>3, <1>5, <1>6

\* The request that flushed is done, or has the plugin's work to do; the
\* others know which of the rows they have read are gone.
LEMMA FlushSound ==
    ASSUME IInv, NEW q \in Clients, FlushWork(q)
    PROVE  DOMAIN req' = Clients /\ \A p \in Clients : Sound(req[p])'
  <1>. DEFINE r   == req[q]
              g   == NewGoto(r)
              o   == NewOn(r)
              e   == Overtaken(q, r, g, o)
              nxt == IF r.op \in Hooked /\ r.pc = "ready"
                     THEN [r EXCEPT !.pc = "flushed", !.work = NoWork, !.m = r.m2, !.a = r.a2,
                                    !.odd = FALSE, !.gone = r.gone \cap {r.tgt}]
                     ELSE Idle
  <1>1. req' = [e EXCEPT ![q] = nxt]
    BY DEF FlushWork
  <1>2. DOMAIN e = Clients
    BY DEF Overtaken
  <1>3. DOMAIN req' = Clients /\ req'[q] = nxt /\ \A p \in Clients \ {q} : req'[p] = e[p]
    <2>. HIDE DEF e, nxt
    <2>. QED
      BY <1>1, <1>2
  <1>4. mailboxes' = NewMailboxes(r) /\ lost \subseteq lost'
    BY DEF FlushWork
  <1>5. Sound(req[q])'
    <2>1. Sound(r)
      BY DEF IInv
    <2>2. CASE r.op \in Hooked /\ r.pc = "ready"
      <3>1. /\ DOMAIN nxt = Fields /\ nxt.pc = "flushed" /\ nxt.op = r.op /\ nxt.tgt = r.tgt
            /\ nxt.m = r.m2 /\ nxt.m2 = r.m2
        BY <2>1, <2>2 DEF Sound, Fields
      <3>. HIDE DEF nxt
      <3>. QED
        BY <1>3, <2>1, <3>1 DEF Sound
    <2>3. CASE ~(r.op \in Hooked /\ r.pc = "ready")
      <3>1. nxt = Idle
        BY <2>3
      <3>. HIDE DEF nxt
      <3>. QED
        BY <1>3, <3>1 DEF Sound, Idle, Fields, Addresses, BoxDrops, BoxAdds
    <2>. QED
      BY <2>2, <2>3
  <1>6. ASSUME NEW p \in Clients \ {q} PROVE Sound(req[p])'
    <2>. DEFINE s       == req[p]
                gone    == s.gone \cup Cut(r)
                boxGone == s.boxGone \/ (s.tgt \in mailboxes /\ s.tgt \notin NewMailboxes(r))
                touched == s.touched \cup {x \in Addresses :
                              g[x] # goto[x] \/ (x \in on) # (x \in o)}
                n == [s EXCEPT !.gone = gone, !.boxGone = boxGone, !.touched = touched]
    <2>1. Sound(s)
      BY DEF IInv
    <2>2. CASE s = Idle
      <3>1. req'[p] = Idle
        BY <1>3, <2>2 DEF Overtaken
      <3>. QED
        BY <3>1 DEF Sound, Idle, Fields, Addresses, BoxDrops, BoxAdds
    <2>3. CASE s # Idle
      <3>1. req'[p] = n
        BY <1>3, <2>3 DEF Overtaken
      <3>. HIDE DEF gone, touched
      <3>2. /\ DOMAIN n = Fields /\ n.pc = s.pc /\ n.op = s.op /\ n.tgt = s.tgt
            /\ n.super = s.super /\ n.work = s.work /\ n.m = s.m /\ n.m2 = s.m2
            /\ n.boxGone = boxGone
        <4>. HIDE DEF boxGone
        <4>. QED
          BY <2>1 DEF Sound, Fields
      <3>3. s.boxGone \/ s.tgt \in mailboxes => boxGone \/ s.tgt \in mailboxes'
        BY <1>4
      <3>4. s.boxGone => boxGone
        OBVIOUS
      <3>. HIDE DEF n, boxGone, s
      <3>. QED
        BY <1>4, <2>1, <3>1, <3>2, <3>3, <3>4 DEF Sound, WorkCounts
    <2>. QED
      BY <2>2, <2>3
  <1>. QED
    BY <1>3, <1>5, <1>6

LEMMA FlushInv ==
    ASSUME IInv, NEW q \in Clients, FlushWork(q)
    PROVE  IInv'
  BY FlushCounts, FlushSound DEF IInv

LEMMA StepInv == IInv /\ [DirectoryNext]_directoryVars => IInv'
  <1>. SUFFICES ASSUME IInv, [DirectoryNext]_directoryVars PROVE IInv'
    OBVIOUS
  <1>1. CASE UNCHANGED directoryVars
    BY <1>1 DEF directoryVars, db, IInv, MailboxCountRight, Sound, WorkCounts
  <1>2. ASSUME NEW q \in Clients, RequestFails(q) PROVE IInv'
    BY <1>2, EndInv DEF RequestFails
  <1>. QED
    BY <1>1, <1>2, BeginCreateInv, BeginBoxInv, BeginEditInv, AddMailboxInv,
       EditMailboxInv, RemoveMailboxInv, AddAliasInv, AliasEditsInv, FlushInv, RequiredInv DEF DirectoryNext

\* Of every request in flight: its unit of work does to the counter what it
\* does to the rows, unless it writes a count that another has changed since.
THEOREM Inductive == DirectorySpec => []IInv
  <1>. QED
    BY InitInv, StepInv, PTL DEF DirectorySpec

\* For every set of addresses, requests and limits: mailbox_count is right
\* until an update of it is lost (Domain::setMailboxCount, purgeMailbox).
THEOREM CountRight == DirectorySpec => []MailboxCountRight
  <1>1. IInv => MailboxCountRight
    BY DEF IInv
  <1>. QED
    BY <1>1, Inductive, PTL

-----------------------------------------------------------------------------
(* The allowance.                                                          *)

\* Nothing but its own flush takes a request from "ready" to "flushed".
LEMMA FlushedByFlush ==
    ASSUME IInv, DirectoryNext, NEW q \in Clients, req[q].pc = "ready", req'[q].pc = "flushed"
    PROVE  FlushWork(q)
  <1>1. DOMAIN req = Clients /\ \A p \in Clients : DOMAIN req[p] = Fields
    BY DEF IInv, Sound
  <1>2. Idle.pc = "idle"
    BY DEF Idle
  <1>3. ASSUME NEW p \in Clients, NEW r, req' = [req EXCEPT ![p] = r],
               p = q => r.pc # "flushed"
        PROVE FALSE
    BY <1>1, <1>3
  <1>4. ASSUME NEW p \in Clients, NEW r, MayBegin(p), Begin(p, r) PROVE FALSE
    BY <1>1, <1>2, <1>4 DEF MayBegin, Begin
  <1>5. ASSUME NEW p \in Clients, EndRequest(p) PROVE FALSE
    BY <1>2, <1>3, <1>5 DEF EndRequest
  <1>6. ASSUME NEW p \in Clients, NEW s, NEW work, Ready(p, s, work), req[p].pc # "ready"
        PROVE FALSE
    <2>1. p # q
      BY <1>6
    <2>. QED
      BY <1>3, <1>6, <2>1 DEF Ready
  <1>7. ASSUME NEW p \in Clients, FlushWork(p), p # q PROVE FALSE
    <2>. DEFINE e == Overtaken(p, req[p], NewGoto(req[p]), NewOn(req[p]))
    <2>1. PICK nxt : req' = [e EXCEPT ![p] = nxt]
      BY <1>7 DEF FlushWork
    <2>2. DOMAIN e = Clients
      BY DEF Overtaken
    <2>3. req'[q] = e[q]
      <3>. HIDE DEF e
      <3>. QED
        BY <1>7, <2>1, <2>2
    <2>4. e[q].pc = req[q].pc
      <3>. DEFINE r == req[p]
                  g == NewGoto(r)
                  o == NewOn(r)
                  s == req[q]
                  gone == s.gone \cup Cut(r)
                  boxGone == s.boxGone \/ (s.tgt \in mailboxes /\ s.tgt \notin NewMailboxes(r))
                  touched == s.touched \cup {x \in Addresses :
                                g[x] # goto[x] \/ (x \in on) # (x \in o)}
                  n == [s EXCEPT !.gone = gone, !.boxGone = boxGone, !.touched = touched]
      <3>1. e[q] = s \/ e[q] = n
        BY <1>7 DEF Overtaken
      <3>. HIDE DEF gone, boxGone, touched, e
      <3>2. n.pc = s.pc
        BY <1>1 DEF Fields
      <3>. QED
        BY <3>1, <3>2
    <2>. QED
      BY <2>3, <2>4
  <1>8. PICK p \in Clients :
          \/ \E op \in BoxAdds \cup AliasAdds, t \in Addresses : BeginCreate(p, op, t)
          \/ \E op \in BoxDrops \cup BoxEdits, t \in Users : BeginBox(p, op, t)
          \/ \E op \in AliasEdits, t \in Addresses : BeginEdit(p, op, t)
          \/ AddMailbox(p) \/ EditMailbox(p) \/ RemoveMailbox(p)
          \/ AddAlias(p) \/ EditAlias(p) \/ ToggleAlias(p) \/ RemoveAlias(p) \/ Detach(p)
          \/ FlushWork(p) \/ Required(p) \/ RequestFails(p)
    BY DEF DirectoryNext
  <1>9. CASE \E op \in BoxAdds \cup AliasAdds, t \in Addresses : BeginCreate(p, op, t)
    BY <1>4, <1>9 DEF BeginCreate
  <1>10. CASE \E op \in BoxDrops \cup BoxEdits, t \in Users : BeginBox(p, op, t)
    BY <1>4, <1>10 DEF BeginBox
  <1>11. CASE \E op \in AliasEdits, t \in Addresses : BeginEdit(p, op, t)
    BY <1>4, <1>11 DEF BeginEdit
  <1>12. CASE AddMailbox(p)
    BY <1>6, <1>12 DEF AddMailbox
  <1>13. CASE EditMailbox(p) \/ RemoveMailbox(p)
    BY <1>6, <1>13 DEF EditMailbox, RemoveMailbox
  <1>14. CASE AddAlias(p)
    BY <1>6, <1>14 DEF AddAlias
  <1>15. CASE EditAlias(p) \/ ToggleAlias(p)
    BY <1>6, <1>15 DEF EditAlias, ToggleAlias
  <1>16. CASE RemoveAlias(p) \/ Detach(p)
    BY <1>6, <1>16 DEF RemoveAlias, Detach
  <1>17. CASE Required(p)
    BY <1>5, <1>6, <1>17 DEF Required
  <1>18. CASE RequestFails(p)
    BY <1>5, <1>18 DEF RequestFails
  <1>. QED
    BY <1>7, <1>8, <1>9, <1>10, <1>11, <1>12, <1>13, <1>14, <1>15, <1>16, <1>17, <1>18

\* Whatever the other requests do between its check of the allowance and its
\* flush (MailboxController::addAction), an admin who is held to it does not
\* get past it unless an update of the counter is lost.
THEOREM AllowanceHolds == DirectorySpec => LimitKept
  <1>1. IInv /\ IInv' /\ [DirectoryNext]_directoryVars =>
          [\A q \in Clients :
             /\ req[q].op = "box-add" /\ ~req[q].super /\ MaxMailboxes # 0
             /\ req[q].pc = "ready" /\ mailboxes' # mailboxes /\ req'[q].pc = "flushed"
             => Cardinality(mailboxes') <= MaxMailboxes \/ "mailboxes" \in lost']_directoryVars
    <2>. SUFFICES ASSUME IInv, IInv', DirectoryNext, NEW q \in Clients,
                         req[q].op = "box-add", ~req[q].super, MaxMailboxes # 0,
                         req[q].pc = "ready", req'[q].pc = "flushed",
                         "mailboxes" \notin lost'
                  PROVE  Cardinality(mailboxes') <= MaxMailboxes
      OBVIOUS
    <2>. DEFINE r == req[q]
    <2>1. FlushWork(q)
      BY FlushedByFlush
    <2>2. Sound(r) /\ MaxMailboxes \in Nat
      BY FinitelyMany DEF IInv
    <2>3. r.work.box = "insert" /\ r.m2 = r.m + 1 /\ r.m < MaxMailboxes /\ r.m \in Int
      BY <2>2 DEF Sound, WorkCounts
    <2>4. mcount' = IF r.m2 # r.m THEN r.m2 ELSE mcount
      BY <2>1 DEF FlushWork
    <2>5. mcount' <= MaxMailboxes
      BY <2>2, <2>3, <2>4
    <2>6. mcount' = Cardinality(mailboxes')
      BY DEF IInv, MailboxCountRight
    <2>. QED
      BY <2>5, <2>6
  <1>. QED
    BY <1>1, Inductive, PTL DEF DirectorySpec, LimitKept

-----------------------------------------------------------------------------
(* The aliases, their counter and the guard.                               *)

Lists == (SUBSET Users) \ {None}

\* The ordinary aliases that a unit of work inserts.
Inserted(w) == {x \in DOMAIN w.put : ~SelfAlias(x, w.put[x])}

\* The rows that a unit of work deletes or updates are there, or known to be
\* gone; and unless the request slips none becomes a self-alias, or ceases to be
\* one, and the counter changes as the ordinary aliases do.
WorkFits(w, gone, odd, a, a2) ==
    /\ w.cut \subseteq Addresses /\ DOMAIN w.put \subseteq Addresses
    /\ DOMAIN w.set \subseteq Addresses /\ DOMAIN w.put \cap w.cut = {}
    /\ \A x \in DOMAIN w.put : w.put[x] \in Lists
    /\ \A x \in DOMAIN w.set : w.set[x] \in Lists
    /\ w.flip = TRUE => w.cut = {} /\ DOMAIN w.put = {} /\ DOMAIN w.set = {}
    /\ (w.cut \cup DOMAIN w.set) \ gone \subseteq Rows
    /\ "aliases" \notin lost /\ odd = FALSE /\ gone \cap (w.cut \cup DOMAIN w.set) = {} =>
         /\ \A x \in DOMAIN w.set : SelfAlias(x, w.set[x]) <=> SelfAlias(x, goto[x])
         /\ a2 = a + Cardinality(Inserted(w)) - Cardinality(w.cut \cap Listed)

\* What alias_delete_preRemove and alias_toggleActive_preToggle asked for, and
\* mailbox_purge_preRemove, of the aliases as they are.
GoStands(t) ==
    IF t = Catchall THEN Automatic \subseteq on
    ELSE Catchall \in on \/ (t \notin Automatic /\ \A x \in Automatic : goto[x] # {t})

PurgeStands(t) == Catchall \in on \/ \A x \in Automatic : goto[x] # {t}

Guarded(op, t, active, w) ==
    /\ op = "alias-delete" =>
          w.cut = {t} /\ DOMAIN w.put = {} /\ w.flip = FALSE /\ GoStands(t)
    /\ op = "alias-toggle" =>
          w.cut = {} /\ DOMAIN w.put = {} /\ w.flip = TRUE /\ (active = TRUE => GoStands(t))
    /\ op = "box-purge" =>
          /\ w.cut = {x \in Addresses : goto[x] = {t}} /\ DOMAIN w.put = {} /\ w.flip = FALSE
          /\ PurgeStands(t)

\* The alias a request is about is there and a self-alias or not as it was read,
\* or known to be gone.
RowStands(r) ==
    r.tgt \notin r.gone =>
      /\ r.tgt \in Rows
      /\ "aliases" \notin lost => (SelfAlias(r.tgt, r.was) <=> SelfAlias(r.tgt, goto[r.tgt]))

Fits(r) ==
    /\ r.pc \in {"idle", "begun", "ready", "flushed", "extra"}
    /\ r.pc = "idle" <=> r = Idle
    /\ r.op \in Ops \cup {"none"} /\ (r.pc # "idle" => r.op \in Ops)
    /\ r.a \in Int /\ r.a2 \in Int
    /\ r.pc \in {"begun", "flushed"} => r.work = NoWork /\ r.a2 = r.a
    /\ r.pc = "begun" /\ r.op \in BoxDrops => r.tgt \in Users
    /\ r.pc = "begun" /\ r.op \in AliasAdds \cup {"alias-edit"} => r.dest \in Lists
    /\ r.pc = "begun" /\ r.op = "detach" => r.dest \subseteq r.was /\ r.was \subseteq Users
    /\ r.pc = "begun" /\ r.op \in AliasEdits => RowStands(r)
    /\ r.pc \in {"ready", "extra"} => WorkFits(r.work, r.gone, r.odd, r.a, r.a2)
    /\ r.pc = "ready" /\ r.touched = {} => Guarded(r.op, r.tgt, r.on, r.work)

AliasInv ==
    /\ goto \in [Addresses -> SUBSET Users] /\ on \subseteq Rows /\ acount \in Int
    /\ calls \in 0..MaxCalls /\ lost \subseteq {"mailboxes", "aliases"}
    /\ AliasCountRight
    /\ \A q \in Clients : Fits(req[q])

LEMMA NoWorkFields ==
    /\ NoWork.box = "none" /\ NoWork.cut = {} /\ NoWork.flip = FALSE
    /\ NoWork.put = <<>> /\ NoWork.set = <<>>
    /\ DOMAIN NoWork.put = {} /\ DOMAIN NoWork.set = {}
  BY DEF NoWork

LEMMA RowsAreFinite ==
    ASSUME NEW S \in SUBSET Addresses
    PROVE  IsFiniteSet(S) /\ Cardinality(S) \in Nat
  <1>1. IsFiniteSet(Addresses)
    BY FinitelyMany, FS_AddElement DEF Addresses
  <1>. QED
    BY <1>1, FS_Subset, FS_CardinalityType

LEMMA IdleFits == Fits(Idle)
  BY DEF Fits, Idle, Ops, BoxDrops, AliasAdds, AliasEdits

LEMMA InitAlias == DirectoryInit => AliasInv
  <1>. SUFFICES ASSUME DirectoryInit PROVE AliasInv
    OBVIOUS
  <1>1. goto \in [Addresses -> SUBSET Users] /\ on \subseteq Rows
    BY DEF DirectoryInit, None
  <1>2. acount \in Int /\ AliasCountRight
    <2>1. Cardinality(Listed) \in Nat
      BY RowsAreFinite DEF Listed, Rows
    <2>. QED
      BY <2>1 DEF DirectoryInit, AliasCountRight
  <1>3. calls \in 0..MaxCalls /\ lost \subseteq {"mailboxes", "aliases"}
    BY FinitelyMany DEF DirectoryInit
  <1>4. \A q \in Clients : Fits(req[q])
    BY IdleFits DEF DirectoryInit
  <1>. QED
    BY <1>1, <1>2, <1>3, <1>4 DEF AliasInv

\* Whether a request fits depends on the tables only.
LEMMA FitsStays ==
    ASSUME UNCHANGED <<db, lost>>, NEW p \in Clients, Fits(req'[p])
    PROVE  Fits(req[p])'
  <1>. DEFINE s == req'[p]
  <1>1. goto' = goto /\ on' = on /\ lost' = lost
    BY DEF db
  <1>2. Rows' = Rows /\ Listed' = Listed
    BY <1>1 DEF Rows, Listed
  <1>3. RowStands(s) => RowStands(req[p])'
    BY <1>1, <1>2 DEF RowStands
  <1>4. WorkFits(s.work, s.gone, s.odd, s.a, s.a2)
          => WorkFits(req[p].work, req[p].gone, req[p].odd, req[p].a, req[p].a2)'
    BY <1>1, <1>2 DEF WorkFits, Inserted
  <1>5. Guarded(s.op, s.tgt, s.on, s.work)
          => Guarded(req[p].op, req[p].tgt, req[p].on, req[p].work)'
    BY <1>1 DEF Guarded, GoStands, PurgeStands
  <1>. QED
    BY <1>3, <1>4, <1>5 DEF Fits

\* A step that leaves the tables alone and moves one request.
LEMMA OneFits ==
    ASSUME IInv, AliasInv, UNCHANGED <<db, lost>>, calls' \in 0..MaxCalls,
           NEW q \in Clients, NEW r, req' = [req EXCEPT ![q] = r], Fits(r)
    PROVE  AliasInv'
  <1>1. goto' = goto /\ on' = on /\ acount' = acount /\ lost' = lost
    BY DEF db
  <1>2. \A p \in Clients : req'[p] = IF p = q THEN r ELSE req[p]
    BY DEF IInv
  <1>3. \A p \in Clients : Fits(req'[p])
    BY <1>2 DEF AliasInv
  <1>4. \A p \in Clients : Fits(req[p])'
    BY <1>3, FitsStays
  <1>. QED
    BY <1>1, <1>4 DEF AliasInv, AliasCountRight, Listed, Rows

LEMMA BeginFits ==
    ASSUME IInv, AliasInv, NEW q \in Clients, NEW r, MayBegin(q), Begin(q, r),
           r.pc = "begun", r # Idle,
           r.op \in Ops, r.a \in Int, r.a2 = r.a, r.work = NoWork,
           r.op \in BoxDrops => r.tgt \in Users,
           r.op \in AliasAdds \cup {"alias-edit"} => r.dest \in Lists,
           r.op = "detach" => r.dest \subseteq r.was /\ r.was \subseteq Users,
           r.op \in AliasEdits => RowStands(r)
    PROVE  AliasInv'
  <1>1. Fits(r)
    BY DEF Fits
  <1>2. calls' \in 0..MaxCalls
    BY FinitelyMany DEF MayBegin, Begin, AliasInv
  <1>. QED
    BY <1>1, <1>2, OneFits DEF Begin

LEMMA BeginCreateFits ==
    ASSUME IInv, AliasInv, NEW q \in Clients, NEW op \in BoxAdds \cup AliasAdds,
           NEW t \in Addresses, BeginCreate(q, op, t)
    PROVE  AliasInv'
  <1>1. PICK super \in BOOLEAN, dest \in (SUBSET Users) \ {None}, active \in BOOLEAN :
           Begin(q, Domain([Idle EXCEPT !.pc = "begun", !.op = op, !.tgt = t,
                                        !.super = super, !.dest = dest, !.on = active]))
    BY DEF BeginCreate
  <1>. DEFINE r == Domain([Idle EXCEPT !.pc = "begun", !.op = op, !.tgt = t,
                                       !.super = super, !.dest = dest, !.on = active])
  <1>2. /\ r.pc = "begun" /\ r.op = op /\ r.tgt = t /\ r.dest = dest /\ r.work = NoWork
        /\ r.a = acount /\ r.a2 = acount
    BY DEF Domain, Idle
  <1>3. r # Idle
    BY <1>2 DEF Idle
  <1>4. MayBegin(q) /\ Begin(q, r)
    BY <1>1 DEF BeginCreate
  <1>. HIDE DEF r
  <1>5. op \in Ops /\ op \notin BoxDrops /\ op \notin AliasEdits /\ acount \in Int
    BY DEF Ops, BoxAdds, AliasAdds, BoxDrops, AliasEdits, AliasInv
  <1>. QED
    BY <1>2, <1>3, <1>4, <1>5, BeginFits DEF Lists, AliasEdits

LEMMA BeginBoxFits ==
    ASSUME IInv, AliasInv, NEW q \in Clients, NEW op \in BoxDrops \cup BoxEdits, NEW t \in Users,
           BeginBox(q, op, t)
    PROVE  AliasInv'
  <1>. DEFINE r == [Idle EXCEPT !.pc = "begun", !.op = op, !.tgt = t]
  <1>1. r.pc = "begun" /\ r.op = op /\ r.tgt = t /\ r.work = NoWork /\ r.a = 0 /\ r.a2 = 0
    BY DEF Idle
  <1>2. r # Idle
    BY <1>1 DEF Idle
  <1>3. MayBegin(q) /\ Begin(q, r)
    BY DEF BeginBox
  <1>. HIDE DEF r
  <1>4. op \in Ops /\ op \notin AliasAdds \cup {"alias-edit", "detach"} /\ op \notin AliasEdits
    BY DEF Ops, BoxDrops, BoxEdits, AliasAdds, AliasEdits
  <1>. QED
    BY <1>1, <1>2, <1>3, <1>4, BeginFits

LEMMA BeginEditFits ==
    ASSUME IInv, AliasInv, NEW q \in Clients, NEW op \in AliasEdits, NEW t \in Addresses,
           BeginEdit(q, op, t)
    PROVE  AliasInv'
  <1>1. PICK dest \in Edited(op, t) :
           Begin(q, [Idle EXCEPT !.pc = "begun", !.op = op, !.tgt = t, !.dest = dest,
                                 !.was = goto[t], !.on = t \in on])
    BY DEF BeginEdit
  <1>. DEFINE r == [Idle EXCEPT !.pc = "begun", !.op = op, !.tgt = t, !.dest = dest,
                                !.was = goto[t], !.on = t \in on]
  <1>2. /\ r.pc = "begun" /\ r.op = op /\ r.tgt = t /\ r.dest = dest /\ r.was = goto[t]
        /\ r.work = NoWork /\ r.a = 0 /\ r.a2 = 0
    BY DEF Idle
  <1>3. r # Idle
    BY <1>2 DEF Idle
  <1>4. MayBegin(q) /\ Begin(q, r)
    BY <1>1 DEF BeginEdit
  <1>. HIDE DEF r
  <1>5. op \in Ops /\ op \notin BoxDrops /\ op \notin AliasAdds
    BY DEF Ops, BoxDrops, AliasAdds, AliasEdits
  <1>6. op = "alias-edit" => dest \in Lists
    BY DEF Edited, Lists
  <1>7. op = "detach" => dest \subseteq goto[t] /\ goto[t] \subseteq Users
    BY DEF Edited, AliasInv
  <1>8. RowStands(r)
    BY <1>2 DEF RowStands, BeginEdit
  <1>. QED
    BY <1>2, <1>3, <1>4, <1>5, <1>6, <1>7, <1>8, BeginFits

LEMMA EndFits ==
    ASSUME IInv, AliasInv, NEW q \in Clients, EndRequest(q)
    PROVE  AliasInv'
  BY IdleFits, OneFits DEF EndRequest, AliasInv

-----------------------------------------------------------------------------
(* Units of work.                                                          *)

Kept(s) == s.gone \cap (IF s.op \in AliasEdits THEN {s.tgt} ELSE {})

\* A request decides on a unit of work; s is the request with its new counters.
LEMMA ReadyFits ==
    ASSUME IInv, AliasInv, NEW q \in Clients, NEW s, NEW work, Ready(q, s, work),
           DOMAIN s = Fields, s.pc \in {"begun", "flushed"}, s.op \in Ops,
           s.a \in Int, s.a2 \in Int,
           WorkFits(work, Kept(s), s.odd, s.a, s.a2),
           s.pc = "begun" => Guarded(s.op, s.tgt, s.on, work)
    PROVE  AliasInv'
  <1>. DEFINE touched == s.touched \cap (IF s.op \in AliasEdits THEN {s.tgt} ELSE {})
              gone == Kept(s)
              l == IF s.pc = "flushed" THEN "extra" ELSE "ready"
              r == [s EXCEPT !.pc = l, !.work = work, !.gone = gone, !.touched = touched]
  <1>1. UNCHANGED <<db, lost, calls>> /\ req' = [req EXCEPT ![q] = r]
    BY DEF Ready, Kept
  <1>. HIDE DEF gone, touched, l
  <1>2. /\ r.pc = l /\ r.work = work /\ r.gone = gone /\ r.op = s.op /\ r.tgt = s.tgt
        /\ r.on = s.on /\ r.odd = s.odd /\ r.a = s.a /\ r.a2 = s.a2
    BY DEF Fields
  <1>3. r # Idle /\ l \in {"ready", "extra"} /\ (l = "ready" => s.pc = "begun")
    BY <1>2 DEF Idle, l
  <1>. HIDE DEF r
  <1>4. Fits(r)
    BY <1>2, <1>3 DEF Fits, gone
  <1>. QED
    BY <1>1, <1>4, OneFits DEF AliasInv

\* Rows are inserted.
LEMMA PutFits ==
    ASSUME NEW w, NEW gone, NEW odd, NEW a \in Int, NEW a2 \in Int,
           w.cut = {}, DOMAIN w.set = {}, w.flip = FALSE,
           DOMAIN w.put \subseteq Addresses, \A x \in DOMAIN w.put : w.put[x] \in Lists,
           odd = FALSE => a2 = a + Cardinality(Inserted(w))
    PROVE  WorkFits(w, gone, odd, a, a2)
  <1>1. Cardinality(w.cut \cap Listed) = 0
    BY FS_EmptySet
  <1>2. Cardinality(Inserted(w)) \in Nat
    BY RowsAreFinite DEF Inserted
  <1>. QED
    BY <1>1, <1>2 DEF WorkFits

\* The row that was read is deleted.
LEMMA CutFits ==
    ASSUME IInv, AliasInv, NEW r, RowStands(r), r.tgt \in Addresses,
           NEW w, NEW gone, NEW odd, NEW a \in Int, NEW a2 \in Int,
           w.cut = {r.tgt}, DOMAIN w.put = {}, DOMAIN w.set = {}, w.flip = FALSE,
           r.tgt \in r.gone => r.tgt \in gone,
           "aliases" \notin lost /\ odd = FALSE /\ r.tgt \notin gone
             => a2 = a - (IF SelfAlias(r.tgt, r.was) THEN 0 ELSE 1)
    PROVE  WorkFits(w, gone, odd, a, a2)
  <1>1. Cardinality(Inserted(w)) = 0
    BY FS_EmptySet DEF Inserted
  <1>2. (w.cut \cup DOMAIN w.set) \ gone \subseteq Rows
    BY DEF RowStands
  <1>3. ASSUME "aliases" \notin lost, odd = FALSE, gone \cap (w.cut \cup DOMAIN w.set) = {}
        PROVE  a2 = a + Cardinality(Inserted(w)) - Cardinality(w.cut \cap Listed)
    <2>1. r.tgt \notin gone
      BY <1>3
    <2>2. r.tgt \in Listed <=> ~SelfAlias(r.tgt, r.was)
      BY <1>3, <2>1 DEF RowStands, Listed
    <2>3. CASE SelfAlias(r.tgt, r.was)
      <3>1. w.cut \cap Listed = {}
        BY <2>2, <2>3
      <3>2. Cardinality(w.cut \cap Listed) = 0
        BY <3>1, FS_EmptySet
      <3>3. a2 = a
        BY <1>3, <2>1, <2>3
      <3>. QED
        BY <1>1, <3>2, <3>3
    <2>4. CASE ~SelfAlias(r.tgt, r.was)
      <3>1. w.cut \cap Listed = {r.tgt}
        BY <2>2, <2>4
      <3>. QED
        BY <1>1, <1>3, <2>1, <2>4, <3>1, FS_Singleton
    <2>. QED
      BY <2>3, <2>4
  <1>. QED
    BY <1>2, <1>3 DEF WorkFits

\* The row that was read is updated, or only toggled, or not at all.
LEMMA SetFits ==
    ASSUME IInv, AliasInv, NEW r, RowStands(r), r.tgt \in Addresses,
           NEW w, NEW gone, NEW odd, NEW a \in Int,
           w.cut = {}, DOMAIN w.put = {}, DOMAIN w.set \subseteq {r.tgt},
           w.flip = TRUE => DOMAIN w.set = {},
           r.tgt \in r.gone => r.tgt \in gone,
           r.tgt \in DOMAIN w.set => w.set[r.tgt] \in Lists,
           r.tgt \in DOMAIN w.set /\ odd = FALSE =>
              (SelfAlias(r.tgt, w.set[r.tgt]) <=> SelfAlias(r.tgt, r.was))
    PROVE  WorkFits(w, gone, odd, a, a)
  <1>1. Cardinality(Inserted(w)) = 0
    BY FS_EmptySet DEF Inserted
  <1>2. Cardinality(w.cut \cap Listed) = 0
    BY FS_EmptySet
  <1>3. (w.cut \cup DOMAIN w.set) \ gone \subseteq Rows
    BY DEF RowStands
  <1>. QED
    BY <1>1, <1>2, <1>3 DEF WorkFits, RowStands

LEMMA AddMailboxFits ==
    ASSUME IInv, AliasInv, NEW q \in Clients, AddMailbox(q)
    PROVE  AliasInv'
  <1>. DEFINE r    == req[q]
              self == IF r.op # "restore" /\ MailboxAliases /\ r.tgt \notin Rows
                      THEN Only(r.tgt, {r.tgt}) ELSE <<>>
              mcp  == r.op = "box-create" /\ self # <<>>
              m2   == r.m + 1
              a2   == IF mcp THEN r.a + 1 ELSE r.a
              s    == [r EXCEPT !.m2 = m2, !.a2 = a2, !.odd = mcp]
              work == [NoWork EXCEPT !.box = "insert", !.put = self]
  <1>1. r.pc = "begun" /\ r.op \in BoxAdds /\ Ready(q, s, work)
    BY DEF AddMailbox
  <1>2. Sound(r) /\ Fits(r)
    BY DEF IInv, AliasInv
  <1>3. r.tgt \in Users /\ r.a \in Int
    BY <1>1, <1>2 DEF Sound, Fits
  <1>4. a2 \in Int /\ (mcp = FALSE => a2 = r.a)
    BY <1>3
  <1>5. /\ DOMAIN self \subseteq {r.tgt}
        /\ \A x \in DOMAIN self : self[x] = {r.tgt} /\ SelfAlias(x, self[x])
    BY DEF Only, SelfAlias
  <1>. HIDE DEF self, mcp, m2, a2
  <1>6. /\ DOMAIN s = Fields /\ s.pc = r.pc /\ s.op = r.op /\ s.tgt = r.tgt /\ s.gone = r.gone
        /\ s.odd = mcp /\ s.a = r.a /\ s.a2 = a2
    BY <1>2 DEF Sound, Fields
  <1>7. work.put = self /\ work.cut = {} /\ DOMAIN work.set = {} /\ work.flip = FALSE
    BY NoWorkFields DEF NoWork
  <1>. HIDE DEF s, work
  <1>8. Inserted(work) = {}
    BY <1>5, <1>7 DEF Inserted
  <1>9. Cardinality(Inserted(work)) = 0
    BY <1>8, FS_EmptySet
  <1>10. WorkFits(work, Kept(s), mcp, r.a, a2)
    <2>1. DOMAIN work.put \subseteq Addresses /\ \A x \in DOMAIN work.put : work.put[x] \in Lists
      BY <1>3, <1>5, <1>7 DEF Addresses, Lists, None
    <2>2. mcp = FALSE => a2 = r.a + Cardinality(Inserted(work))
      BY <1>3, <1>4, <1>9
    <2>. QED
      BY <1>3, <1>4, <1>7, <2>1, <2>2, PutFits
  <1>11. Guarded(s.op, s.tgt, s.on, work) /\ s.op \in Ops
    BY <1>1, <1>6 DEF Guarded, BoxAdds, Ops
  <1>. QED
    BY <1>1, <1>3, <1>4, <1>6, <1>10, <1>11, ReadyFits

LEMMA EditMailboxFits ==
    ASSUME IInv, AliasInv, NEW q \in Clients, EditMailbox(q)
    PROVE  AliasInv'
  <1>. DEFINE r == req[q]
              s == Domain(r)
  <1>1. r.pc = "begun" /\ r.op = "box-edit" /\ Ready(q, s, NoWork)
    BY DEF EditMailbox, BoxEdits
  <1>2. DOMAIN r = Fields /\ acount \in Int
    BY DEF IInv, AliasInv, Sound
  <1>3. /\ DOMAIN s = Fields /\ s.pc = r.pc /\ s.op = r.op /\ s.a = acount /\ s.a2 = acount
    <2>. HIDE DEF r
    <2>. QED
      BY <1>2 DEF Domain, Fields
  <1>. HIDE DEF s
  <1>4. Guarded(s.op, s.tgt, s.on, NoWork)
    BY <1>1, <1>3 DEF Guarded
  <1>5. WorkFits(NoWork, Kept(s), s.odd, acount, acount)
    <2>1. Cardinality(Inserted(NoWork)) = 0
      BY NoWorkFields, FS_EmptySet DEF Inserted
    <2>2. acount = acount + Cardinality(Inserted(NoWork))
      BY <1>2, <2>1
    <2>3. \A x \in DOMAIN NoWork.put : NoWork.put[x] \in Lists
      BY NoWorkFields
    <2>. QED
      BY <1>2, <2>2, <2>3, NoWorkFields, PutFits
  <1>6. s.op \in Ops
    BY <1>1, <1>3 DEF Ops, BoxEdits
  <1>. HIDE DEF r
  <1>. QED
    BY <1>1, <1>2, <1>3, <1>4, <1>5, <1>6, ReadyFits

LEMMA RemoveMailboxFits ==
    ASSUME IInv, AliasInv, NEW q \in Clients, RemoveMailbox(q)
    PROVE  AliasInv'
  <1>. DEFINE r    == req[q]
              cut  == {x \in Addresses : goto[x] = {r.tgt}}
              trim == Trim(r.tgt)
              n    == Cardinality({x \in cut : ~SelfAlias(x, goto[x])})
              a2   == Less(acount, n)
              odd  == \E x \in DOMAIN trim : SelfAlias(x, trim[x])
              m2   == Less(mcount, 1)
              s    == [Domain(r) EXCEPT !.m2 = m2, !.a2 = a2, !.odd = odd]
              work == [NoWork EXCEPT !.box = "delete", !.cut = cut, !.set = trim]
  <1>1. r.pc = "begun" /\ r.op \in BoxDrops /\ Ready(q, s, work) /\ (r.op = "box-purge" => MayPurge(r))
    BY DEF RemoveMailbox
  <1>2. Sound(r) /\ Fits(r) /\ DOMAIN r = Fields
    BY DEF IInv, AliasInv, Sound
  <1>3. r.tgt \in Users /\ acount \in Int /\ goto \in [Addresses -> SUBSET Users]
    BY <1>1, <1>2 DEF Fits, AliasInv
  <1>4. cut \subseteq Rows /\ cut \subseteq Addresses
    BY DEF Rows, None
  <1>5. /\ DOMAIN trim \subseteq Rows
        /\ \A x \in DOMAIN trim : trim[x] \in Lists /\ ~SelfAlias(x, goto[x])
    BY <1>3 DEF Trim, Rows, Lists, None, SelfAlias
  <1>6. {x \in cut : ~SelfAlias(x, goto[x])} = cut \cap Listed
    BY <1>4 DEF Listed
  <1>7. n = Cardinality(cut \cap Listed) /\ n \in Nat
    <2>1. cut \cap Listed \in SUBSET Addresses
      BY <1>4
    <2>. QED
      BY <1>6, <2>1, RowsAreFinite
  <1>8. a2 \in Int
    BY <1>3, <1>7 DEF Less
  <1>9. "aliases" \notin lost => a2 = acount - n
    <2>. SUFFICES ASSUME "aliases" \notin lost PROVE a2 = acount - n
      OBVIOUS
    <2>1. acount = Cardinality(Listed)
      BY DEF AliasInv, AliasCountRight
    <2>2. IsFiniteSet(Listed)
      BY RowsAreFinite DEF Listed, Rows
    <2>3. cut \cap Listed \subseteq Listed
      OBVIOUS
    <2>4. n <= acount
      BY <1>7, <2>1, <2>2, <2>3, FS_Subset
    <2>. HIDE DEF n
    <2>. QED
      BY <1>3, <1>7, <2>4 DEF Less
  <1>10. odd = FALSE => \A x \in DOMAIN trim : ~SelfAlias(x, trim[x])
    OBVIOUS
  <1>11. r.op = "box-purge" => PurgeStands(r.tgt)
    <2>1. r.tgt # Catchall
      BY <1>3, AutomaticAreUsers
    <2>. QED
      BY <1>1, <2>1 DEF MayPurge, DomainAlias, PurgeStands
  <1>12. r.op # "alias-delete" /\ r.op # "alias-toggle" /\ r.op \in Ops /\ r.op \notin AliasEdits
    BY <1>1 DEF BoxDrops, Ops, AliasEdits
  <1>. HIDE DEF trim, n, a2, odd, m2
  <1>13. /\ DOMAIN s = Fields /\ s.pc = r.pc /\ s.op = r.op /\ s.tgt = r.tgt
         /\ s.odd = odd /\ s.a = acount /\ s.a2 = a2
    <2>. HIDE DEF r
    <2>. QED
      BY <1>2 DEF Domain, Fields
  <1>14. /\ work.cut = cut /\ work.put = <<>> /\ work.set = trim /\ work.flip = FALSE
         /\ DOMAIN work.put = {}
    BY NoWorkFields DEF NoWork
  <1>. HIDE DEF s, work
  <1>15. Guarded(s.op, s.tgt, s.on, work)
    BY <1>11, <1>12, <1>13, <1>14 DEF Guarded
  <1>16. WorkFits(work, Kept(s), odd, acount, a2)
    <2>1. Cardinality(Inserted(work)) = 0
      BY <1>14, FS_EmptySet DEF Inserted
    <2>. HIDE DEF cut
    <2>2. "aliases" \notin lost => a2 = acount + Cardinality(Inserted(work)) - Cardinality(work.cut \cap Listed)
      BY <1>3, <1>7, <1>9, <1>14, <2>1
    <2>3. DOMAIN work.set \subseteq Addresses
      BY <1>5, <1>14 DEF Rows
    <2>. QED
      BY <1>4, <1>5, <1>10, <1>14, <2>2, <2>3 DEF WorkFits
  <1>. QED
    BY <1>1, <1>3, <1>8, <1>12, <1>13, <1>15, <1>16, ReadyFits

LEMMA AddAliasFits ==
    ASSUME IInv, AliasInv, NEW q \in Clients, AddAlias(q)
    PROVE  AliasInv'
  <1>. DEFINE r    == req[q]
              self == SelfAlias(r.tgt, r.dest)
              mcp  == r.op = "alias-create"
              a2   == IF self /\ ~mcp THEN r.a ELSE r.a + 1
              odd  == self /\ mcp
              put  == Only(r.tgt, r.dest)
              s    == [r EXCEPT !.a2 = a2, !.odd = odd]
              work == [NoWork EXCEPT !.put = put]
  <1>1. r.pc = "begun" /\ r.op \in AliasAdds /\ Ready(q, s, work)
    BY DEF AddAlias
  <1>2. Sound(r) /\ Fits(r)
    BY DEF IInv, AliasInv
  <1>3. r.tgt \in Addresses /\ r.a \in Int /\ r.dest \in Lists
    BY <1>1, <1>2 DEF Sound, Fits
  <1>4. a2 \in Int /\ (odd = FALSE => a2 = r.a + (IF self THEN 0 ELSE 1))
    BY <1>3
  <1>5. DOMAIN put = {r.tgt} /\ put[r.tgt] = r.dest
    BY DEF Only
  <1>. HIDE DEF self, mcp, a2, odd, put
  <1>6. /\ DOMAIN s = Fields /\ s.pc = r.pc /\ s.op = r.op /\ s.odd = odd /\ s.a = r.a /\ s.a2 = a2
    BY <1>2 DEF Sound, Fields
  <1>7. work.put = put /\ work.cut = {} /\ DOMAIN work.set = {} /\ work.flip = FALSE
    BY NoWorkFields DEF NoWork
  <1>. HIDE DEF s, work
  <1>8. Cardinality(Inserted(work)) = IF self THEN 0 ELSE 1
    <2>1. CASE self
      <3>1. Inserted(work) = {}
        BY <1>5, <1>7, <2>1 DEF Inserted, self
      <3>. QED
        BY <2>1, <3>1, FS_EmptySet
    <2>2. CASE ~self
      <3>1. Inserted(work) = {r.tgt}
        BY <1>5, <1>7, <2>2 DEF Inserted, self
      <3>. QED
        BY <2>2, <3>1, FS_Singleton
    <2>. QED
      BY <2>1, <2>2
  <1>9. WorkFits(work, Kept(s), odd, r.a, a2)
    <2>1. DOMAIN work.put \subseteq Addresses /\ \A x \in DOMAIN work.put : work.put[x] \in Lists
      BY <1>3, <1>5, <1>7
    <2>2. odd = FALSE => a2 = r.a + Cardinality(Inserted(work))
      BY <1>4, <1>8
    <2>. QED
      BY <1>3, <1>4, <1>7, <2>1, <2>2, PutFits
  <1>10. Guarded(s.op, s.tgt, s.on, work) /\ s.op \in Ops
    BY <1>1, <1>6 DEF Guarded, AliasAdds, Ops
  <1>. QED
    BY <1>1, <1>3, <1>4, <1>6, <1>9, <1>10, ReadyFits

\* The counters are read anew; what was read of the alias is kept.
LEMMA DomainKeeps ==
    ASSUME NEW r, DOMAIN r = Fields
    PROVE  /\ DOMAIN Domain(r) = Fields /\ Domain(r).pc = r.pc /\ Domain(r).op = r.op
           /\ Domain(r).tgt = r.tgt /\ Domain(r).gone = r.gone /\ Domain(r).on = r.on
           /\ Domain(r).a = acount /\ Domain(r).a2 = acount
  BY DEF Domain, Fields

\* The requests about one alias delete it, update it or toggle it.
LEMMA EditFits ==
    ASSUME IInv, AliasInv, NEW q \in Clients, req[q].pc = "begun", req[q].op \in AliasEdits,
           NEW s, NEW work, Ready(q, s, work),
           DOMAIN s = Fields, s.pc = "begun", s.op = req[q].op, s.tgt = req[q].tgt,
           s.gone = req[q].gone, s.on = req[q].on, s.a = acount, s.a2 \in Int,
           DOMAIN work.put = {}, Guarded(s.op, s.tgt, s.on, work),
           \/ /\ work.cut = {s.tgt} /\ DOMAIN work.set = {} /\ work.flip = FALSE
              /\ "aliases" \notin lost /\ s.odd = FALSE /\ s.tgt \notin s.gone
                   => s.a2 = acount - (IF SelfAlias(s.tgt, req[q].was) THEN 0 ELSE 1)
           \/ /\ work.cut = {} /\ DOMAIN work.set \subseteq {s.tgt} /\ s.a2 = acount
              /\ work.flip = TRUE => DOMAIN work.set = {}
              /\ s.tgt \in DOMAIN work.set => work.set[s.tgt] \in Lists
              /\ s.tgt \in DOMAIN work.set /\ s.odd = FALSE =>
                   (SelfAlias(s.tgt, work.set[s.tgt]) <=> SelfAlias(s.tgt, req[q].was))
    PROVE  AliasInv'
  <1>. DEFINE r == req[q]
  <1>1. Sound(r) /\ Fits(r) /\ acount \in Int
    BY DEF IInv, AliasInv
  <1>2. RowStands(r) /\ r.tgt \in Addresses /\ r.op \in Ops
    BY <1>1 DEF Fits, Sound
  <1>3. r.tgt \in r.gone => r.tgt \in Kept(s)
    BY DEF Kept
  <1>4. r.tgt \in Kept(s) => r.tgt \in r.gone
    BY DEF Kept
  <1>5. WorkFits(work, Kept(s), s.odd, acount, s.a2)
    <2>1. CASE work.cut = {s.tgt} /\ DOMAIN work.set = {} /\ work.flip = FALSE
               /\ ("aliases" \notin lost /\ s.odd = FALSE /\ s.tgt \notin s.gone
                   => s.a2 = acount - (IF SelfAlias(s.tgt, req[q].was) THEN 0 ELSE 1))
      BY <1>1, <1>2, <1>3, <1>4, <2>1, CutFits
    <2>2. CASE /\ work.cut = {} /\ DOMAIN work.set \subseteq {s.tgt} /\ s.a2 = acount
               /\ work.flip = TRUE => DOMAIN work.set = {}
               /\ s.tgt \in DOMAIN work.set => work.set[s.tgt] \in Lists
               /\ s.tgt \in DOMAIN work.set /\ s.odd = FALSE =>
                    (SelfAlias(s.tgt, work.set[s.tgt]) <=> SelfAlias(s.tgt, req[q].was))
      <3>1. /\ work.cut = {} /\ DOMAIN work.put = {} /\ DOMAIN work.set \subseteq {r.tgt}
            /\ work.flip = TRUE => DOMAIN work.set = {}
        BY <2>2
      <3>2. r.tgt \in DOMAIN work.set => work.set[r.tgt] \in Lists
        BY <2>2
      <3>3. r.tgt \in DOMAIN work.set /\ s.odd = FALSE =>
              (SelfAlias(r.tgt, work.set[r.tgt]) <=> SelfAlias(r.tgt, r.was))
        BY <2>2
      <3>4. WorkFits(work, Kept(s), s.odd, acount, acount)
        BY <1>1, <1>2, <1>3, <3>1, <3>2, <3>3, SetFits
      <3>. QED
        BY <2>2, <3>4
    <2>. QED
      BY <2>1, <2>2
  <1>. QED
    BY <1>1, <1>2, <1>5, ReadyFits

LEMMA MayGoStands == ASSUME NEW r, MayGo(r) PROVE GoStands(r.tgt)
  BY DEF MayGo, DomainAlias, GoStands

LEMMA AliasEditsFit ==
    ASSUME IInv, AliasInv, NEW q \in Clients,
           EditAlias(q) \/ ToggleAlias(q) \/ RemoveAlias(q) \/ Detach(q)
    PROVE  AliasInv'
  <1>. DEFINE r == req[q]
              d == Domain(r)
  <1>1. Sound(r) /\ Fits(r) /\ acount \in Int /\ DOMAIN r = Fields
    BY DEF IInv, AliasInv, Sound
  <1>2. /\ DOMAIN d = Fields /\ d.pc = r.pc /\ d.op = r.op /\ d.tgt = r.tgt
        /\ d.gone = r.gone /\ d.on = r.on /\ d.a = acount /\ d.a2 = acount
    BY <1>1, DomainKeeps
  <1>3. \A a2, odd : LET s == [d EXCEPT !.a2 = a2, !.odd = odd]
                     IN  /\ DOMAIN s = Fields /\ s.pc = d.pc /\ s.op = d.op /\ s.tgt = d.tgt
                         /\ s.gone = d.gone /\ s.on = d.on /\ s.a = d.a /\ s.a2 = a2 /\ s.odd = odd
    BY <1>2 DEF Fields
  <1>4. \A a2 : LET s == [d EXCEPT !.a2 = a2]
                IN  /\ DOMAIN s = Fields /\ s.pc = d.pc /\ s.op = d.op /\ s.tgt = d.tgt
                    /\ s.gone = d.gone /\ s.on = d.on /\ s.a = d.a /\ s.a2 = a2
    BY <1>2 DEF Fields
  <1>5. \A odd : LET s == [d EXCEPT !.odd = odd]
                 IN  /\ DOMAIN s = Fields /\ s.pc = d.pc /\ s.op = d.op /\ s.tgt = d.tgt
                     /\ s.gone = d.gone /\ s.on = d.on /\ s.a = d.a /\ s.a2 = d.a2 /\ s.odd = odd
    BY <1>2 DEF Fields
  <1>. HIDE DEF d
  <1>6. \A c : LET w == [NoWork EXCEPT !.cut = c]
               IN  w.cut = c /\ DOMAIN w.put = {} /\ DOMAIN w.set = {} /\ w.flip = FALSE
    BY NoWorkFields DEF NoWork
  <1>7. \A e : LET w == [NoWork EXCEPT !.set = e]
               IN  w.cut = {} /\ DOMAIN w.put = {} /\ w.set = e /\ w.flip = FALSE
    BY NoWorkFields DEF NoWork
  <1>8. DOMAIN <<>> = {} /\ DOMAIN Only(r.tgt, r.dest) = {r.tgt} /\ Only(r.tgt, r.dest)[r.tgt] = r.dest
    BY DEF Only
  <1>9. CASE EditAlias(q)
    <2>. DEFINE odd == SelfAlias(r.tgt, r.was) # SelfAlias(r.tgt, r.dest)
                e   == IF r.dest = r.was THEN <<>> ELSE Only(r.tgt, r.dest)
                s   == [d EXCEPT !.odd = odd]
                w   == [NoWork EXCEPT !.set = e]
    <2>1. r.pc = "begun" /\ r.op = "alias-edit" /\ Ready(q, s, w)
      BY <1>9 DEF EditAlias, d
    <2>2. r.dest \in Lists /\ r.op \in AliasEdits
      BY <1>1, <2>1 DEF Fits, AliasEdits
    <2>3. DOMAIN e \subseteq {r.tgt} /\ (r.tgt \in DOMAIN e => e[r.tgt] = r.dest)
      BY <1>8
    <2>4. odd = FALSE => (SelfAlias(r.tgt, r.dest) <=> SelfAlias(r.tgt, r.was))
      OBVIOUS
    <2>. HIDE DEF odd, e
    <2>5. w.cut = {} /\ DOMAIN w.put = {} /\ w.set = e /\ w.flip = FALSE
      BY <1>7
    <2>6. /\ DOMAIN s = Fields /\ s.pc = "begun" /\ s.op = r.op /\ s.tgt = r.tgt
          /\ s.gone = r.gone /\ s.on = r.on /\ s.a = acount /\ s.a2 = acount /\ s.odd = odd
      BY <1>2, <1>5, <2>1
    <2>. HIDE DEF s, w
    <2>7. Guarded(s.op, s.tgt, s.on, w)
      BY <2>1, <2>6 DEF Guarded
    <2>. QED
      BY <1>1, <2>1, <2>2, <2>3, <2>4, <2>5, <2>6, <2>7, EditFits
  <1>10. CASE ToggleAlias(q)
    <2>. DEFINE w == [NoWork EXCEPT !.flip = TRUE]
    <2>1. r.pc = "begun" /\ r.op = "alias-toggle" /\ Ready(q, d, w) /\ (r.on => MayGo(r))
      BY <1>10 DEF ToggleAlias, d
    <2>2. w.cut = {} /\ DOMAIN w.put = {} /\ DOMAIN w.set = {} /\ w.flip = TRUE
      BY NoWorkFields DEF NoWork
    <2>. HIDE DEF w
    <2>3. Guarded(d.op, d.tgt, d.on, w)
      BY <1>2, <2>1, <2>2, MayGoStands DEF Guarded
    <2>4. r.op \in AliasEdits
      BY <2>1 DEF AliasEdits
    <2>. QED
      BY <1>1, <1>2, <2>1, <2>2, <2>3, <2>4, EditFits
  <1>11. CASE RemoveAlias(q)
    <2>. DEFINE self == SelfAlias(r.tgt, r.was)
                web  == IF self THEN acount ELSE acount - 1
                mcp  == IF acount > 0 THEN acount - 1 ELSE 0
                w    == [NoWork EXCEPT !.cut = {r.tgt}]
                sweb == [d EXCEPT !.a2 = web]
                smcp == [d EXCEPT !.a2 = mcp, !.odd = self]
    <2>1. /\ r.pc = "begun"
          /\ \/ r.op = "alias-delete" /\ MayGo(r) /\ Ready(q, sweb, w)
             \/ r.op = "alias-drop" /\ Ready(q, smcp, w)
      BY <1>11 DEF RemoveAlias, d
    <2>2. w.cut = {r.tgt} /\ DOMAIN w.put = {} /\ DOMAIN w.set = {} /\ w.flip = FALSE
      BY <1>6
    <2>3. web \in Int /\ mcp \in Int /\ web = acount - (IF self THEN 0 ELSE 1)
      BY <1>1
    <2>4. r.op \in AliasEdits /\ RowStands(r)
      BY <1>1, <2>1 DEF AliasEdits, Fits
    <2>5. "aliases" \notin lost /\ self = FALSE /\ r.tgt \notin r.gone => mcp = acount - 1
      <3>. SUFFICES ASSUME "aliases" \notin lost, ~self, r.tgt \notin r.gone PROVE mcp = acount - 1
        OBVIOUS
      <3>1. r.tgt \in Listed
        BY <2>4 DEF RowStands, Listed
      <3>2. IsFiniteSet(Listed) /\ Cardinality(Listed) \in Nat /\ acount = Cardinality(Listed)
        BY RowsAreFinite DEF Listed, Rows, AliasInv, AliasCountRight
      <3>3. acount > 0
        BY <3>1, <3>2, FS_EmptySet
      <3>. QED
        BY <3>3
    <2>. HIDE DEF web, mcp, w
    <2>6. CASE r.op = "alias-delete" /\ MayGo(r) /\ Ready(q, sweb, w)
      <3>1. /\ DOMAIN sweb = Fields /\ sweb.pc = "begun" /\ sweb.op = r.op /\ sweb.tgt = r.tgt
            /\ sweb.gone = r.gone /\ sweb.on = r.on /\ sweb.a = acount /\ sweb.a2 = web
        BY <1>2, <1>4, <2>1
      <3>. HIDE DEF sweb
      <3>2. Guarded(sweb.op, sweb.tgt, sweb.on, w)
        BY <2>2, <2>6, <3>1, MayGoStands DEF Guarded
      <3>. QED
        BY <1>1, <2>1, <2>2, <2>3, <2>4, <2>6, <3>1, <3>2, EditFits
    <2>7. CASE r.op = "alias-drop" /\ Ready(q, smcp, w)
      <3>. HIDE DEF self
      <3>1. /\ DOMAIN smcp = Fields /\ smcp.pc = "begun" /\ smcp.op = r.op /\ smcp.tgt = r.tgt
            /\ smcp.gone = r.gone /\ smcp.on = r.on /\ smcp.a = acount /\ smcp.a2 = mcp
            /\ smcp.odd = self
        BY <1>2, <1>3, <2>1
      <3>. HIDE DEF smcp
      <3>2. Guarded(smcp.op, smcp.tgt, smcp.on, w)
        BY <2>7, <3>1 DEF Guarded
      <3>3. "aliases" \notin lost /\ smcp.odd = FALSE /\ smcp.tgt \notin smcp.gone
               => smcp.a2 = acount - (IF SelfAlias(smcp.tgt, r.was) THEN 0 ELSE 1)
        BY <2>5, <3>1 DEF self
      <3>. QED
        BY <1>1, <2>1, <2>2, <2>3, <2>4, <2>7, <3>1, <3>2, <3>3, EditFits
    <2>. QED
      BY <2>1, <2>6, <2>7
  <1>12. CASE Detach(q)
    <2>. DEFINE odd1 == SelfAlias(r.tgt, r.was)
                odd2 == r.dest # r.was /\ SelfAlias(r.tgt, r.dest)
                a2   == acount - 1
                e    == IF r.dest = r.was THEN <<>> ELSE Only(r.tgt, r.dest)
                s1   == [d EXCEPT !.a2 = a2, !.odd = odd1]
                s2   == [d EXCEPT !.odd = odd2]
                w1   == [NoWork EXCEPT !.cut = {r.tgt}]
                w2   == [NoWork EXCEPT !.set = e]
    <2>1. /\ r.pc = "begun" /\ r.op = "detach"
          /\ IF r.dest = None THEN Ready(q, s1, w1) ELSE Ready(q, s2, w2)
      BY <1>12 DEF Detach, d
    <2>2. r.op \in AliasEdits /\ r.dest \subseteq r.was /\ r.was \subseteq Users
      BY <1>1, <2>1 DEF Fits, AliasEdits
    <2>3. CASE r.dest = None
      <3>1. w1.cut = {r.tgt} /\ DOMAIN w1.put = {} /\ DOMAIN w1.set = {} /\ w1.flip = FALSE
        BY <1>6
      <3>. HIDE DEF odd1, a2
      <3>2. /\ DOMAIN s1 = Fields /\ s1.pc = "begun" /\ s1.op = r.op /\ s1.tgt = r.tgt
            /\ s1.gone = r.gone /\ s1.on = r.on /\ s1.a = acount /\ s1.a2 = a2 /\ s1.odd = odd1
        BY <1>2, <1>3, <2>1
      <3>3. Ready(q, s1, w1)
        BY <2>1, <2>3
      <3>. HIDE DEF s1, w1
      <3>4. Guarded(s1.op, s1.tgt, s1.on, w1)
        BY <2>1, <3>2 DEF Guarded
      <3>5. s1.odd = FALSE => s1.a2 = acount - (IF SelfAlias(s1.tgt, r.was) THEN 0 ELSE 1)
        BY <3>2 DEF odd1, a2
      <3>6. s1.a2 \in Int
        BY <1>1, <3>2 DEF a2
      <3>. QED
        BY <1>1, <2>1, <2>2, <3>1, <3>2, <3>3, <3>4, <3>5, <3>6, EditFits
    <2>4. CASE r.dest # None
      <3>1. DOMAIN e \subseteq {r.tgt} /\ (r.tgt \in DOMAIN e => e[r.tgt] = r.dest)
        BY <1>8
      <3>2. r.tgt \in DOMAIN e /\ odd2 = FALSE => ~SelfAlias(r.tgt, r.dest) /\ ~SelfAlias(r.tgt, r.was)
        <4>1. r.tgt \in DOMAIN e => r.dest # r.was
          BY <1>8
        <4>2. r.dest # r.was => ~SelfAlias(r.tgt, r.was)
          BY <2>2, <2>4 DEF SelfAlias, None
        <4>. QED
          BY <4>1, <4>2
      <3>3. w2.cut = {} /\ DOMAIN w2.put = {} /\ w2.set = e /\ w2.flip = FALSE
        BY <1>7
      <3>. HIDE DEF odd2, e
      <3>4. /\ DOMAIN s2 = Fields /\ s2.pc = "begun" /\ s2.op = r.op /\ s2.tgt = r.tgt
            /\ s2.gone = r.gone /\ s2.on = r.on /\ s2.a = acount /\ s2.a2 = acount /\ s2.odd = odd2
        BY <1>2, <1>5, <2>1
      <3>5. Ready(q, s2, w2)
        BY <2>1, <2>4
      <3>. HIDE DEF s2, w2
      <3>6. Guarded(s2.op, s2.tgt, s2.on, w2)
        BY <2>1, <3>4 DEF Guarded
      <3>7. r.dest \in Lists
        BY <2>2, <2>4 DEF Lists
      <3>. QED
        BY <1>1, <2>1, <2>2, <3>1, <3>2, <3>3, <3>4, <3>5, <3>6, <3>7, EditFits
    <2>. QED
      BY <2>3, <2>4
  <1>. QED
    BY <1>9, <1>10, <1>11, <1>12

LEMMA RequiredFits ==
    ASSUME IInv, AliasInv, NEW q \in Clients, Required(q)
    PROVE  AliasInv'
  <1>. DEFINE r       == req[q]
              missing == IF DomainAlias(r) THEN {} ELSE Automatic \ Rows
              put     == [x \in missing |-> AutomaticGoto(r, x)]
              a2      == r.a + Cardinality(missing)
              odd     == \E x \in missing : SelfAlias(x, put[x])
              s       == [r EXCEPT !.a2 = a2, !.odd = odd]
              work    == [NoWork EXCEPT !.put = put]
  <1>1. r.pc = "flushed" /\ (EndRequest(q) \/ Ready(q, s, work))
    BY DEF Required
  <1>2. Sound(r) /\ Fits(r) /\ DOMAIN r = Fields
    BY DEF IInv, AliasInv, Sound
  <1>3. r.tgt \in Addresses /\ r.a \in Int /\ r.op \in Ops
    BY <1>1, <1>2 DEF Sound, Fits
  <1>4. missing \subseteq Users /\ missing \subseteq Addresses
    BY AutomaticAreUsers DEF Addresses
  <1>5. Cardinality(missing) \in Nat
    BY <1>4, RowsAreFinite
  <1>6. DOMAIN put = missing /\ \A x \in missing : put[x] \in Lists
    BY <1>3, <1>4 DEF AutomaticGoto, Lists, None, Addresses
  <1>7. odd = FALSE => {x \in missing : ~SelfAlias(x, put[x])} = missing
    OBVIOUS
  <1>8. a2 \in Int
    BY <1>3, <1>5
  <1>9. a2 = r.a + Cardinality(missing)
    OBVIOUS
  <1>. HIDE DEF missing, put, a2, odd
  <1>10. /\ DOMAIN s = Fields /\ s.pc = "flushed" /\ s.op = r.op /\ s.odd = odd
         /\ s.a = r.a /\ s.a2 = a2
    BY <1>1, <1>2 DEF Fields
  <1>11. work.put = put /\ work.cut = {} /\ DOMAIN work.set = {} /\ work.flip = FALSE
    BY NoWorkFields DEF NoWork
  <1>. HIDE DEF s, work
  <1>12. odd = FALSE => Inserted(work) = missing
    BY <1>6, <1>7, <1>11 DEF Inserted
  <1>13. WorkFits(work, Kept(s), odd, r.a, a2)
    BY <1>3, <1>4, <1>6, <1>8, <1>9, <1>11, <1>12, PutFits
  <1>. QED
    BY <1>1, <1>3, <1>8, <1>10, <1>13, EndFits, ReadyFits

-----------------------------------------------------------------------------
(* The flush.                                                              *)

\* The rows that are not deleted stay, and stay self-aliases or not.
LEMMA FlushRows ==
    ASSUME IInv, AliasInv, NEW q \in Clients, FlushWork(q)
    PROVE  /\ goto' \in [Addresses -> SUBSET Users]
           /\ Rows' = (Rows \ Cut(req[q])) \cup DOMAIN req[q].work.put
           /\ \A x \in Rows \ Cut(req[q]) :
                "aliases" \notin lost' => (SelfAlias(x, goto'[x]) <=> SelfAlias(x, goto[x]))
  <1>. DEFINE r == req[q]
              w == r.work
  <1>1. /\ r.pc \in {"ready", "extra"} /\ DOMAIN w.put \cap Rows = {}
        /\ goto' = NewGoto(r) /\ lost' = lost \cup Slips(r)
    BY DEF FlushWork, Accepted
  <1>2. WorkFits(w, r.gone, r.odd, r.a, r.a2) /\ goto \in [Addresses -> SUBSET Users]
    BY <1>1 DEF AliasInv, Fits
  <1>3. \A x \in Addresses : goto'[x] =
          IF x \in Cut(r) THEN None
          ELSE IF x \in DOMAIN w.put THEN w.put[x]
          ELSE IF x \in DOMAIN w.set \ r.gone THEN w.set[x]
          ELSE goto[x]
    BY <1>1 DEF NewGoto
  <1>4. /\ DOMAIN w.put \subseteq Addresses /\ DOMAIN w.put \cap w.cut = {}
        /\ \A x \in DOMAIN w.put : w.put[x] \in Lists
        /\ \A x \in DOMAIN w.set : w.set[x] \in Lists
        /\ DOMAIN w.set \ r.gone \subseteq Rows
    BY <1>2 DEF WorkFits
  <1>5. goto' \in [Addresses -> SUBSET Users]
    <2>1. \A x \in Addresses : goto'[x] \in SUBSET Users
      BY <1>2, <1>3, <1>4 DEF Lists, None
    <2>2. goto' = [x \in Addresses |-> goto'[x]]
      BY <1>1 DEF NewGoto
    <2>. QED
      BY <2>1, <2>2
  <1>6. ASSUME NEW x \in Addresses
        PROVE  goto'[x] # None <=> x \in (Rows \ Cut(r)) \cup DOMAIN w.put
    <2>1. CASE x \in Cut(r)
      BY <1>3, <1>4, <2>1 DEF Cut
    <2>2. CASE x \notin Cut(r) /\ x \in DOMAIN w.put
      BY <1>3, <1>4, <2>2 DEF Lists
    <2>3. CASE x \notin Cut(r) /\ x \notin DOMAIN w.put /\ x \in DOMAIN w.set \ r.gone
      BY <1>3, <1>4, <2>3 DEF Lists
    <2>4. CASE x \notin Cut(r) /\ x \notin DOMAIN w.put /\ x \notin DOMAIN w.set \ r.gone
      BY <1>3, <2>4 DEF Rows
    <2>. QED
      BY <2>1, <2>2, <2>3, <2>4
  <1>7. Rows' = (Rows \ Cut(r)) \cup DOMAIN w.put
    <2>1. Rows' = {x \in Addresses : goto'[x] # None}
      BY DEF Rows
    <2>. QED
      BY <1>4, <1>6, <2>1 DEF Rows
  <1>8. ASSUME NEW x \in Rows \ Cut(r), "aliases" \notin lost'
        PROVE  SelfAlias(x, goto'[x]) <=> SelfAlias(x, goto[x])
    <2>1. x \in Addresses /\ x \notin DOMAIN w.put
      BY <1>1 DEF Rows
    <2>2. CASE x \in DOMAIN w.set \ r.gone
      <3>1. "aliases" \notin lost /\ r.odd = FALSE /\ r.gone \cap (w.cut \cup DOMAIN w.set) = {}
        BY <1>1, <1>8 DEF Slips
      <3>2. SelfAlias(x, w.set[x]) <=> SelfAlias(x, goto[x])
        BY <1>2, <2>2, <3>1 DEF WorkFits
      <3>. QED
        BY <1>3, <2>1, <2>2, <3>2
    <2>3. CASE x \notin DOMAIN w.set \ r.gone
      BY <1>3, <2>1, <2>3
    <2>. QED
      BY <2>2, <2>3
  <1>. QED
    BY <1>5, <1>7, <1>8

\* alias_count follows the ordinary aliases, unless it slips.
LEMMA FlushCountsAliases ==
    ASSUME IInv, AliasInv, NEW q \in Clients, FlushWork(q)
    PROVE  acount' \in Int /\ AliasCountRight'
  <1>. DEFINE r == req[q]
              w == r.work
              P == Inserted(w)
              C == w.cut \cap Listed
  <1>1. /\ r.pc \in {"ready", "extra"} /\ DOMAIN w.put \cap Rows = {}
        /\ goto' = NewGoto(r) /\ lost' = lost \cup Slips(r)
        /\ acount' = IF r.a2 # r.a THEN r.a2 ELSE acount
    BY DEF FlushWork, Accepted
  <1>2. /\ WorkFits(w, r.gone, r.odd, r.a, r.a2) /\ r.a \in Int /\ r.a2 \in Int /\ acount \in Int
        /\ AliasCountRight
    BY <1>1 DEF AliasInv, Fits
  <1>3. acount' \in Int
    BY <1>1, <1>2
  <1>4. ASSUME "aliases" \notin lost' PROVE acount' = Cardinality(Listed')
    <2>1. /\ "aliases" \notin lost /\ r.odd = FALSE /\ r.gone \cap (w.cut \cup DOMAIN w.set) = {}
          /\ r.a2 = r.a \/ r.a = acount
      BY <1>1, <1>4 DEF Slips
    <2>2. r.a2 = r.a + Cardinality(P) - Cardinality(C)
      BY <1>2, <2>1 DEF WorkFits
    <2>3. Cut(r) = w.cut /\ DOMAIN w.put \subseteq Addresses /\ DOMAIN w.put \cap w.cut = {}
      BY <1>2, <2>1 DEF Cut, WorkFits
    <2>4. \A x \in DOMAIN w.put : goto'[x] = w.put[x]
      BY <1>1, <2>3 DEF NewGoto
    <2>5. Rows' = (Rows \ w.cut) \cup DOMAIN w.put
      BY <2>3, FlushRows
    <2>6. \A x \in Rows \ w.cut : SelfAlias(x, goto'[x]) <=> SelfAlias(x, goto[x])
      BY <1>4, <2>3, FlushRows
    <2>7. Listed' = {x \in Rows' : ~SelfAlias(x, goto'[x])}
      BY DEF Listed
    <2>8. Listed' = (Listed \ C) \cup P
      BY <2>4, <2>5, <2>6, <2>7 DEF Listed, Inserted
    <2>9. (Listed \ C) \cap P = {}
      BY <1>1 DEF Listed, Inserted
    <2>10. IsFiniteSet(Listed) /\ IsFiniteSet(Listed \ C) /\ IsFiniteSet(P) /\ IsFiniteSet(C)
      BY <2>3, RowsAreFinite DEF Listed, Rows, Inserted
    <2>11. Cardinality(Listed') = Cardinality(Listed \ C) + Cardinality(P)
      <3>1. Cardinality((Listed \ C) \cap P) = 0
        BY <2>9, FS_EmptySet
      <3>2. Cardinality((Listed \ C) \cup P) =
              Cardinality(Listed \ C) + Cardinality(P) - Cardinality((Listed \ C) \cap P)
        BY <2>10, FS_Union
      <3>3. Cardinality(Listed \ C) \in Nat /\ Cardinality(P) \in Nat
        BY <2>10, FS_CardinalityType
      <3>. QED
        BY <2>8, <3>1, <3>2, <3>3
    <2>12. Cardinality(Listed \ C) = Cardinality(Listed) - Cardinality(C)
      <3>1. Listed \cap C = C
        OBVIOUS
      <3>. QED
        BY <2>10, <3>1, FS_Difference
    <2>13. Cardinality(Listed) \in Nat /\ Cardinality(P) \in Nat /\ Cardinality(C) \in Nat
      BY <2>10, FS_CardinalityType
    <2>14. acount = Cardinality(Listed)
      BY <1>2, <2>1 DEF AliasCountRight
    <2>. QED
      BY <1>1, <1>2, <2>1, <2>2, <2>11, <2>12, <2>13, <2>14
  <1>. QED
    BY <1>3, <1>4 DEF AliasCountRight

\* The active aliases are aliases.
LEMMA FlushTyped ==
    ASSUME IInv, AliasInv, NEW q \in Clients, FlushWork(q)
    PROVE  /\ on' \subseteq Rows'
           /\ calls' \in 0..MaxCalls /\ lost' \subseteq {"mailboxes", "aliases"}
  <1>. DEFINE r == req[q]
              w == r.work
  <1>1. /\ r.pc \in {"ready", "extra"} /\ on' = NewOn(r) /\ lost' = lost \cup Slips(r)
        /\ UNCHANGED calls
    BY DEF FlushWork
  <1>2. WorkFits(w, r.gone, r.odd, r.a, r.a2) /\ on \subseteq Rows
    BY <1>1 DEF AliasInv, Fits
  <1>3. Rows' = (Rows \ Cut(r)) \cup DOMAIN w.put
    BY FlushRows
  <1>4. on' \subseteq Rows'
    <2>1. CASE w.flip /\ r.tgt \notin r.gone
      <3>1. w.cut = {} /\ DOMAIN w.put = {}
        BY <1>2, <2>1 DEF WorkFits
      <3>2. Rows' = Rows
        BY <1>3, <3>1 DEF Cut
      <3>. QED
        BY <1>1, <1>2, <2>1, <3>2 DEF NewOn
    <2>2. CASE ~(w.flip /\ r.tgt \notin r.gone)
      BY <1>1, <1>2, <1>3, <2>2 DEF NewOn
    <2>. QED
      BY <2>1, <2>2
  <1>5. lost' \subseteq {"mailboxes", "aliases"}
    BY <1>1 DEF Slips, AliasInv
  <1>. QED
    BY <1>1, <1>4, <1>5 DEF AliasInv

\* The other requests' units of work still fit, and what is untouched stands.
LEMMA FlushFits ==
    ASSUME IInv, AliasInv, NEW q \in Clients, FlushWork(q), NEW p \in Clients
    PROVE  Fits(req[p])'
  <1>. DEFINE r   == req[q]
              g   == NewGoto(r)
              o   == NewOn(r)
              e   == Overtaken(q, r, g, o)
              nxt == IF r.op \in Hooked /\ r.pc = "ready"
                     THEN [r EXCEPT !.pc = "flushed", !.work = NoWork, !.m = r.m2, !.a = r.a2,
                                    !.odd = FALSE, !.gone = r.gone \cap {r.tgt}]
                     ELSE Idle
  <1>1. /\ req' = [e EXCEPT ![q] = nxt] /\ goto' = g /\ on' = o /\ lost \subseteq lost'
        /\ r.pc \in {"ready", "extra"}
    BY DEF FlushWork
  <1>2. DOMAIN e = Clients
    BY DEF Overtaken
  <1>3. req'[p] = IF p = q THEN nxt ELSE e[p]
    <2>. HIDE DEF e, nxt
    <2>. QED
      BY <1>1, <1>2
  <1>4. CASE p = q
    <2>1. Sound(r) /\ Fits(r)
      BY DEF IInv, AliasInv
    <2>2. CASE r.op \in Hooked /\ r.pc = "ready"
      <3>1. DOMAIN r = Fields
        BY <2>1 DEF Sound
      <3>2. nxt.pc = "flushed" /\ nxt.op = r.op
        BY <2>2, <3>1 DEF Fields
      <3>4. nxt.a = r.a2 /\ nxt.a2 = r.a2
        BY <2>2, <3>1 DEF Fields
      <3>5. nxt.work = NoWork
        BY <2>2, <3>1 DEF Fields
      <3>3. r.op \in Ops /\ r.a2 \in Int
        BY <2>1, <2>2 DEF Fits
      <3>. HIDE DEF nxt
      <3>6. nxt # Idle
        BY <3>2 DEF Idle
      <3>. QED
        BY <1>3, <1>4, <3>2, <3>3, <3>4, <3>5, <3>6 DEF Fits
    <2>3. CASE ~(r.op \in Hooked /\ r.pc = "ready")
      <3>1. req'[p] = Idle
        BY <1>3, <1>4, <2>3
      <3>. QED
        BY <3>1 DEF Fits, Idle, Ops, BoxDrops, AliasAdds, AliasEdits
    <2>. QED
      BY <2>2, <2>3
  <1>5. CASE p # q
    <2>. DEFINE s       == req[p]
                gone    == s.gone \cup Cut(r)
                boxGone == s.boxGone \/ (s.tgt \in mailboxes /\ s.tgt \notin NewMailboxes(r))
                changed == {x \in Addresses : g[x] # goto[x] \/ (x \in on) # (x \in o)}
                touched == s.touched \cup changed
                n == [s EXCEPT !.gone = gone, !.boxGone = boxGone, !.touched = touched]
    <2>1. Sound(s) /\ Fits(s)
      BY DEF IInv, AliasInv
    <2>2. CASE s = Idle
      <3>1. req'[p] = Idle
        BY <1>3, <1>5, <2>2 DEF Overtaken
      <3>. QED
        BY <3>1 DEF Fits, Idle, Ops, BoxDrops, AliasAdds, AliasEdits
    <2>3. CASE s # Idle
      <3>1. req'[p] = n
        BY <1>3, <1>5, <2>3 DEF Overtaken
      <3>2. touched = {} => goto' = goto /\ on' = on
        <4>. SUFFICES ASSUME touched = {} PROVE goto' = goto /\ on' = on
          OBVIOUS
        <4>1. \A x \in Addresses : g[x] = goto[x] /\ (x \in on <=> x \in o)
          OBVIOUS
        <4>2. goto' \in [Addresses -> SUBSET Users] /\ goto \in [Addresses -> SUBSET Users]
          BY FlushRows DEF AliasInv
        <4>3. goto' = goto
          BY <1>1, <4>1, <4>2
        <4>4. on \subseteq Addresses /\ on' \subseteq Addresses
          <5>1. Rows' \subseteq Addresses /\ Rows \subseteq Addresses
            BY DEF Rows
          <5>. QED
            BY <5>1, FlushTyped DEF AliasInv
        <4>. QED
          BY <1>1, <4>1, <4>3, <4>4
      <3>. HIDE DEF gone, boxGone, touched, g, o
      <3>3. /\ n.pc = s.pc /\ n.op = s.op /\ n.tgt = s.tgt /\ n.dest = s.dest /\ n.was = s.was
            /\ n.on = s.on /\ n.work = s.work /\ n.a = s.a /\ n.a2 = s.a2 /\ n.odd = s.odd
            /\ n.gone = gone /\ n.touched = touched
        BY <2>1 DEF Sound, Fields
      <3>4. n # Idle /\ s.pc # "idle"
        BY <2>1, <2>3, <3>3 DEF Fits, Idle
      <3>. HIDE DEF n
      <3>5. \A x \in Rows : x \notin gone =>
              /\ x \in Rows'
              /\ "aliases" \notin lost' => (SelfAlias(x, goto'[x]) <=> SelfAlias(x, goto[x]))
        BY FlushRows DEF gone
      <3>6. s.gone \subseteq gone
        BY DEF gone
      <3>7. RowStands(s) => RowStands(req[p])'
        BY <1>1, <3>1, <3>3, <3>5, <3>6 DEF RowStands
      <3>8. WorkFits(s.work, s.gone, s.odd, s.a, s.a2) =>
              WorkFits(req[p].work, req[p].gone, req[p].odd, req[p].a, req[p].a2)'
        <4>. DEFINE w == s.work
        <4>. SUFFICES ASSUME WorkFits(w, s.gone, s.odd, s.a, s.a2)
                      PROVE  WorkFits(req[p].work, req[p].gone, req[p].odd, req[p].a, req[p].a2)'
          OBVIOUS
        <4>1. (w.cut \cup DOMAIN w.set) \ gone \subseteq Rows'
          BY <3>5, <3>6 DEF WorkFits
        <4>2. ASSUME "aliases" \notin lost', s.odd = FALSE, gone \cap (w.cut \cup DOMAIN w.set) = {}
              PROVE  /\ \A x \in DOMAIN w.set : SelfAlias(x, w.set[x]) <=> SelfAlias(x, goto'[x])
                     /\ s.a2 = s.a + Cardinality(Inserted(w)) - Cardinality(w.cut \cap Listed')
          <5>1. /\ \A x \in DOMAIN w.set : SelfAlias(x, w.set[x]) <=> SelfAlias(x, goto[x])
                /\ s.a2 = s.a + Cardinality(Inserted(w)) - Cardinality(w.cut \cap Listed)
            BY <1>1, <3>6, <4>2 DEF WorkFits
          <5>2. \A x \in w.cut \cup DOMAIN w.set : x \in Rows /\ x \notin gone
            BY <3>6, <4>2 DEF WorkFits
          <5>3. \A x \in w.cut \cup DOMAIN w.set :
                  x \in Rows' /\ (SelfAlias(x, goto'[x]) <=> SelfAlias(x, goto[x]))
            BY <3>5, <4>2, <5>2
          <5>4. w.cut \cap Listed' = w.cut \cap Listed
            <6>1. Listed' = {x \in Rows' : ~SelfAlias(x, goto'[x])}
              BY DEF Listed
            <6>. QED
              BY <5>2, <5>3, <6>1 DEF Listed
          <5>. QED
            BY <5>1, <5>3, <5>4
        <4>3. /\ req'[p].work = w /\ req'[p].gone = gone /\ req'[p].odd = s.odd
              /\ req'[p].a = s.a /\ req'[p].a2 = s.a2
          BY <3>1, <3>3
        <4>. HIDE DEF w, s
        <4>. QED
          BY <4>1, <4>2, <4>3 DEF WorkFits, Inserted
      <3>9. touched = {} /\ Guarded(s.op, s.tgt, s.on, s.work) =>
              Guarded(req[p].op, req[p].tgt, req[p].on, req[p].work)'
        BY <3>1, <3>2, <3>3 DEF Guarded, GoStands, PurgeStands
      <3>10. touched = {} => s.touched = {}
        BY DEF touched
      <3>. QED
        BY <2>1, <3>1, <3>3, <3>4, <3>7, <3>8, <3>9, <3>10 DEF Fits
    <2>. QED
      BY <2>2, <2>3
  <1>. QED
    BY <1>4, <1>5

LEMMA FlushAlias ==
    ASSUME IInv, AliasInv, NEW q \in Clients, FlushWork(q)
    PROVE  AliasInv'
  BY FlushRows, FlushCountsAliases, FlushTyped, FlushFits DEF AliasInv

LEMMA StepAlias == IInv /\ AliasInv /\ [DirectoryNext]_directoryVars => AliasInv'
  <1>. SUFFICES ASSUME IInv, AliasInv, [DirectoryNext]_directoryVars PROVE AliasInv'
    OBVIOUS
  <1>1. CASE UNCHANGED directoryVars
    <2>1. UNCHANGED <<db, lost, calls, req>>
      BY <1>1 DEF directoryVars
    <2>2. \A p \in Clients : Fits(req'[p])
      BY <2>1 DEF AliasInv
    <2>3. \A p \in Clients : Fits(req[p])'
      BY <2>1, <2>2, FitsStays
    <2>. QED
      BY <2>1, <2>3 DEF AliasInv, AliasCountRight, Listed, Rows, db
  <1>2. ASSUME NEW q \in Clients, RequestFails(q) PROVE AliasInv'
    BY <1>2, EndFits DEF RequestFails
  <1>. QED
    BY <1>1, <1>2, BeginCreateFits, BeginBoxFits, BeginEditFits, AddMailboxFits,
       EditMailboxFits, RemoveMailboxFits, AddAliasFits, AliasEditsFit, FlushAlias,
       RequiredFits DEF DirectoryNext

\* Of every request in flight: the aliases it has read are there, or known to be
\* gone, its unit of work does to the counter what it does to the ordinary
\* aliases unless it slips, and what the plugin asked for stands until another
\* request changes an alias.
THEOREM AliasInductive == DirectorySpec => []AliasInv
  <1>. QED
    BY InitAlias, StepAlias, Inductive, PTL DEF DirectorySpec

\* For every set of addresses, requests and limits: alias_count is the number of
\* the ordinary aliases until an update of it is lost or a self-alias is counted
\* (AliasController, MailboxController, the MCP tools and the plugin).
THEOREM AliasesCounted == DirectorySpec => []AliasCountRight
  <1>1. AliasInv => AliasCountRight
    BY DEF AliasInv
  <1>. QED
    BY <1>1, AliasInductive, PTL

\* The tables, the counters and the units of work keep their types; every active
\* alias is a row, and no unit of work inserts what it deletes.
THEOREM DirectoryTyped == DirectorySpec => []DirectoryTypeOK
  <1>1. IInv /\ AliasInv => DirectoryTypeOK
    <2>. SUFFICES ASSUME IInv, AliasInv, NEW q \in Clients
                  PROVE  /\ req[q].pc \in {"idle", "begun", "ready", "flushed", "extra"}
                         /\ req[q].pc = "idle" <=> req[q] = Idle
                         /\ req[q].op \in Ops \cup {"none"}
                         /\ req[q].pc \in {"begun", "flushed"} => req[q].work = NoWork
                         /\ DOMAIN req[q].work.put \cap req[q].work.cut = {}
      BY DEF DirectoryTypeOK, IInv, AliasInv
    <2>1. Fits(req[q])
      BY DEF AliasInv
    <2>2. CASE req[q].pc = "idle"
      BY <2>1, <2>2, NoWorkFields DEF Fits, Idle
    <2>3. CASE req[q].pc \in {"begun", "flushed"}
      BY <2>1, <2>3, NoWorkFields DEF Fits
    <2>4. CASE req[q].pc \in {"ready", "extra"}
      BY <2>1, <2>4 DEF Fits, WorkFits
    <2>. QED
      BY <2>1, <2>2, <2>3, <2>4 DEF Fits
  <1>. QED
    BY <1>1, Inductive, AliasInductive, PTL

-----------------------------------------------------------------------------
(* The plugin's guard.                                                     *)

\* Only its end or its own flush makes a request that is ready idle.
LEMMA IdleByFlush ==
    ASSUME IInv, DirectoryNext, NEW q \in Clients, req[q].pc = "ready", req'[q] = Idle
    PROVE  FlushWork(q) \/ UNCHANGED db
  <1>1. ASSUME NEW p \in Clients, NEW r, Begin(p, r) PROVE UNCHANGED db
    BY <1>1 DEF Begin
  <1>2. ASSUME NEW p \in Clients, EndRequest(p) PROVE UNCHANGED db
    BY <1>2 DEF EndRequest
  <1>3. ASSUME NEW p \in Clients, NEW s, NEW work, Ready(p, s, work) PROVE UNCHANGED db
    BY <1>3 DEF Ready
  <1>4. ASSUME NEW p \in Clients, FlushWork(p), p # q PROVE FALSE
    <2>. DEFINE e == Overtaken(p, req[p], NewGoto(req[p]), NewOn(req[p]))
    <2>1. PICK nxt : req' = [e EXCEPT ![p] = nxt]
      BY <1>4 DEF FlushWork
    <2>2. DOMAIN e = Clients
      BY DEF Overtaken
    <2>3. req'[q] = e[q]
      <3>. HIDE DEF e
      <3>. QED
        BY <1>4, <2>1, <2>2
    <2>4. e[q].pc = "ready"
      <3>. DEFINE r == req[p]
                  g == NewGoto(r)
                  o == NewOn(r)
                  s == req[q]
                  gone == s.gone \cup Cut(r)
                  boxGone == s.boxGone \/ (s.tgt \in mailboxes /\ s.tgt \notin NewMailboxes(r))
                  touched == s.touched \cup {x \in Addresses :
                                g[x] # goto[x] \/ (x \in on) # (x \in o)}
                  n == [s EXCEPT !.gone = gone, !.boxGone = boxGone, !.touched = touched]
      <3>1. e[q] = s \/ e[q] = n
        BY <1>4 DEF Overtaken
      <3>. HIDE DEF gone, boxGone, touched, e
      <3>2. n.pc = s.pc
        BY DEF Fields, IInv, Sound
      <3>. QED
        BY <3>1, <3>2
    <2>. QED
      BY <2>3, <2>4 DEF Idle
  <1>5. PICK p \in Clients :
          \/ \E op \in BoxAdds \cup AliasAdds, t \in Addresses : BeginCreate(p, op, t)
          \/ \E op \in BoxDrops \cup BoxEdits, t \in Users : BeginBox(p, op, t)
          \/ \E op \in AliasEdits, t \in Addresses : BeginEdit(p, op, t)
          \/ AddMailbox(p) \/ EditMailbox(p) \/ RemoveMailbox(p)
          \/ AddAlias(p) \/ EditAlias(p) \/ ToggleAlias(p) \/ RemoveAlias(p) \/ Detach(p)
          \/ FlushWork(p) \/ Required(p) \/ RequestFails(p)
    BY DEF DirectoryNext
  <1>6. CASE \E op \in BoxAdds \cup AliasAdds, t \in Addresses : BeginCreate(p, op, t)
    BY <1>1, <1>6 DEF BeginCreate
  <1>7. CASE \E op \in BoxDrops \cup BoxEdits, t \in Users : BeginBox(p, op, t)
    BY <1>1, <1>7 DEF BeginBox
  <1>8. CASE \E op \in AliasEdits, t \in Addresses : BeginEdit(p, op, t)
    BY <1>1, <1>8 DEF BeginEdit
  <1>9. CASE AddMailbox(p) \/ EditMailbox(p) \/ RemoveMailbox(p)
    BY <1>3, <1>9 DEF AddMailbox, EditMailbox, RemoveMailbox
  <1>10. CASE AddAlias(p) \/ EditAlias(p) \/ ToggleAlias(p)
    BY <1>3, <1>10 DEF AddAlias, EditAlias, ToggleAlias
  <1>11. CASE RemoveAlias(p) \/ Detach(p)
    BY <1>3, <1>11 DEF RemoveAlias, Detach
  <1>12. CASE Required(p) \/ RequestFails(p)
    BY <1>2, <1>3, <1>12 DEF Required, RequestFails
  <1>. QED
    BY <1>4, <1>5, <1>6, <1>7, <1>8, <1>9, <1>10, <1>11, <1>12

\* What a request that may delete, disable or purge leaves answered.
LEMMA GuardedFlush ==
    ASSUME IInv, AliasInv, NEW q \in Clients, FlushWork(q),
           req[q].op \in {"alias-delete", "alias-toggle", "box-purge"}, Uncovers(q)
    PROVE  req[q].op = "box-purge" /\ goto[Catchall] = {req[q].tgt}
  <1>. DEFINE r == req[q]
              w == r.work
  <1>1. /\ r.pc = "ready" /\ r.touched = {}
        /\ on' = NewOn(r) /\ Guarded(r.op, r.tgt, r.on, w)
    BY DEF Uncovers, FlushWork, AliasInv, Fits
  <1>2. PICK x \in Automatic : Answered(x) /\ x \notin on' /\ Catchall \notin on'
    BY DEF Uncovers, Answered
  <1>3. x # Catchall /\ x \in Addresses /\ Catchall \in Addresses
    BY AutomaticAreUsers DEF Addresses
  <1>4. DOMAIN w.put = {}
    BY <1>1 DEF Guarded
  <1>5. CASE r.op = "alias-delete"
    <2>1. w.cut = {r.tgt} /\ w.flip = FALSE /\ GoStands(r.tgt)
      BY <1>1, <1>5 DEF Guarded
    <2>2. on \ {r.tgt} \subseteq on'
      BY <1>1, <2>1 DEF NewOn, Cut
    <2>. QED
      BY <1>2, <1>3, <2>1, <2>2 DEF GoStands, Answered
  <1>6. CASE r.op = "alias-toggle"
    <2>1. w.cut = {} /\ w.flip = TRUE /\ (r.on = TRUE => GoStands(r.tgt))
      BY <1>1, <1>6 DEF Guarded
    <2>2. on \ {r.tgt} \subseteq on' /\ (~r.on \/ r.tgt \in r.gone => on \subseteq on')
      BY <1>1, <2>1 DEF NewOn, Cut
    <2>. QED
      BY <1>2, <1>3, <2>1, <2>2 DEF GoStands, Answered
  <1>7. CASE r.op = "box-purge"
    <2>1. w.cut = {y \in Addresses : goto[y] = {r.tgt}} /\ w.flip = FALSE /\ PurgeStands(r.tgt)
      BY <1>1, <1>7 DEF Guarded
    <2>2. on \ w.cut \subseteq on'
      BY <1>1, <2>1 DEF NewOn, Cut
    <2>. QED
      BY <1>2, <1>3, <1>7, <2>1, <2>2 DEF PurgeStands, Answered
  <1>. QED
    BY <1>5, <1>6, <1>7

\* Whatever the other requests do to the mailboxes, and however late the flush
\* comes: a deletion, a disabling or a purge that MailboxAutomaticAliases let
\* pass leaves every automatic alias answered, unless an alias was changed in
\* between or the domain alias itself led to the mailbox that is purged.
THEOREM AutomaticStayAnswered == DirectorySpec => GuardStands
  <1>1. IInv /\ AliasInv /\ [DirectoryNext]_directoryVars =>
          [\A q \in Clients :
             req[q].op \in {"alias-delete", "alias-toggle", "box-purge"} /\ Uncovers(q) =>
                req[q].op = "box-purge" /\ goto[Catchall] = {req[q].tgt}]_directoryVars
    <2>. SUFFICES ASSUME IInv, AliasInv, DirectoryNext, NEW q \in Clients,
                         req[q].op \in {"alias-delete", "alias-toggle", "box-purge"}, Uncovers(q)
                  PROVE  req[q].op = "box-purge" /\ goto[Catchall] = {req[q].tgt}
      OBVIOUS
    <2>1. CASE FlushWork(q)
      BY <2>1, GuardedFlush
    <2>2. CASE UNCHANGED db
      BY <2>2 DEF db, Uncovers, Answered
    <2>. QED
      BY <2>1, <2>2, IdleByFlush DEF Uncovers
  <1>. QED
    BY <1>1, Inductive, AliasInductive, PTL DEF DirectorySpec, GuardStands
=============================================================================
