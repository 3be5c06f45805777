--------------------------- MODULE AccountsProofs ---------------------------
(* Proofs about Accounts: its type and all its safety properties.          *)
EXTENDS Accounts, TLAPS

PCs    == {"idle", "rehash", "begun", "read", "checked", "passed"}
Slots  == {0} \X (1..MaxSlice)
CodesTo(n) == (1..n) \X (1..BatchSize)
Codes  == CodesTo(minted)
Values == {Null, TRUE} \cup Nat \cup SUBSET CodesTo(MaxMinted)

Records == [pc : PCs, op : Ops \cup {"none"}, who : Admins \cup {NoAdmin},
            tgt : Admins \cup {NoAdmin}, hash : Nat, flags : SUBSET {"active", "super"},
            seen : [Attributes -> Values], gone : SUBSET Attributes,
            stale : SUBSET Attributes, factor : Nat \X Nat]

\* The preferences of an admin, as rows or as read, when n sets were minted.
PrefIn(p, n) ==
    /\ p \in [Attributes -> Values]
    /\ p["secret"] \in {Null} \cup (1..n)
    /\ p["backup"] \in {Null} \cup SUBSET CodesTo(n)
    /\ p["last"] \in {Null} \cup (1..MaxSlice)
    /\ p["secret"] = Null <=> p["backup"] = Null

StateOK ==
    /\ born \subseteq Admins /\ rows \subseteq born /\ active \subseteq rows /\ super \subseteq rows
    /\ pw \in [Admins -> [gen : 0..MaxPasswords, fresh : BOOLEAN]]
    /\ pref \in [Admins -> [Attributes -> Values]]
    /\ identity \in [Browsers -> born \cup {NoAdmin}]
    /\ pending \in [Browsers -> born \cup {NoAdmin}]
    /\ verified \in [Browsers -> BOOLEAN]
    /\ req \in [Browsers -> Records]
    /\ slice \in 1..MaxSlice /\ minted \in 1..MaxMinted /\ calls \in Nat
    /\ used \in [Admins -> SUBSET (Codes \cup Slots)]
    /\ shown \in [Admins -> SUBSET Codes]
    /\ adrift \in [Admins -> BOOLEAN]

\* The slices among S are none above the last one accepted.
Below(S, last) == \A f \in S : f[1] = 0 => last # Null /\ f[2] <= last

\* An admin whose records nobody wrote over: its codes are those shown less the
\* used ones, and the last slice stands above all used ones.
AdminOK(a) ==
    /\ PrefIn(pref[a], minted)
    /\ a \notin rows => pref[a] = NoPrefs
    /\ ~adrift[a] /\ pref[a]["secret"] # Null =>
         pref[a]["backup"] = shown[a] \ used[a] /\ Below(used[a], pref[a]["last"])

\* A request goes through its states in order.
Shaped(b) ==
    LET r == req[b] IN
    /\ r.pc = "idle" <=> r.op = "none"
    /\ r.pc = "idle" => r = Idle
    /\ r.pc # "idle" => r.tgt \in Admins
    /\ r.pc # "idle" /\ r.op \notin {"add", "setup"} => r.tgt \in born
    /\ r.pc = "rehash" => r.op = "login"
    /\ r.pc \in {"rehash", "begun"} => r.gone = {} /\ r.stale = {}
    /\ r.op \in OtherOps => r.tgt # r.who
    /\ r.op \in {"totp", "enrol"} => pending[b] = r.tgt
    /\ r.op = "login" /\ r.pc \in {"read", "checked"} => ~verified[b]
    /\ r.pc = "checked" => r.op = "login" /\ r.seen["secret"] = Null /\ r.seen["force"] = Null
    /\ r.pc = "passed" => r.op \in ProvingOps \cup EnrollingOps

Reading(r) == r.pc \in {"read", "checked", "passed"}

\* What a request has read is what there is, unless it knows of a change.
Aware(b) ==
    LET r == req[b]  p == pref[r.tgt] IN
    /\ PrefIn(r.seen, minted)
    /\ r.gone \subseteq r.stale
    /\ \A x \in Attributes \ r.stale : r.seen[x] = p[x]
    /\ \A x \in Attributes : r.seen[x] # Null /\ p[x] = Null => x \in r.gone
    /\ "secret" \in r.gone <=> "backup" \in r.gone

\* What was used since it read is not in what it has read.
Unused(b) ==
    LET r == req[b]  a == r.tgt IN
    ~adrift[a] =>
        /\ r.seen["secret"] # Null /\ "backup" \notin r.stale => used[a] \cap r.seen["backup"] = {}
        /\ r.seen["secret"] # Null /\ "last" \notin r.stale => Below(used[a], r.seen["last"])
        /\ r.seen["secret"] = Null /\ pref[a]["secret"] # Null /\ "last" \notin r.stale =>
              \A f \in used[a] : f[1] # 0

\* The code a request was given fits what it has read.
Given(b) ==
    LET r == req[b] IN
    r.pc = "passed" /\ r.op \in ProvingOps =>
        /\ r.seen["secret"] # Null
        /\ \/ r.factor \in r.seen["backup"] /\ r.op # "regen"
           \/ r.factor \in Slots /\ (r.seen["last"] = Null \/ r.factor[2] > r.seen["last"])

RequestOK(b) ==
    /\ Shaped(b)
    /\ Reading(req[b]) => Aware(b) /\ Unused(b) /\ Given(b)

IInv ==
    /\ StateOK
    /\ \A a \in Admins : AdminOK(a)
    /\ \A b \in Browsers : RequestOK(b)

-----------------------------------------------------------------------------
(* Preferences.                                                            *)

LEMMA CodesGrow == ASSUME NEW n \in Nat, NEW m \in Nat, n <= m
                   PROVE  CodesTo(n) \subseteq CodesTo(m)
  BY DEF CodesTo

LEMMA PrefsGrow == ASSUME NEW n \in Nat, NEW m \in Nat, n <= m, NEW p, PrefIn(p, n)
                   PROVE  PrefIn(p, m)
  BY CodesGrow DEF PrefIn

\* A batch is a set of codes, and none that was there before.
LEMMA BatchIsNew ==
  ASSUME NEW n \in Nat, n < MaxMinted
  PROVE  /\ Batch(n + 1) \subseteq CodesTo(n + 1) /\ Batch(n + 1) \cap CodesTo(n) = {}
         /\ Batch(n + 1) \in Values /\ Batch(n + 1) # {} /\ n + 1 \in Values
         /\ Null # Batch(n + 1) /\ Null # n + 1
  <1>1. Batch(n + 1) \subseteq CodesTo(n + 1) /\ Batch(n + 1) \cap CodesTo(n) = {}
    BY DEF Batch, CodesTo
  <1>2. CodesTo(n + 1) \subseteq CodesTo(MaxMinted)
    BY CodesGrow, BoundsAreNumbers
  <1>3. <<n + 1, 1>> \in Batch(n + 1)
    BY BoundsAreNumbers DEF Batch
  <1>4. Null # Batch(n + 1) /\ Null # n + 1
    BY <1>1, <1>2, NullIsFresh DEF CodesTo
  <1>5. Batch(n + 1) \in SUBSET CodesTo(MaxMinted)
    BY <1>1, <1>2
  <1>6. Batch(n + 1) \in Values
    BY <1>5, Zenon DEF Values
  <1>7. n + 1 \in Nat
    OBVIOUS
  <1>8. n + 1 \in Values
    BY <1>7, Zenon DEF Values
  <1>. QED
    BY <1>1, <1>3, <1>4, <1>6, <1>8

LEMMA NoPrefsOK == ASSUME NEW n \in Nat PROVE PrefIn(NoPrefs, n)
  BY DEF PrefIn, NoPrefs, Attributes, Values

\* A backup list less a code is none of the absent ones.
LEMMA SpentIsList ==
  ASSUME NEW n \in Nat, n <= MaxMinted, NEW S \in SUBSET CodesTo(n), NEW f
  PROVE  S \ {f} \in SUBSET CodesTo(n) /\ S \ {f} \in Values /\ S \ {f} # Null
  BY CodesGrow, BoundsAreNumbers, NullIsFresh DEF Values, CodesTo

-----------------------------------------------------------------------------
(* The requests a step does not belong to.                                 *)

\* Where no record changes, the others keep what they know.
LEMMA AloneKeeps ==
  ASSUME IInv, NEW b \in Browsers,
         UNCHANGED <<pref, minted>>, born \subseteq born',
         \A c \in Browsers \ {b} : /\ req'[c] = req[c] /\ pending'[c] = pending[c]
                                  /\ verified'[c] = verified[c],
         \A a \in Admins : adrift'[a] \/ (~adrift[a] /\ used'[a] = used[a])
  PROVE  \A c \in Browsers \ {b} : RequestOK(c)'
  <1>. SUFFICES ASSUME NEW c \in Browsers \ {b} PROVE RequestOK(c)'
    OBVIOUS
  <1>1. RequestOK(c) /\ req'[c] = req[c] /\ pending'[c] = pending[c] /\ verified'[c] = verified[c]
    BY DEF IInv
  <1>2. Shaped(c)'
    BY <1>1 DEF RequestOK, Shaped
  <1>3. ASSUME Reading(req[c]) PROVE Aware(c)' /\ Given(c)'
    BY <1>1, <1>3 DEF RequestOK, Aware, Given
  <1>4. ASSUME Reading(req[c]) PROVE Unused(c)'
    <2>1. req[c].tgt \in Admins
      BY <1>1, <1>4 DEF RequestOK, Shaped, Reading
    <2>. QED
      BY <1>1, <1>4, <2>1 DEF RequestOK, Unused
  <1>. QED
    BY <1>1, <1>2, <1>3, <1>4 DEF RequestOK, Reading

\* Where the record of an admin becomes new, the others know of the change; and
\* what is used from now on was in it, unless it is written over.
LEMMA OthersKeep ==
  ASSUME IInv, NEW b \in Browsers, NEW a \in Admins, NEW new,
         PrefIn(new, minted'), minted' \in Nat, minted <= minted', UNCHANGED born,
         pref' = [pref EXCEPT ![a] = new],
         \A c \in Browsers \ {b} : /\ req'[c] = Overtaken(b, a, new)[c]
                                  /\ pending'[c] = pending[c] /\ verified'[c] = verified[c],
         \A x \in Admins \ {a} : adrift'[x] = adrift[x] /\ used'[x] = used[x],
         used'[a] \subseteq CodesTo(minted') \cup Slots,
         ~adrift'[a] =>
            \/ used'[a] = {}
            \/ /\ ~adrift[a] /\ (new["secret"] # Null => pref[a]["secret"] # Null)
               /\ \A f \in used'[a] \ used[a] :
                    IF f \in Slots THEN new["last"] # pref[a]["last"]
                                   ELSE new["backup"] # pref[a]["backup"]
  PROVE  \A c \in Browsers \ {b} : RequestOK(c)'
  <1>. SUFFICES ASSUME NEW c \in Browsers \ {b} PROVE RequestOK(c)'
    OBVIOUS
  <1>. DEFINE r == req[c]  s == req'[c]
  <1>1. RequestOK(c) /\ pending'[c] = pending[c] /\ verified'[c] = verified[c] /\ r \in Records
    BY DEF IInv, StateOK
  <1>2. CASE ~(Reading(r) /\ r.tgt = a)
    <2>1. s = r
      BY <1>2 DEF Overtaken, Reading
    <2>2. Shaped(c)'
      BY <1>1, <2>1 DEF RequestOK, Shaped
    <2>3. ASSUME Reading(r) PROVE Aware(c)' /\ Given(c)' /\ Unused(c)'
      <3>1. r.tgt \in Admins \ {a}
        BY <1>1, <1>2, <2>3 DEF RequestOK, Shaped, Reading
      <3>2. pref'[r.tgt] = pref[r.tgt] /\ used'[r.tgt] = used[r.tgt] /\ adrift'[r.tgt] = adrift[r.tgt]
        BY <3>1 DEF IInv, StateOK
      <3>3. Aware(c) /\ Given(c) /\ Unused(c)
        BY <1>1, <2>3 DEF RequestOK
      <3>4. PrefIn(r.seen, minted')
        BY <3>3, PrefsGrow DEF Aware, IInv, StateOK
      <3>. QED
        BY <2>1, <3>2, <3>3, <3>4 DEF Aware, Given, Unused
    <2>. QED
      BY <2>1, <2>2, <2>3 DEF RequestOK
  <1>3. CASE Reading(r) /\ r.tgt = a
    <2>. DEFINE Old == {x \in Attributes : new[x] # pref[a][x]}
                Lost == {x \in Attributes : pref[a][x] # Null /\ new[x] = Null}
    <2>1. s = [r EXCEPT !.stale = @ \cup Old, !.gone = @ \cup Lost]
      BY <1>3 DEF Overtaken, Reading
    <2>2. /\ s.pc = r.pc /\ s.op = r.op /\ s.tgt = a /\ s.who = r.who /\ s.seen = r.seen
          /\ s.factor = r.factor /\ s.stale = r.stale \cup Old /\ s.gone = r.gone \cup Lost
      BY <1>1, <1>3, <2>1 DEF Records
    <2>. HIDE DEF s
    <2>3. Aware(c) /\ Given(c) /\ Unused(c) /\ Shaped(c)
      BY <1>1, <1>3 DEF RequestOK
    <2>4. Shaped(c)'
      BY <1>1, <1>3, <2>2, <2>3 DEF Shaped, s, Reading
    <2>5. Given(c)'
      BY <2>2, <2>3 DEF Given, s
    <2>6. pref'[a] = new /\ PrefIn(pref[a], minted)
      BY DEF IInv, StateOK, AdminOK
    <2>7. Aware(c)'
      <3>1. PrefIn(r.seen, minted')
        BY <2>3, PrefsGrow DEF Aware, IInv, StateOK
      <3>2. s.gone \subseteq s.stale
        BY <1>3, <2>2, <2>3 DEF Aware
      <3>3. \A x \in Attributes \ s.stale : r.seen[x] = new[x]
        BY <1>3, <2>2, <2>3 DEF Aware
      <3>4. \A x \in Attributes : r.seen[x] # Null /\ new[x] = Null => x \in s.gone
        BY <1>3, <2>2, <2>3 DEF Aware
      <3>5. "secret" \in s.gone <=> "backup" \in s.gone
        BY <1>3, <2>2, <2>3, <2>6 DEF Aware, PrefIn, Attributes
      <3>. QED
        BY <2>2, <2>6, <3>1, <3>2, <3>3, <3>4, <3>5 DEF Aware, s
    <2>8. Unused(c)'
      <3>. SUFFICES ASSUME ~adrift'[a]
                    PROVE  /\ r.seen["secret"] # Null /\ "backup" \notin s.stale
                              => used'[a] \cap r.seen["backup"] = {}
                           /\ r.seen["secret"] # Null /\ "last" \notin s.stale
                              => Below(used'[a], r.seen["last"])
                           /\ r.seen["secret"] = Null /\ new["secret"] # Null /\ "last" \notin s.stale
                              => \A f \in used'[a] : f[1] # 0
        BY <2>2, <2>6 DEF Unused, s
      <3>1. CASE used'[a] = {}
        BY <3>1 DEF Below
      <3>2. CASE /\ ~adrift[a] /\ (new["secret"] # Null => pref[a]["secret"] # Null)
                 /\ \A f \in used'[a] \ used[a] :
                      IF f \in Slots THEN new["last"] # pref[a]["last"]
                                     ELSE new["backup"] # pref[a]["backup"]
        <4>1. ASSUME "last" \notin s.stale
              PROVE  "last" \notin r.stale /\ \A f \in used'[a] \ used[a] : f \notin Slots
          BY <2>2, <3>2, <4>1 DEF Attributes
        <4>2. ASSUME "backup" \notin s.stale
              PROVE  "backup" \notin r.stale /\ \A f \in used'[a] \ used[a] : f \in Slots
          BY <2>2, <3>2, <4>2 DEF Attributes
        <4>3. /\ \A f \in Slots : f[1] = 0
              /\ \A f \in CodesTo(minted') : f[1] # 0
              /\ r.seen["secret"] # Null => r.seen["backup"] \cap Slots = {}
          BY <2>3 DEF Slots, CodesTo, Aware, PrefIn, IInv, StateOK
        <4>4. ASSUME r.seen["secret"] # Null, "backup" \notin s.stale
              PROVE  used'[a] \cap r.seen["backup"] = {}
          BY <1>3, <2>3, <3>2, <4>2, <4>3, <4>4 DEF Unused
        <4>5. ASSUME r.seen["secret"] # Null, "last" \notin s.stale
              PROVE  Below(used'[a], r.seen["last"])
          BY <1>3, <2>3, <3>2, <4>1, <4>3, <4>5 DEF Unused, Below
        <4>6. ASSUME r.seen["secret"] = Null, new["secret"] # Null, "last" \notin s.stale
              PROVE  \A f \in used'[a] : f[1] # 0
          BY <1>3, <2>3, <3>2, <4>1, <4>3, <4>6 DEF Unused
        <4>. QED
          BY <4>4, <4>5, <4>6
      <3>. QED
        BY <3>1, <3>2
    <2>. QED
      BY <2>2, <2>4, <2>5, <2>7, <2>8 DEF RequestOK, s
  <1>. QED
    BY <1>2, <1>3

-----------------------------------------------------------------------------
(* EntityManager::flush.                                                   *)

\* A flush makes preferences of preferences; of an admin that is gone, none.
LEMMA MergedOK ==
  ASSUME IInv, NEW b \in Browsers, Reading(req[b]), NEW n \in Nat, minted <= n,
         NEW want, PrefIn(want, n), Accepted(req[b], want)
  PROVE  /\ PrefIn(Merged(req[b], want), n)
         /\ req[b].tgt \notin rows => Merged(req[b], want) = NoPrefs
  <1>. DEFINE r == req[b]  p == pref[r.tgt]  new == Merged(r, want)
  <1>1. Aware(b) /\ r.tgt \in Admins
    BY DEF IInv, RequestOK, Shaped, Reading
  <1>2. AdminOK(r.tgt)
    BY <1>1 DEF IInv
  <1>3. PrefIn(p, n) /\ PrefIn(r.seen, n)
    BY <1>1, <1>2, PrefsGrow DEF Aware, AdminOK, IInv, StateOK
  <1>4. new = [x \in Attributes |->
                 IF want[x] # r.seen[x] /\ (r.seen[x] = Null \/ x \notin r.gone)
                 THEN want[x] ELSE p[x]]
    BY DEF Merged, Changed
  <1>5. \A x \in Attributes : want[x] # r.seen[x] /\ r.seen[x] = Null => p[x] = Null /\ r.tgt \in rows
    BY DEF Accepted, Changed
  <1>6. \A x \in Attributes : r.seen[x] # Null /\ p[x] = Null => x \in r.gone
    BY <1>1 DEF Aware
  <1>7. new \in [Attributes -> Values]
    BY <1>3, <1>4 DEF PrefIn
  <1>8. new["secret"] = Null <=> new["backup"] = Null
    BY <1>1, <1>3, <1>4, <1>5, <1>6 DEF PrefIn, Aware, Attributes
  <1>9. PrefIn(new, n)
    <2>1. new["secret"] \in {Null} \cup (1..n)
      BY <1>3, <1>4 DEF PrefIn, Attributes
    <2>2. new["backup"] \in {Null} \cup SUBSET CodesTo(n)
      BY <1>3, <1>4 DEF PrefIn, Attributes
    <2>3. new["last"] \in {Null} \cup (1..MaxSlice)
      BY <1>3, <1>4 DEF PrefIn, Attributes
    <2>. QED
      BY <1>7, <1>8, <2>1, <2>2, <2>3 DEF PrefIn
  <1>10. ASSUME r.tgt \notin rows PROVE new = NoPrefs
    <2>1. \A x \in Attributes : p[x] = Null
      BY <1>2, <1>10 DEF AdminOK, NoPrefs
    <2>. QED
      BY <1>4, <1>5, <1>6, <1>10, <2>1 DEF NoPrefs
  <1>. QED
    BY <1>9, <1>10

\* A flush that writes nothing over does what the request wanted.
LEMMA FlushIsSound ==
  ASSUME IInv, NEW b \in Browsers, Reading(req[b]), NEW want, ~Drifts(req[b], want)
  PROVE  LET r == req[b]  p == pref[r.tgt] IN
         /\ \A x \in Attributes :
              IF want[x] # r.seen[x]
              THEN x \notin r.stale /\ p[x] = r.seen[x] /\ Merged(r, want)[x] = want[x]
              ELSE Merged(r, want)[x] = p[x]
         /\ ~adrift[r.tgt] \/ want["secret"] \notin {Null, r.seen["secret"]}
  <1>1. Aware(b)
    BY DEF IInv, RequestOK
  <1>2. \A x \in Attributes : want[x] # req[b].seen[x] => x \notin req[b].stale
    BY DEF Drifts, Changed
  <1>. QED
    BY <1>1, <1>2 DEF Drifts, Aware, Merged, Changed

LEMMA OvertakenOK ==
  ASSUME IInv, NEW b \in Browsers, NEW t, NEW new
  PROVE  /\ Overtaken(b, t, new) \in [Browsers -> Records]
         /\ DOMAIN Overtaken(b, t, new) = Browsers
  <1>. DEFINE Old == {x \in Attributes : new[x] # pref[t][x]}
              Lost == {x \in Attributes : pref[t][x] # Null /\ new[x] = Null}
  <1>1. Old \in SUBSET Attributes /\ Lost \in SUBSET Attributes
    OBVIOUS
  <1>2. \A c \in Browsers :
           Overtaken(b, t, new)[c] \in {req[c], [req[c] EXCEPT !.stale = @ \cup Old, !.gone = @ \cup Lost]}
    BY DEF Overtaken
  <1>. HIDE DEF Old, Lost
  <1>3. \A c \in Browsers : req[c] \in Records
    BY DEF IInv, StateOK
  <1>4. \A s \in Records : [s EXCEPT !.stale = @ \cup Old, !.gone = @ \cup Lost] \in Records
    BY <1>1 DEF Records
  <1>5. \A c \in Browsers : Overtaken(b, t, new)[c] \in Records
    BY <1>2, <1>3, <1>4
  <1>. QED
    BY <1>5 DEF Overtaken

\* A flush that writes nothing over leaves the codes shown less the used ones,
\* and what becomes used was in what it writes.
Fits(b, want) ==
    LET r == req[b]  a == r.tgt  p == pref[a]  new == Merged(r, want) IN
    ~Drifts(r, want) =>
       /\ \/ used'[a] = {}
          \/ /\ ~adrift[a] /\ (new["secret"] # Null => p["secret"] # Null)
             /\ \A f \in used'[a] \ used[a] :
                  IF f \in Slots THEN new["last"] # p["last"] ELSE new["backup"] # p["backup"]
       /\ new["secret"] # Null =>
             new["backup"] = shown'[a] \ used'[a] /\ Below(used'[a], new["last"])

\* What a flush leaves to show of the step it is part of.
LEMMA FlushKeeps ==
  ASSUME IInv, NEW b \in Browsers, Reading(req[b]), NEW want, NEW next, Flush(b, want, next),
         PrefIn(want, minted'), minted' \in Nat, minted <= minted', minted' <= MaxMinted,
         next \in Records, UNCHANGED db,
         \A c \in Browsers \ {b} : pending'[c] = pending[c] /\ verified'[c] = verified[c],
         \A x \in Admins \ {req[b].tgt} : used'[x] = used[x] /\ shown'[x] = shown[x],
         used' \in [Admins -> SUBSET (CodesTo(minted') \cup Slots)],
         shown' \in [Admins -> SUBSET CodesTo(minted')],
         Fits(b, want)
  PROVE  /\ \A a \in Admins : AdminOK(a)'
         /\ \A c \in Browsers \ {b} : RequestOK(c)'
         /\ pref' \in [Admins -> [Attributes -> Values]]
         /\ req' \in [Browsers -> Records] /\ req'[b] = next
         /\ pref'[req[b].tgt] = Merged(req[b], want)
         /\ adrift' \in [Admins -> BOOLEAN]
         /\ adrift'[req[b].tgt] = Drifts(req[b], want)
  <1>. DEFINE r == req[b]  a == r.tgt  p == pref[a]  new == Merged(r, want)
  <1>1. a \in Admins
    BY DEF IInv, RequestOK, Shaped, Reading
  <1>2. /\ Accepted(r, want) /\ pref' = [pref EXCEPT ![a] = new]
        /\ req' = [Overtaken(b, a, new) EXCEPT ![b] = next]
        /\ adrift' = [adrift EXCEPT ![a] = Drifts(r, want)]
    BY DEF Flush
  <1>3. PrefIn(new, minted') /\ (a \notin rows => new = NoPrefs)
    BY <1>2, MergedOK
  <1>4. pref'[a] = new /\ adrift'[a] = Drifts(r, want)
    BY <1>1, <1>2 DEF IInv, StateOK
  <1>5. \A c \in Browsers \ {b} : req'[c] = Overtaken(b, a, new)[c]
    BY <1>2, OvertakenOK
  <1>6. req' \in [Browsers -> Records] /\ req'[b] = next
    BY <1>2, OvertakenOK
  <1>7. Drifts(r, want) \in BOOLEAN
    BY DEF Drifts
  <1>8. adrift' \in [Admins -> BOOLEAN]
    BY <1>1, <1>2, <1>7 DEF IInv, StateOK
  <1>9. pref' \in [Admins -> [Attributes -> Values]]
    BY <1>1, <1>2, <1>3 DEF IInv, StateOK, PrefIn
  <1>10. \A c \in Browsers \ {b} : RequestOK(c)'
    <2>1. used'[a] \subseteq CodesTo(minted') \cup Slots
      BY <1>1
    <2>2. \A x \in Admins \ {a} : adrift'[x] = adrift[x]
      BY <1>1, <1>2 DEF IInv, StateOK
    <2>3. \A x \in Admins \ {a} : used'[x] = used[x]
      OBVIOUS
    <2>4. ~adrift'[a] =>
            \/ used'[a] = {}
            \/ /\ ~adrift[a] /\ (new["secret"] # Null => p["secret"] # Null)
               /\ \A f \in used'[a] \ used[a] :
                    IF f \in Slots THEN new["last"] # p["last"] ELSE new["backup"] # p["backup"]
      BY <1>4 DEF Fits
    <2>5. born' = born
      BY DEF db
    <2>6. pref' = [pref EXCEPT ![a] = new]
      BY <1>2
    <2>7. PrefIn(new, minted')
      BY <1>3
    <2>8. \A c \in Browsers \ {b} : /\ req'[c] = Overtaken(b, a, new)[c]
                                     /\ pending'[c] = pending[c] /\ verified'[c] = verified[c]
      BY <1>5
    <2>9. \A x \in Admins \ {a} : adrift'[x] = adrift[x] /\ used'[x] = used[x]
      BY <2>2, <2>3
    <2>. HIDE DEF r, a, new
    <2>10. ~adrift'[a] =>
            \/ used'[a] = {}
            \/ /\ ~adrift[a] /\ (new["secret"] # Null => pref[a]["secret"] # Null)
               /\ \A f \in used'[a] \ used[a] :
                    IF f \in Slots THEN new["last"] # pref[a]["last"]
                                   ELSE new["backup"] # pref[a]["backup"]
      BY <2>4
    <2>. QED
      BY <1>1, <2>1, <2>5, <2>6, <2>7, <2>8, <2>9, <2>10, OthersKeep
  <1>11. ASSUME NEW x \in Admins PROVE AdminOK(x)'
    <2>1. CASE x = a
      BY <1>3, <1>4, <2>1 DEF AdminOK, db, Fits
    <2>2. CASE x # a
      <3>1. pref'[x] = pref[x] /\ adrift'[x] = adrift[x] /\ AdminOK(x)
        BY <1>2, <2>2 DEF IInv, StateOK
      <3>2. PrefIn(pref[x], minted')
        <4>1. PrefIn(pref[x], minted) /\ minted \in Nat
          BY <3>1 DEF AdminOK, IInv, StateOK
        <4>. QED
          BY <4>1, PrefsGrow
      <3>. QED
        BY <2>2, <3>1, <3>2 DEF AdminOK, db
    <2>. QED
      BY <2>1, <2>2
  <1>. QED
    BY <1>4, <1>6, <1>8, <1>9, <1>10, <1>11

-----------------------------------------------------------------------------
(* The steps that write no preferences.                                    *)

LEMMA RecordsStand ==
  ASSUME IInv, UNCHANGED <<pref, minted, shown>>, rows \subseteq rows',
         \A a \in Admins : adrift'[a] \/ (~adrift[a] /\ used'[a] = used[a])
  PROVE  \A a \in Admins : AdminOK(a)'
  BY DEF IInv, AdminOK

LEMMA IdleOK == ASSUME NEW b \in Browsers, req'[b] = Idle PROVE RequestOK(b)'
  BY DEF RequestOK, Shaped, Reading, Idle, OtherOps

LEMMA IdleIsRecord == Idle \in Records /\ NoPrefs \in [Attributes -> Values]
  BY DEF Idle, Records, PCs, NoPrefs, Values, Ops

\* A step of one request that writes nothing of what the others have read.
LEMMA StepKeeps ==
  ASSUME IInv, NEW b \in Browsers, UNCHANGED <<pref, minted, shown>>,
         rows \subseteq rows', born \subseteq born', StateOK',
         \A c \in Browsers \ {b} : /\ req'[c] = req[c] /\ pending'[c] = pending[c]
                                  /\ verified'[c] = verified[c],
         \A a \in Admins : adrift'[a] \/ (~adrift[a] /\ used'[a] = used[a]),
         RequestOK(b)'
  PROVE  IInv'
  <1>1. \A a \in Admins : AdminOK(a)'
    BY RecordsStand
  <1>2. \A c \in Browsers \ {b} : RequestOK(c)'
    BY AloneKeeps
  <1>. QED
    BY <1>1, <1>2 DEF IInv

LEMMA BeginKeeps ==
  ASSUME IInv, NEW b \in Browsers, NEW first \in {"rehash", "begun", "read"},
         NEW op \in Ops, NEW t \in Admins, Begin(b, first, op, t),
         first = "read" => op \in {"add", "setup"} /\ t \notin born,
         op \notin {"add", "setup"} => t \in born,
         first = "rehash" => op = "login",
         op \in OtherOps => t # Me(b),
         op \in {"totp", "enrol"} => pending[b] = t
  PROVE  IInv'
  <1>. DEFINE s == [Idle EXCEPT !.pc = first, !.op = op, !.who = Me(b), !.tgt = t, !.hash = pw[t].gen]
  <1>1. Me(b) \in Admins \cup {NoAdmin} /\ Swept(b) \in born \cup {NoAdmin}
    BY DEF Me, Swept, IInv, StateOK
  <1>2. pw[t].gen \in Nat
    BY BoundsAreNumbers DEF IInv, StateOK
  <1>3. /\ s.pc = first /\ s.op = op /\ s.who = Me(b) /\ s.tgt = t /\ s.seen = NoPrefs
        /\ s.gone = {} /\ s.stale = {}
    BY DEF Idle
  <1>4. s \in Records
    BY <1>1, <1>2, IdleIsRecord DEF Records, PCs
  <1>. HIDE DEF s
  <1>5. /\ req' = [req EXCEPT ![b] = s] /\ identity' = [identity EXCEPT ![b] = Swept(b)]
        /\ calls' = calls + 1
        /\ UNCHANGED <<db, pref, pending, verified, slice, minted, history>>
    BY DEF Begin, s
  <1>6. req'[b] = s
    BY <1>5 DEF IInv, StateOK
  <1>7. StateOK'
    BY <1>1, <1>4, <1>5 DEF IInv, StateOK, db, history, Codes
  <1>8. RequestOK(b)'
    <2>1. Shaped(b)'
      BY <1>3, <1>5, <1>6 DEF Shaped, db, history, Ops, OwnOps, OtherOps
    <2>2. ASSUME Reading(s) PROVE Aware(b)' /\ Unused(b)' /\ Given(b)'
      <3>1. first = "read" /\ t \notin rows
        BY <1>3, <2>2 DEF Reading, IInv, StateOK
      <3>2. pref[t] = NoPrefs
        BY <3>1 DEF IInv, AdminOK
      <3>3. PrefIn(s.seen, minted)
        BY <1>3, NoPrefsOK DEF IInv, StateOK
      <3>. QED
        BY <1>3, <1>5, <1>6, <3>1, <3>2, <3>3 DEF Aware, Unused, Given, NoPrefs, Attributes
    <2>. QED
      BY <1>6, <2>1, <2>2 DEF RequestOK
  <1>9. \A c \in Browsers \ {b} : /\ req'[c] = req[c] /\ pending'[c] = pending[c]
                                 /\ verified'[c] = verified[c]
    BY <1>5 DEF IInv, StateOK
  <1>. QED
    <2>1. UNCHANGED <<pref, minted, shown, rows, born, adrift, used>>
      BY <1>5 DEF db, history
    <2>2. \A a \in Admins : adrift'[a] \/ (~adrift[a] /\ used'[a] = used[a])
      BY <2>1
    <2>. QED
      BY <1>7, <1>8, <1>9, <2>1, <2>2, StepKeeps

LEMMA BeginsKeep ==
  ASSUME IInv, NEW b \in Browsers,
         \/ \E a \in Admins : BeginLogin(b, a)
         \/ BeginSecond(b) \/ BeginOwn(b) \/ BeginOther(b) \/ BeginAdd(b) \/ BeginSetup(b)
  PROVE  IInv'
  <1>1. active \subseteq born /\ born \subseteq Admins /\ rows \subseteq born
    BY DEF IInv, StateOK
  <1>2. CASE \E a \in Admins : BeginLogin(b, a)
    <2>1. PICK a \in active : Begin(b, IF pw[a].fresh THEN "begun" ELSE "rehash", "login", a)
      BY <1>2 DEF BeginLogin
    <2>. DEFINE first == IF pw[a].fresh THEN "begun" ELSE "rehash"
    <2>2. first \in {"rehash", "begun"}
      OBVIOUS
    <2>3. Begin(b, first, "login", a)
      BY <2>1
    <2>. HIDE DEF first
    <2>4. a \in Admins /\ a \in born /\ "login" \in Ops /\ "login" \notin OtherOps
      BY <1>1 DEF Ops, OtherOps
    <2>. QED
      BY <2>2, <2>3, <2>4, BeginKeeps
  <1>3. CASE BeginSecond(b)
    <2>1. PICK op \in {"totp", "enrol"} : Begin(b, "begun", op, pending[b])
      BY <1>3 DEF BeginSecond
    <2>2. pending[b] \in Admins /\ pending[b] \in born /\ op \in Ops /\ op \notin OtherOps
      BY <1>1, <1>3 DEF BeginSecond, Ops, OtherOps
    <2>. QED
      BY <2>1, <2>2, BeginKeeps
  <1>4. CASE BeginOwn(b)
    <2>1. PICK op \in OwnOps : Begin(b, "begun", op, Me(b))
      BY <1>4 DEF BeginOwn
    <2>2. Me(b) \in Admins /\ Me(b) \in born
      BY <1>1, <1>4 DEF BeginOwn, Me
    <2>3. op \in Ops \ (OtherOps \cup {"totp", "enrol", "add", "setup"})
      BY DEF Ops, OtherOps, OwnOps
    <2>. QED
      BY <2>1, <2>2, <2>3, BeginKeeps
  <1>5. CASE BeginOther(b)
    <2>1. PICK op \in OtherOps, t \in born \ {Me(b)} : Begin(b, "begun", op, t)
      BY <1>5 DEF BeginOther
    <2>2. op \in Ops \ {"totp", "enrol"} /\ t \in Admins
      BY <1>1 DEF Ops, OtherOps
    <2>. QED
      BY <2>1, <2>2, BeginKeeps
  <1>6. CASE BeginAdd(b) \/ BeginSetup(b)
    <2>1. PICK op \in {"add", "setup"}, t \in Admins \ born : Begin(b, "read", op, t)
      BY <1>6 DEF BeginAdd, BeginSetup
    <2>2. op \in Ops /\ op \notin OtherOps
      BY DEF Ops, OtherOps
    <2>. QED
      BY <2>1, <2>2, BeginKeeps
  <1>. QED
    BY <1>2, <1>3, <1>4, <1>5, <1>6

\* A session is left, and a request comes to its end.
LEMMA LeaveKeeps ==
  ASSUME IInv, NEW b \in Browsers, Abandon(b) \/ Logout(b)
  PROVE  IInv'
  <1>1. /\ UNCHANGED <<db, pref, req, slice, minted, calls, history>> /\ req[b].pc = "idle"
        /\ pending' = [pending EXCEPT ![b] = NoAdmin] /\ verified' = [verified EXCEPT ![b] = FALSE]
    BY DEF Abandon, Logout
  <1>2. identity' \in [Browsers -> born \cup {NoAdmin}]
    BY DEF Abandon, Logout, Swept, IInv, StateOK
  <1>3. StateOK'
    BY <1>1, <1>2 DEF IInv, StateOK, db, history, Codes
  <1>4. RequestOK(b)'
    BY <1>1, IdleOK DEF IInv, RequestOK, Shaped
  <1>5. \A c \in Browsers \ {b} : /\ req'[c] = req[c] /\ pending'[c] = pending[c]
                                 /\ verified'[c] = verified[c]
    BY <1>1 DEF IInv, StateOK
  <1>6. UNCHANGED <<pref, minted, shown, rows, born, adrift, used>>
    BY <1>1 DEF db, history
  <1>7. \A a \in Admins : adrift'[a] \/ (~adrift[a] /\ used'[a] = used[a])
    BY <1>6
  <1>. QED
    BY <1>3, <1>4, <1>5, <1>6, <1>7, StepKeeps

LEMMA EndKeeps ==
  ASSUME IInv, NEW b \in Browsers, End(b), UNCHANGED <<pref, slice, minted, calls, shown>>,
         rows \subseteq rows', born \subseteq born', born' \subseteq Admins,
         rows' \subseteq born', active' \subseteq rows', super' \subseteq rows',
         pw' \in [Admins -> [gen : 0..MaxPasswords, fresh : BOOLEAN]],
         identity' \in [Browsers -> born \cup {NoAdmin}],
         pending' \in [Browsers -> born \cup {NoAdmin}],
         verified' \in [Browsers -> BOOLEAN],
         used' \in [Admins -> SUBSET (Codes \cup Slots)],
         adrift' \in [Admins -> BOOLEAN],
         \A c \in Browsers \ {b} : pending'[c] = pending[c] /\ verified'[c] = verified[c],
         \A a \in Admins : adrift'[a] \/ (~adrift[a] /\ used'[a] = used[a])
  PROVE  IInv'
  <1>1. req' = [req EXCEPT ![b] = Idle]
    BY DEF End
  <1>2. req'[b] = Idle /\ \A c \in Browsers \ {b} : req'[c] = req[c]
    BY <1>1 DEF IInv, StateOK
  <1>3. req' \in [Browsers -> Records]
    BY <1>1, IdleIsRecord DEF IInv, StateOK
  <1>4. StateOK'
    BY <1>3 DEF IInv, StateOK, Codes
  <1>5. RequestOK(b)'
    BY <1>2, IdleOK
  <1>. QED
    BY <1>2, <1>4, <1>5, StepKeeps

\* The code a request was given is one there is.
LEMMA FactorIsCode ==
  ASSUME IInv, NEW b \in Browsers, req[b].pc = "passed", req[b].op \in ProvingOps
  PROVE  /\ req[b].factor \in Codes \cup Slots /\ req[b].tgt \in born
         /\ req[b].seen["secret"] # Null /\ req[b].seen["backup"] \in SUBSET Codes
  <1>1. RequestOK(b) /\ Aware(b) /\ Given(b)
    BY DEF IInv, RequestOK, Reading
  <1>2. req[b].seen["backup"] \in SUBSET Codes
    BY <1>1 DEF Given, Aware, PrefIn, Codes
  <1>. QED
    BY <1>1, <1>2 DEF RequestOK, Shaped, Given, ProvingOps

LEMMA EndsKeep ==
  ASSUME IInv, NEW b \in Browsers,
         \/ Fails(b) \/ Park(b) \/ Grant(b) \/ PassTotpUnsaved(b)
         \/ Toggle(b) \/ ChangePassword(b) \/ Insert(b)
  PROVE  IInv'
  <1>. DEFINE t == req[b].tgt
  <1>. USE DEF db, session, history
  <1>0. StateOK /\ Shaped(b)
    BY DEF IInv, RequestOK
  <1>1. CASE Fails(b)
    BY <1>0, <1>1, EndKeeps DEF Fails, StateOK
  <1>2. CASE Park(b)
    <2>1. t \in born
      BY <1>0, <1>2 DEF Park, AtGate, Shaped
    <2>2. pending' \in [Browsers -> born \cup {NoAdmin}] /\ \A c \in Browsers \ {b} : pending'[c] = pending[c]
      BY <1>0, <1>2, <2>1 DEF Park, StateOK
    <2>. QED
      BY <1>0, <1>2, <2>2, EndKeeps DEF Park, StateOK
  <1>3. CASE Grant(b)
    <2>1. t \in born
      BY <1>0, <1>3 DEF Grant, AtGate, Shaped
    <2>2. identity' \in [Browsers -> born \cup {NoAdmin}]
      BY <1>0, <1>3, <2>1 DEF Grant, StateOK
    <2>. QED
      BY <1>0, <1>3, <2>2, EndKeeps DEF Grant, StateOK
  <1>4. CASE PassTotpUnsaved(b)
    <2>1. t \in born /\ req[b].factor \in Codes \cup Slots
      BY <1>4, FactorIsCode DEF PassTotpUnsaved, ProvingOps
    <2>2. identity' \in [Browsers -> born \cup {NoAdmin}] /\ verified' \in [Browsers -> BOOLEAN]
      BY <1>0, <1>4, <2>1 DEF PassTotpUnsaved, GrantPending, StateOK
    <2>3. /\ pending' \in [Browsers -> born \cup {NoAdmin}]
          /\ \A c \in Browsers \ {b} : pending'[c] = pending[c] /\ verified'[c] = verified[c]
      BY <1>0, <1>4 DEF PassTotpUnsaved, GrantPending, StateOK
    <2>4. used' = [used EXCEPT ![t] = @ \cup {req[b].factor}] /\ adrift' = [adrift EXCEPT ![t] = TRUE]
      BY <1>4 DEF PassTotpUnsaved, Accept
    <2>5. used' \in [Admins -> SUBSET (Codes \cup Slots)] /\ adrift' \in [Admins -> BOOLEAN]
      BY <1>0, <2>1, <2>4 DEF StateOK
    <2>6. \A a \in Admins : adrift'[a] \/ (~adrift[a] /\ used'[a] = used[a])
      BY <1>0, <2>4 DEF StateOK
    <2>. QED
      BY <1>0, <1>4, <2>2, <2>3, <2>5, <2>6, EndKeeps DEF PassTotpUnsaved, StateOK
  <1>5. CASE Toggle(b)
    <2>1. active' \subseteq rows /\ super' \subseteq rows
      BY <1>0, <1>5 DEF Toggle, Flip, StateOK
    <2>. QED
      BY <1>0, <1>5, <2>1, EndKeeps DEF Toggle, StateOK
  <1>6. CASE ChangePassword(b)
    <2>1. pw' \in [Admins -> [gen : 0..MaxPasswords, fresh : BOOLEAN]]
      BY <1>0, <1>6, BoundsAreNumbers DEF ChangePassword, NewPassword, StateOK
    <2>. QED
      BY <1>0, <1>6, <2>1, EndKeeps DEF ChangePassword, StateOK
  <1>7. CASE Insert(b)
    <2>1. t \in Admins
      BY <1>0, <1>7 DEF Insert, Shaped
    <2>2. pw' \in [Admins -> [gen : 0..MaxPasswords, fresh : BOOLEAN]]
      <3>1. pw' = [pw EXCEPT ![t] = [pw[t] EXCEPT !.fresh = TRUE]]
        BY <1>7 DEF Insert
      <3>2. pw[t] \in [gen : 0..MaxPasswords, fresh : BOOLEAN]
        BY <1>0, <2>1 DEF StateOK
      <3>3. [pw[t] EXCEPT !.fresh = TRUE] \in [gen : 0..MaxPasswords, fresh : BOOLEAN]
        BY <3>2
      <3>. QED
        BY <1>0, <3>1, <3>3 DEF StateOK
    <2>3. super' \subseteq super \cup {t}
      BY <1>7 DEF Insert
    <2>. QED
      BY <1>0, <1>7, <2>1, <2>2, <2>3, EndKeeps DEF Insert, StateOK
  <1>. QED
    BY <1>1, <1>2, <1>3, <1>4, <1>5, <1>6, <1>7

LEMMA RecordsUpdate ==
  ASSUME NEW r \in Records, NEW pc \in PCs
  PROVE  /\ [r EXCEPT !.pc = pc] \in Records
         /\ \A p \in [Attributes -> Values], F \in SUBSET {"active", "super"} :
              [r EXCEPT !.pc = pc, !.seen = p, !.flags = F] \in Records
         /\ \A p \in [Attributes -> Values] : [r EXCEPT !.pc = pc, !.seen = p] \in Records
         /\ \A f \in Nat \X Nat : [r EXCEPT !.pc = pc, !.factor = f] \in Records
  BY DEF Records

LEMMA RehashKeeps == ASSUME IInv, NEW b \in Browsers, Rehash(b) PROVE IInv'
  <1>. USE DEF db, session, history
  <1>0. StateOK /\ Shaped(b) /\ req[b].tgt \in Admins
    BY DEF IInv, RequestOK, Shaped, Rehash
  <1>1. pw' \in [Admins -> [gen : 0..MaxPasswords, fresh : BOOLEAN]]
    BY <1>0 DEF Rehash, StateOK
  <1>2. req' = [req EXCEPT ![b].pc = "begun"] /\ req[b].pc = "rehash"
    BY DEF Rehash, Goto
  <1>3. req' \in [Browsers -> Records] /\ \A c \in Browsers \ {b} : req'[c] = req[c]
    <2>. DEFINE s == [req[b] EXCEPT !.pc = "begun"]
    <2>1. req' = [req EXCEPT ![b] = s]
      BY <1>2
    <2>2. s \in Records
      BY <1>0, RecordsUpdate DEF StateOK, PCs
    <2>. HIDE DEF s
    <2>. QED
      BY <1>0, <2>1, <2>2 DEF StateOK
  <1>4. req'[b] = [req[b] EXCEPT !.pc = "begun"]
    BY <1>0, <1>2 DEF StateOK
  <1>5. /\ req'[b].pc = "begun" /\ req'[b].op = req[b].op /\ req'[b].tgt = req[b].tgt
        /\ req'[b].who = req[b].who /\ req'[b].gone = req[b].gone /\ req'[b].stale = req[b].stale
    BY <1>0, <1>4 DEF StateOK, Records
  <1>6. RequestOK(b)'
    BY <1>0, <1>2, <1>5 DEF RequestOK, Shaped, Reading, Rehash, OtherOps
  <1>7. StateOK'
    BY <1>0, <1>1, <1>3 DEF Rehash, StateOK, Codes
  <1>. QED
    BY <1>0, <1>3, <1>6, <1>7, StepKeeps DEF Rehash, StateOK

LEMMA ReadKeeps == ASSUME IInv, NEW b \in Browsers, Read(b) PROVE IInv'
  <1>. USE DEF db, session, history
  <1>. DEFINE t == req[b].tgt
              fs == {f \in {"active", "super"} : t \in IF f = "active" THEN active ELSE super}
  <1>0. StateOK /\ Shaped(b) /\ t \in Admins /\ req[b].pc = "begun"
    BY DEF IInv, RequestOK, Shaped, Read
  <1>1. req' = [req EXCEPT ![b].pc = "read", ![b].seen = pref[t], ![b].flags = fs]
    BY DEF Read
  <1>2. fs \in SUBSET {"active", "super"} /\ pref[t] \in [Attributes -> Values]
    BY <1>0 DEF StateOK
  <1>. HIDE DEF fs
  <1>3. /\ req'[b] = [req[b] EXCEPT !.pc = "read", !.seen = pref[t], !.flags = fs]
        /\ \A c \in Browsers \ {b} : req'[c] = req[c]
    BY <1>0, <1>1 DEF StateOK
  <1>4. req' \in [Browsers -> Records]
    <2>. DEFINE s == [req[b] EXCEPT !.pc = "read", !.seen = pref[t], !.flags = fs]
    <2>1. s \in Records
      <3>1. req[b] \in Records /\ "read" \in PCs
        BY <1>0 DEF StateOK, PCs
      <3>. QED
        BY <1>2, <3>1, RecordsUpdate
    <2>2. req' = [req EXCEPT ![b] = s]
      BY <1>0, <1>1 DEF StateOK
    <2>. HIDE DEF s
    <2>. QED
      BY <1>0, <2>1, <2>2 DEF StateOK
  <1>5. /\ req'[b].pc = "read" /\ req'[b].op = req[b].op /\ req'[b].tgt = t
        /\ req'[b].who = req[b].who /\ req'[b].gone = {} /\ req'[b].stale = {}
        /\ req'[b].seen = pref[t]
    BY <1>0, <1>3 DEF StateOK, Records, Shaped
  <1>6. verified' \in [Browsers -> BOOLEAN] /\ \A c \in Browsers \ {b} : verified'[c] = verified[c]
    BY <1>0 DEF Read, DropVerified, StateOK
  <1>7. req[b].op = "login" => ~verified'[b]
    BY <1>0 DEF Read, DropVerified, StateOK
  <1>8. Shaped(b)'
    BY <1>0, <1>5, <1>7 DEF Shaped, Read
  <1>9. AdminOK(t)
    BY <1>0 DEF IInv
  <1>10. Aware(b)' /\ Given(b)' /\ Unused(b)'
    <2>1. UNCHANGED <<pref, minted, used, adrift>>
      BY DEF Read
    <2>2. Aware(b)' /\ Given(b)'
      BY <1>5, <1>9, <2>1 DEF Aware, Given, AdminOK
    <2>3. Unused(b)'
      BY <1>5, <1>9, <2>1 DEF Unused, AdminOK
    <2>. QED
      BY <2>2, <2>3
  <1>11. StateOK'
    BY <1>0, <1>4, <1>6 DEF Read, StateOK, Codes
  <1>. QED
    BY <1>0, <1>3, <1>6, <1>8, <1>10, <1>11, StepKeeps DEF Read, RequestOK, StateOK

LEMMA VerifyKeeps == ASSUME IInv, NEW b \in Browsers, Verify(b) PROVE IInv'
  <1>. USE DEF db, session, history
  <1>0. /\ StateOK /\ Shaped(b) /\ Aware(b) /\ Unused(b) /\ req[b].tgt \in Admins
        /\ req[b].pc = "read" /\ req[b].seen["secret"] # Null
    BY DEF IInv, RequestOK, Shaped, Reading, Verify
  <1>1. PICK f \in Slices(req[b]) \cup IF req[b].op = "regen" THEN {} ELSE req[b].seen["backup"] :
           req' = [req EXCEPT ![b].pc = "passed", ![b].factor = f]
    BY DEF Verify
  <1>2. \/ f \in req[b].seen["backup"] /\ req[b].op # "regen"
        \/ f \in Slots /\ (req[b].seen["last"] = Null \/ f[2] > req[b].seen["last"])
    BY DEF Slices, Skew, Slots
  <1>3. f \in Nat \X Nat
    <2>1. req[b].seen["backup"] \in SUBSET CodesTo(minted)
      BY <1>0 DEF Aware, PrefIn
    <2>. QED
      BY <1>0, <1>2, <2>1, BoundsAreNumbers DEF Slots, CodesTo, StateOK
  <1>. DEFINE s == [req[b] EXCEPT !.pc = "passed", !.factor = f]
  <1>4. s \in Records
    BY <1>0, <1>3, RecordsUpdate DEF StateOK, PCs
  <1>5. /\ s.pc = "passed" /\ s.factor = f /\ s.seen = req[b].seen /\ s.tgt = req[b].tgt
        /\ s.op = req[b].op /\ s.who = req[b].who /\ s.gone = req[b].gone /\ s.stale = req[b].stale
    BY <1>0 DEF StateOK, Records
  <1>6. req' = [req EXCEPT ![b] = s]
    BY <1>0, <1>1 DEF StateOK
  <1>. HIDE DEF s
  <1>7. req'[b] = s /\ req' \in [Browsers -> Records] /\ \A c \in Browsers \ {b} : req'[c] = req[c]
    BY <1>0, <1>4, <1>6 DEF StateOK
  <1>8. Shaped(b)'
    BY <1>0, <1>5, <1>7 DEF Shaped, Verify, Idle, ProvingOps
  <1>9. Aware(b)' /\ Unused(b)' /\ Given(b)'
    <2>1. UNCHANGED <<pref, minted, used, adrift>>
      BY DEF Verify
    <2>. QED
      BY <1>0, <1>2, <1>5, <1>7, <2>1 DEF Aware, Unused, Given
  <1>10. StateOK'
    BY <1>0, <1>7 DEF Verify, StateOK, Codes
  <1>. QED
    BY <1>0, <1>7, <1>8, <1>9, <1>10, StepKeeps DEF Verify, RequestOK, StateOK

LEMMA VerifyNewKeeps == ASSUME IInv, NEW b \in Browsers, VerifyNew(b) PROVE IInv'
  <1>. USE DEF db, session, history
  <1>0. /\ StateOK /\ Shaped(b) /\ Aware(b) /\ Unused(b) /\ req[b].tgt \in Admins
        /\ req[b].pc = "read" /\ req[b].op \in EnrollingOps
    BY DEF IInv, RequestOK, Shaped, Reading, VerifyNew
  <1>1. PICK f \in {0} \X Skew : req' = [req EXCEPT ![b].pc = "passed", ![b].factor = f]
    BY DEF VerifyNew
  <1>2. f \in Nat \X Nat
    BY BoundsAreNumbers DEF Skew
  <1>. DEFINE s == [req[b] EXCEPT !.pc = "passed", !.factor = f]
  <1>3. s \in Records
    BY <1>0, <1>2, RecordsUpdate DEF StateOK, PCs
  <1>4. /\ s.pc = "passed" /\ s.seen = req[b].seen /\ s.tgt = req[b].tgt
        /\ s.op = req[b].op /\ s.who = req[b].who /\ s.gone = req[b].gone /\ s.stale = req[b].stale
    BY <1>0 DEF StateOK, Records
  <1>5. req' = [req EXCEPT ![b] = s]
    BY <1>0, <1>1 DEF StateOK
  <1>. HIDE DEF s
  <1>6. req'[b] = s /\ req' \in [Browsers -> Records] /\ \A c \in Browsers \ {b} : req'[c] = req[c]
    BY <1>0, <1>3, <1>5 DEF StateOK
  <1>7. Shaped(b)'
    BY <1>0, <1>4, <1>6 DEF Shaped, VerifyNew, Idle, EnrollingOps
  <1>8. Aware(b)' /\ Unused(b)' /\ Given(b)'
    <2>1. UNCHANGED <<pref, minted, used, adrift>>
      BY DEF VerifyNew
    <2>. QED
      BY <1>0, <1>4, <1>6, <2>1 DEF Aware, Unused, Given, ProvingOps, EnrollingOps
  <1>9. StateOK'
    BY <1>0, <1>6 DEF VerifyNew, StateOK, Codes
  <1>. QED
    BY <1>0, <1>6, <1>7, <1>8, <1>9, StepKeeps DEF VerifyNew, RequestOK, StateOK

\* The steps of no request.
LEMMA SameKeeps ==
  ASSUME IInv, Tick \/ ResetPassword \/ UNCHANGED vars
  PROVE  IInv'
  <1>. USE DEF db, session, history, vars
  <1>1. UNCHANGED <<born, rows, active, super, pref, session, req, minted, calls, history>>
    BY DEF Tick, ResetPassword
  <1>2. pw' \in [Admins -> [gen : 0..MaxPasswords, fresh : BOOLEAN]]
    <2>1. CASE ResetPassword
      BY <2>1, BoundsAreNumbers DEF ResetPassword, NewPassword, IInv, StateOK
    <2>2. CASE Tick \/ UNCHANGED vars
      BY <2>2 DEF Tick, IInv, StateOK
    <2>. QED
      BY <2>1, <2>2
  <1>3. slice' \in 1..MaxSlice
    BY BoundsAreNumbers DEF Tick, ResetPassword, IInv, StateOK
  <1>4. StateOK'
    BY <1>1, <1>2, <1>3 DEF IInv, StateOK, Codes
  <1>5. \A a \in Admins : AdminOK(a)'
    BY <1>1 DEF IInv, AdminOK
  <1>6. \A b \in Browsers : RequestOK(b)'
    BY <1>1 DEF IInv, RequestOK, Shaped, Aware, Unused, Given
  <1>. QED
    BY <1>4, <1>5, <1>6 DEF IInv

-----------------------------------------------------------------------------
(* The steps that write preferences.                                       *)

\* A flush that ends its request.
LEMMA FlushEndKeeps ==
  ASSUME IInv, NEW b \in Browsers, Reading(req[b]), NEW want, Flush(b, want, Idle),
         PrefIn(want, minted'), minted' \in 1..MaxMinted, minted <= minted',
         UNCHANGED <<db, slice, calls>>,
         identity' \in [Browsers -> born \cup {NoAdmin}],
         pending' \in [Browsers -> born \cup {NoAdmin}],
         verified' \in [Browsers -> BOOLEAN],
         \A c \in Browsers \ {b} : pending'[c] = pending[c] /\ verified'[c] = verified[c],
         \A x \in Admins \ {req[b].tgt} : used'[x] = used[x] /\ shown'[x] = shown[x],
         used' \in [Admins -> SUBSET (CodesTo(minted') \cup Slots)],
         shown' \in [Admins -> SUBSET CodesTo(minted')],
         Fits(b, want)
  PROVE  IInv'
  <1>0. minted' \in Nat /\ minted' <= MaxMinted
    BY BoundsAreNumbers
  <1>1. /\ \A a \in Admins : AdminOK(a)'
        /\ \A c \in Browsers \ {b} : RequestOK(c)'
        /\ pref' \in [Admins -> [Attributes -> Values]]
        /\ req' \in [Browsers -> Records] /\ req'[b] = Idle
        /\ adrift' \in [Admins -> BOOLEAN]
    BY <1>0, IdleIsRecord, FlushKeeps
  <1>2. RequestOK(b)'
    BY <1>1, IdleOK
  <1>3. StateOK'
    BY <1>1 DEF IInv, StateOK, db, Codes
  <1>. QED
    BY <1>1, <1>2, <1>3 DEF IInv

\* What is known at a flush of request b.
LEMMA AtFlush ==
  ASSUME IInv, NEW b \in Browsers, Reading(req[b])
  PROVE  /\ StateOK /\ Shaped(b) /\ Aware(b) /\ Unused(b) /\ Given(b)
         /\ req[b].tgt \in Admins /\ AdminOK(req[b].tgt)
         /\ PrefIn(req[b].seen, minted) /\ minted \in Nat /\ minted \in 1..MaxMinted
         /\ req[b].factor[1] \in Nat /\ req[b].factor[2] \in Nat
         /\ used[req[b].tgt] \subseteq CodesTo(minted) \cup Slots
  BY DEF IInv, RequestOK, Shaped, Reading, Aware, StateOK, Records, Codes

\* A new secret and its codes: enabling, enrolling, provisioning.
LEMMA FreshFits ==
  ASSUME IInv, NEW b \in Browsers, Reading(req[b]), NEW want,
         want \in {Fresh(req[b].seen), Unforced(Fresh(req[b].seen))},
         Show(b, want)
  PROVE  /\ PrefIn(want, minted') /\ minted' \in 1..MaxMinted /\ minted <= minted'
         /\ \A x \in Admins \ {req[b].tgt} : used'[x] = used[x] /\ shown'[x] = shown[x]
         /\ used' \in [Admins -> SUBSET (CodesTo(minted') \cup Slots)]
         /\ shown' \in [Admins -> SUBSET CodesTo(minted')]
         /\ Fits(b, want)
  <1>. DEFINE r == req[b]  a == r.tgt  B == Batch(minted + 1)
  <1>0. /\ StateOK /\ a \in Admins /\ PrefIn(r.seen, minted) /\ minted \in Nat
    BY AtFlush
  <1>1. minted < MaxMinted /\ minted' = minted + 1 /\ shown' = [shown EXCEPT ![a] = B]
    BY DEF Show
  <1>2. /\ B \subseteq CodesTo(minted + 1) /\ B \cap CodesTo(minted) = {} /\ B \in Values
        /\ B # {} /\ minted + 1 \in Values /\ Null # B /\ Null # minted + 1
    BY <1>0, <1>1, BatchIsNew
  <1>. HIDE DEF B
  <1>3. /\ want \in [Attributes -> Values] /\ want["secret"] = minted + 1 /\ want["backup"] = B
        /\ want["last"] = r.seen["last"]
    BY <1>0, <1>2 DEF Fresh, Unforced, PrefIn, Attributes, Values, B
  <1>4. want["secret"] # r.seen["secret"] /\ want["backup"] # r.seen["backup"]
    BY <1>0, <1>2, <1>3 DEF PrefIn
  <1>5. PrefIn(want, minted')
    BY <1>0, <1>1, <1>2, <1>3 DEF PrefIn
  <1>6. used' = [used EXCEPT ![a] = {}]
    BY <1>4 DEF Show
  <1>7. CodesTo(minted) \subseteq CodesTo(minted')
    BY <1>0, <1>1, CodesGrow
  <1>8. used' \in [Admins -> SUBSET (CodesTo(minted') \cup Slots)]
    BY <1>0, <1>6, <1>7 DEF StateOK, Codes
  <1>9. shown' \in [Admins -> SUBSET CodesTo(minted')]
    BY <1>0, <1>1, <1>2, <1>7 DEF StateOK, Codes
  <1>10. used'[a] = {} /\ shown'[a] = B
    BY <1>0, <1>1, <1>6 DEF StateOK
  <1>11. Fits(b, want)
    <2>1. ASSUME ~Drifts(r, want) PROVE Merged(r, want)["backup"] = B
      BY <1>3, <1>4, <2>1, FlushIsSound DEF Attributes
    <2>. QED
      BY <1>10, <2>1 DEF Fits, Below
  <1>12. \A x \in Admins \ {a} : used'[x] = used[x] /\ shown'[x] = shown[x]
    BY <1>0, <1>1, <1>6 DEF StateOK
  <1>13. minted' \in 1..MaxMinted /\ minted <= minted'
    BY <1>0, <1>1, BoundsAreNumbers
  <1>. QED
    BY <1>5, <1>8, <1>9, <1>11, <1>12, <1>13

LEMMA FreshKeeps ==
  ASSUME IInv, NEW b \in Browsers, PassEnrol(b) \/ Enable(b) \/ Provision(b)
  PROVE  IInv'
  <1>1. Reading(req[b])
    BY DEF PassEnrol, Enable, Provision, Reading
  <1>2. PICK want \in {Fresh(req[b].seen), Unforced(Fresh(req[b].seen))} :
           Flush(b, want, Idle) /\ Show(b, want)
    BY DEF PassEnrol, Enable, Provision
  <1>3. UNCHANGED <<db, slice, calls>>
    BY DEF PassEnrol, Enable, Provision
  <1>4. /\ identity' \in [Browsers -> born \cup {NoAdmin}]
        /\ pending' \in [Browsers -> born \cup {NoAdmin}]
        /\ verified' \in [Browsers -> BOOLEAN]
        /\ \A c \in Browsers \ {b} : pending'[c] = pending[c] /\ verified'[c] = verified[c]
    <2>0. StateOK /\ Shaped(b)
      BY DEF IInv, RequestOK
    <2>1. CASE UNCHANGED session
      BY <2>0, <2>1 DEF StateOK, session
    <2>2. CASE GrantPending(b) /\ req[b].op = "enrol" /\ req[b].pc = "passed"
      BY <2>0, <2>2 DEF StateOK, GrantPending, Shaped
    <2>. QED
      BY <2>1, <2>2 DEF PassEnrol, Enable, Provision
  <1>5. /\ PrefIn(want, minted') /\ minted' \in 1..MaxMinted /\ minted <= minted'
        /\ \A x \in Admins \ {req[b].tgt} : used'[x] = used[x] /\ shown'[x] = shown[x]
        /\ used' \in [Admins -> SUBSET (CodesTo(minted') \cup Slots)]
        /\ shown' \in [Admins -> SUBSET CodesTo(minted')]
        /\ Fits(b, want)
    BY <1>1, <1>2, FreshFits
  <1>. QED
    BY <1>1, <1>2, <1>3, <1>4, <1>5, FlushEndKeeps

\* The second factor is taken away; PrefIn keeps a record without a secret from
\* having codes.
LEMMA WithoutFits ==
  ASSUME IInv, NEW b \in Browsers, Reading(req[b]), NEW want,
         want \in {Without(req[b].seen), Unforced(Without(req[b].seen))},
         UNCHANGED <<used, shown>>
  PROVE  PrefIn(want, minted) /\ Fits(b, want)
  <1>. DEFINE r == req[b]  a == r.tgt  p == pref[a]  new == Merged(r, want)
  <1>0. /\ Unused(b) /\ Aware(b) /\ AdminOK(a) /\ PrefIn(r.seen, minted)
    BY AtFlush
  <1>1. /\ want \in [Attributes -> Values] /\ want["secret"] = Null /\ want["backup"] = Null
        /\ want["last"] = Null
    BY <1>0 DEF Without, Unforced, PrefIn, Attributes, Values
  <1>2. PrefIn(want, minted)
    BY <1>1 DEF PrefIn
  <1>3. ASSUME ~Drifts(r, want)
        PROVE  /\ ~adrift[a] /\ (new["secret"] # Null => p["secret"] # Null)
               /\ new["secret"] # Null => new["backup"] = shown[a] \ used[a] /\ Below(used[a], new["last"])
    <2>1. ~adrift[a]
      BY <1>1, <1>3, FlushIsSound
    <2>2. \A x \in {"secret", "backup", "last"} :
             IF r.seen[x] # Null THEN x \notin r.stale /\ p[x] = r.seen[x] /\ new[x] = Null
                                 ELSE new[x] = p[x]
      BY <1>1, <1>3, FlushIsSound DEF Attributes
    <2>3. new["secret"] # Null => r.seen["secret"] = Null /\ r.seen["backup"] = Null /\ p["secret"] # Null
      BY <1>0, <2>2 DEF PrefIn
    <2>4. ASSUME new["secret"] # Null PROVE new["backup"] = shown[a] \ used[a]
      BY <1>0, <2>1, <2>2, <2>3, <2>4 DEF AdminOK
    <2>5. ASSUME new["secret"] # Null PROVE Below(used[a], new["last"])
      <3>1. CASE r.seen["last"] = Null
        BY <1>0, <2>1, <2>2, <2>3, <2>5, <3>1 DEF AdminOK
      <3>2. CASE r.seen["last"] # Null
        BY <1>0, <2>1, <2>2, <2>3, <2>5, <3>2 DEF Unused, Below
      <3>. QED
        BY <3>1, <3>2
    <2>. QED
      BY <2>1, <2>3, <2>4, <2>5
  <1>4. Fits(b, want)
    BY <1>3 DEF Fits
  <1>. QED
    BY <1>2, <1>4

\* Where one admin's history is all that a step has of it.
LEMMA SameTypes ==
  ASSUME IInv, UNCHANGED <<minted, used, shown>>
  PROVE  /\ used' \in [Admins -> SUBSET (CodesTo(minted') \cup Slots)]
         /\ shown' \in [Admins -> SUBSET CodesTo(minted')]
         /\ minted' \in 1..MaxMinted /\ minted \in Nat /\ minted' = minted
  BY BoundsAreNumbers DEF IInv, StateOK, Codes

LEMMA DisableKeeps == ASSUME IInv, NEW b \in Browsers, Disable(b) PROVE IInv'
  <1>1. /\ Reading(req[b]) /\ Flush(b, Without(req[b].seen), Idle)
        /\ UNCHANGED <<db, session, slice, minted, calls, used, enrolledBy, shown>>
    BY DEF Disable, Reading
  <1>2. PrefIn(Without(req[b].seen), minted) /\ Fits(b, Without(req[b].seen))
    BY <1>1, WithoutFits
  <1>3. /\ identity' \in [Browsers -> born \cup {NoAdmin}]
        /\ pending' \in [Browsers -> born \cup {NoAdmin}]
        /\ verified' \in [Browsers -> BOOLEAN]
        /\ \A c \in Browsers : pending'[c] = pending[c] /\ verified'[c] = verified[c]
    BY <1>1 DEF session, IInv, StateOK
  <1>. HIDE DEF Without
  <1>. QED
    BY <1>1, <1>2, <1>3, SameTypes, FlushEndKeeps

LEMMA SetForceKeeps == ASSUME IInv, NEW b \in Browsers, SetForce(b) PROVE IInv'
  <1>. DEFINE r == req[b]  a == r.tgt  p == pref[a]
  <1>1. PICK want \in {[r.seen EXCEPT !["force"] = TRUE], Unforced(r.seen)} : Flush(b, want, Idle)
    BY DEF SetForce
  <1>2. Reading(r) /\ UNCHANGED <<db, session, slice, minted, calls, used, enrolledBy, shown>>
    BY DEF SetForce, Reading
  <1>3. AdminOK(a) /\ PrefIn(r.seen, minted)
    BY <1>2, AtFlush
  <1>4. /\ want \in [Attributes -> Values]
        /\ \A x \in {"secret", "backup", "last"} : want[x] = r.seen[x]
    BY <1>3 DEF Unforced, PrefIn, Attributes, Values
  <1>5. PrefIn(want, minted)
    BY <1>3, <1>4 DEF PrefIn
  <1>6. ASSUME ~Drifts(r, want)
        PROVE  ~adrift[a] /\ \A x \in {"secret", "backup", "last"} : Merged(r, want)[x] = p[x]
    BY <1>2, <1>4, <1>6, FlushIsSound DEF Attributes
  <1>7. Fits(b, want)
    BY <1>2, <1>3, <1>6 DEF Fits, AdminOK
  <1>8. /\ identity' \in [Browsers -> born \cup {NoAdmin}]
        /\ pending' \in [Browsers -> born \cup {NoAdmin}]
        /\ verified' \in [Browsers -> BOOLEAN]
        /\ \A c \in Browsers : pending'[c] = pending[c] /\ verified'[c] = verified[c]
    BY <1>2 DEF session, IInv, StateOK
  <1>. QED
    BY <1>1, <1>2, <1>5, <1>7, <1>8, SameTypes, FlushEndKeeps

LEMMA RecoverKeeps == ASSUME IInv, NEW b \in Browsers, Recover(b) PROVE IInv'
  <1>. DEFINE r == req[b]  a == r.tgt  p == pref[a]  want == Unforced(Without(r.seen))
              s == [r EXCEPT !.pc = "checked", !.seen = want]
  <1>1. /\ Reading(r) /\ r.op = "login" /\ r.pc = "read" /\ Flush(b, want, s)
        /\ UNCHANGED <<db, session, slice, minted, calls, used, enrolledBy, shown>>
    BY DEF Recover, Reading
  <1>2. PrefIn(want, minted) /\ Fits(b, want)
    BY <1>1, WithoutFits
  <1>3. StateOK /\ Shaped(b) /\ Aware(b) /\ Unused(b) /\ PrefIn(r.seen, minted) /\ a \in Admins
    BY <1>1, AtFlush
  <1>4. want = NoPrefs
    BY <1>3 DEF Without, Unforced, NoPrefs, PrefIn, Attributes
  <1>5. r \in Records
    BY <1>3 DEF StateOK
  <1>. HIDE DEF want
  <1>6. s \in Records
    BY <1>4, <1>5, RecordsUpdate, IdleIsRecord DEF PCs
  <1>7. /\ s.pc = "checked" /\ s.seen = NoPrefs /\ s.tgt = a /\ s.op = r.op /\ s.who = r.who
        /\ s.gone = r.gone /\ s.stale = r.stale
    BY <1>4, <1>5 DEF Records
  <1>. HIDE DEF s
  <1>8. /\ \A x \in Admins : AdminOK(x)'
        /\ \A c \in Browsers \ {b} : RequestOK(c)'
        /\ pref' \in [Admins -> [Attributes -> Values]]
        /\ req' \in [Browsers -> Records] /\ req'[b] = s
        /\ pref'[a] = Merged(r, want)
        /\ adrift' \in [Admins -> BOOLEAN]
        /\ adrift'[a] = Drifts(r, want)
    <2>1. minted' <= MaxMinted /\ minted' \in Nat /\ minted <= minted'
      BY <1>1, SameTypes, BoundsAreNumbers
    <2>2. PrefIn(want, minted')
      BY <1>1, <1>2
    <2>3. \A c \in Browsers : pending'[c] = pending[c] /\ verified'[c] = verified[c]
      BY <1>1 DEF session
    <2>4. \A x \in Admins : used'[x] = used[x] /\ shown'[x] = shown[x]
      BY <1>1
    <2>. QED
      BY <1>1, <1>2, <1>6, <2>1, <2>2, <2>3, <2>4, SameTypes, FlushKeeps
  <1>9. StateOK'
    BY <1>1, <1>3, <1>8 DEF StateOK, db, session, Codes
  <1>10. Shaped(b)'
    BY <1>1, <1>3, <1>7, <1>8 DEF Shaped, db, session, NoPrefs, Attributes
  <1>11. Aware(b)'
    <2>1. PrefIn(NoPrefs, minted')
      BY <1>1, <1>2, <1>4
    <2>2. \A x \in Attributes \ r.stale : Merged(r, want)[x] = Null
      BY <1>3, <1>4 DEF Merged, Changed, Aware, NoPrefs
    <2>. QED
      BY <1>3, <1>7, <1>8, <2>1, <2>2 DEF Aware, NoPrefs
  <1>12. Unused(b)'
    <2>. SUFFICES ASSUME ~Drifts(r, want), Merged(r, want)["secret"] # Null, "last" \notin r.stale
                  PROVE  \A f \in used[a] : f[1] # 0
      BY <1>1, <1>7, <1>8 DEF Unused, NoPrefs, Attributes
    <2>1. ~adrift[a] /\ r.seen["secret"] = Null /\ p["secret"] # Null
      BY <1>1, <1>4, FlushIsSound DEF NoPrefs, Attributes
    <2>. QED
      BY <1>3, <2>1 DEF Unused
  <1>13. Given(b)'
    BY <1>7, <1>8 DEF Given
  <1>. QED
    BY <1>8, <1>9, <1>10, <1>11, <1>12, <1>13 DEF IInv, RequestOK

\* What a request that has its code wants of the record: a backup code leaves
\* the list, or the slice becomes the last one.
LEMMA SpendOK ==
  ASSUME IInv, NEW b \in Browsers, req[b].pc = "passed", req[b].op \in ProvingOps
  PROVE  LET r == req[b]  f == r.factor  want == Spend(r) IN
         /\ r.seen["secret"] # Null /\ PrefIn(want, minted)
         /\ want["secret"] = r.seen["secret"] /\ want["force"] = r.seen["force"]
         /\ \/ /\ f \in r.seen["backup"] /\ f[1] # 0 /\ f \notin Slots
               /\ want["backup"] = r.seen["backup"] \ {f} /\ want["last"] = r.seen["last"]
            \/ /\ f \in Slots /\ f[1] = 0 /\ f[2] \in 1..MaxSlice
               /\ r.seen["last"] = Null \/ f[2] > r.seen["last"]
               /\ want["backup"] = r.seen["backup"] /\ want["last"] = f[2]
         /\ r.op = "regen" => f \in Slots
  <1>. DEFINE r == req[b]  f == r.factor  want == Spend(r)
  <1>0. PrefIn(r.seen, minted) /\ Given(b) /\ minted \in Nat /\ minted \in 1..MaxMinted
    BY AtFlush DEF Reading
  <1>1. r.seen["secret"] # Null /\ r.seen["backup"] \in SUBSET CodesTo(minted)
    BY <1>0 DEF Given, PrefIn
  <1>2. \/ f \in r.seen["backup"] /\ r.op # "regen"
        \/ f \in Slots /\ (r.seen["last"] = Null \/ f[2] > r.seen["last"])
    BY <1>0 DEF Given
  <1>3. CASE f \in r.seen["backup"] /\ r.op # "regen"
    <2>1. f[1] \in 1..minted /\ f[1] # 0 /\ f \notin Slots /\ IsCode(f)
      BY <1>0, <1>1, <1>3 DEF CodesTo, Slots, IsCode
    <2>2. want = [r.seen EXCEPT !["backup"] = @ \ {f}]
      BY <2>1 DEF Spend
    <2>3. /\ r.seen["backup"] \ {f} \in SUBSET CodesTo(minted) /\ r.seen["backup"] \ {f} \in Values
          /\ r.seen["backup"] \ {f} # Null
      <3>. DEFINE S == r.seen["backup"]
      <3>1. minted \in Nat /\ minted <= MaxMinted /\ S \in SUBSET CodesTo(minted)
        BY <1>0, <1>1, BoundsAreNumbers
      <3>. HIDE DEF S, f
      <3>2. S \ {f} \in SUBSET CodesTo(minted) /\ S \ {f} \in Values /\ S \ {f} # Null
        BY <3>1, SpentIsList
      <3>. QED
        BY <3>2 DEF S
    <2>4. /\ want \in [Attributes -> Values] /\ want["secret"] = r.seen["secret"]
          /\ want["force"] = r.seen["force"] /\ want["last"] = r.seen["last"]
          /\ want["backup"] = r.seen["backup"] \ {f}
      BY <1>0, <2>2, <2>3 DEF PrefIn, Attributes
    <2>. HIDE DEF want
    <2>5. PrefIn(want, minted)
      <3>1. want["secret"] # Null /\ want["backup"] # Null
        BY <1>1, <2>3, <2>4
      <3>2. want["backup"] \in SUBSET CodesTo(minted)
        BY <2>3, <2>4
      <3>. QED
        BY <1>0, <2>4, <3>1, <3>2 DEF PrefIn
    <2>. QED
      BY <1>1, <1>3, <2>1, <2>4, <2>5 DEF want
  <1>4. CASE f \in Slots /\ (r.seen["last"] = Null \/ f[2] > r.seen["last"])
    <2>1. f[1] = 0 /\ f[2] \in 1..MaxSlice /\ ~IsCode(f)
      BY <1>4 DEF Slots, IsCode
    <2>2. want = [r.seen EXCEPT !["last"] = f[2]]
      BY <2>1 DEF Spend
    <2>3. f[2] \in Values
      <3>1. f[2] \in Nat
        BY <2>1, BoundsAreNumbers
      <3>. QED
        BY <3>1, Zenon DEF Values
    <2>4. /\ want \in [Attributes -> Values] /\ want["secret"] = r.seen["secret"]
          /\ want["force"] = r.seen["force"] /\ want["backup"] = r.seen["backup"]
          /\ want["last"] = f[2]
      BY <1>0, <2>2, <2>3 DEF PrefIn, Attributes
    <2>. HIDE DEF want
    <2>5. PrefIn(want, minted)
      BY <1>0, <2>1, <2>4 DEF PrefIn
    <2>. QED
      BY <1>1, <1>4, <2>1, <2>4, <2>5 DEF want
  <1>. QED
    BY <1>2, <1>3, <1>4

LEMMA PassTotpKeeps == ASSUME IInv, NEW b \in Browsers, PassTotp(b) PROVE IInv'
  <1>. DEFINE r == req[b]  a == r.tgt  p == pref[a]  f == r.factor  want == Spend(r)
              new == Merged(r, want)
  <1>1. /\ Reading(r) /\ r.pc = "passed" /\ r.op = "totp" /\ Flush(b, want, Idle)
        /\ used' = [used EXCEPT ![a] = @ \cup {f}]
        /\ UNCHANGED <<db, slice, minted, calls, enrolledBy, shown>>
    BY DEF PassTotp, Accept, Reading
  <1>2. /\ StateOK /\ Shaped(b) /\ a \in Admins /\ AdminOK(a) /\ PrefIn(r.seen, minted) /\ PrefIn(p, minted)
        /\ a \in born
    BY <1>1, AtFlush DEF AdminOK, Shaped
  <1>3. /\ r.seen["secret"] # Null /\ PrefIn(want, minted)
        /\ want["secret"] = r.seen["secret"]
        /\ \/ /\ f \in r.seen["backup"] /\ f[1] # 0 /\ f \notin Slots
              /\ want["backup"] = r.seen["backup"] \ {f} /\ want["last"] = r.seen["last"]
           \/ /\ f \in Slots /\ f[1] = 0 /\ f[2] \in 1..MaxSlice
              /\ r.seen["last"] = Null \/ f[2] > r.seen["last"]
              /\ want["backup"] = r.seen["backup"] /\ want["last"] = f[2]
    BY <1>1, SpendOK DEF ProvingOps
  <1>4. used'[a] = used[a] \cup {f} /\ \A x \in Admins \ {a} : used'[x] = used[x]
    BY <1>1, <1>2 DEF StateOK
  <1>5. ASSUME ~Drifts(r, want)
        PROVE  /\ ~adrift[a] /\ (new["secret"] # Null => p["secret"] # Null)
               /\ \A g \in used'[a] \ used[a] :
                    IF g \in Slots THEN new["last"] # p["last"] ELSE new["backup"] # p["backup"]
               /\ new["secret"] # Null =>
                    new["backup"] = shown[a] \ used'[a] /\ Below(used'[a], new["last"])
    <2>1. /\ ~adrift[a] /\ new["secret"] = p["secret"]
          /\ \A x \in {"backup", "last"} :
               IF want[x] # r.seen[x] THEN p[x] = r.seen[x] /\ new[x] = want[x] ELSE new[x] = p[x]
      BY <1>1, <1>3, <1>5, FlushIsSound DEF Attributes
    <2>. HIDE DEF new, want
    <2>2. CASE /\ f \in r.seen["backup"] /\ f[1] # 0 /\ f \notin Slots
               /\ want["backup"] = r.seen["backup"] \ {f} /\ want["last"] = r.seen["last"]
      <3>1. new["backup"] = p["backup"] \ {f} /\ f \in p["backup"] /\ new["last"] = p["last"]
        BY <2>1, <2>2
      <3>2. ASSUME new["secret"] # Null
            PROVE  new["backup"] = shown[a] \ used'[a] /\ Below(used'[a], new["last"])
        BY <1>2, <1>4, <2>1, <2>2, <3>1, <3>2 DEF AdminOK, Below
      <3>. QED
        BY <1>4, <2>1, <2>2, <3>1, <3>2
    <2>3. CASE /\ f \in Slots /\ f[1] = 0 /\ f[2] \in 1..MaxSlice
               /\ r.seen["last"] = Null \/ f[2] > r.seen["last"]
               /\ want["backup"] = r.seen["backup"] /\ want["last"] = f[2]
      <3>1. f[2] # Null /\ f[2] \in Nat /\ want["last"] # r.seen["last"]
        BY <1>2, <2>3, NullIsFresh, BoundsAreNumbers DEF PrefIn
      <3>2. new["last"] = f[2] /\ p["last"] = r.seen["last"] /\ new["backup"] = p["backup"]
        BY <2>1, <2>3, <3>1
      <3>3. ASSUME new["secret"] # Null
            PROVE  /\ p["backup"] = shown[a] \ used[a] /\ f \notin p["backup"]
                   /\ Below(used[a], p["last"])
        BY <1>2, <2>1, <2>3, <3>3, <3>2 DEF AdminOK, PrefIn, CodesTo
      <3>4. ASSUME new["secret"] # Null PROVE Below(used'[a], f[2])
        <4>1. \A g \in used[a] : g[1] = 0 => g[2] \in Nat
          BY <1>2 DEF StateOK, Codes, CodesTo, Slots
        <4>2. p["last"] = Null \/ p["last"] \in Nat
          BY <1>2 DEF PrefIn
        <4>. QED
          BY <1>4, <2>3, <3>1, <3>2, <3>3, <3>4, <4>1, <4>2 DEF Below
      <3>. QED
        BY <1>4, <2>1, <2>3, <3>1, <3>2, <3>3, <3>4
    <2>. QED
      BY <1>3, <2>2, <2>3 DEF want
  <1>. HIDE DEF want
  <1>6. Fits(b, want)
    BY <1>1, <1>5 DEF Fits
  <1>7. f \in Codes \cup Slots
    BY <1>1, FactorIsCode DEF ProvingOps
  <1>8. used' \in [Admins -> SUBSET (CodesTo(minted') \cup Slots)] /\ minted' = minted
    BY <1>1, <1>2, <1>7 DEF StateOK, Codes
  <1>9. shown' \in [Admins -> SUBSET CodesTo(minted')] /\ minted' \in 1..MaxMinted /\ minted <= minted'
    BY <1>1, <1>2, BoundsAreNumbers DEF StateOK, Codes
  <1>10. /\ identity' \in [Browsers -> born \cup {NoAdmin}]
         /\ pending' \in [Browsers -> born \cup {NoAdmin}]
         /\ verified' \in [Browsers -> BOOLEAN]
         /\ \A c \in Browsers \ {b} : pending'[c] = pending[c] /\ verified'[c] = verified[c]
    BY <1>2 DEF PassTotp, GrantPending, StateOK
  <1>11. \A x \in Admins \ {a} : used'[x] = used[x] /\ shown'[x] = shown[x]
    BY <1>1, <1>4
  <1>12. UNCHANGED <<db, slice, calls>> /\ PrefIn(want, minted')
    BY <1>1, <1>3, <1>8
  <1>. QED
    BY <1>1, <1>6, <1>8, <1>9, <1>10, <1>11, <1>12, FlushEndKeeps

LEMMA RegenerateKeeps == ASSUME IInv, NEW b \in Browsers, Regenerate(b) PROVE IInv'
  <1>. DEFINE r == req[b]  a == r.tgt  p == pref[a]  f == r.factor  B == Batch(minted + 1)
              want == [Spend(r) EXCEPT !["backup"] = B]  new == Merged(r, want)
  <1>1. /\ Reading(r) /\ r.pc = "passed" /\ r.op = "regen" /\ Flush(b, want, Idle) /\ Show(b, want)
        /\ UNCHANGED <<db, session, slice, calls>>
    BY DEF Regenerate, Reading
  <1>2. /\ StateOK /\ a \in Admins /\ AdminOK(a) /\ PrefIn(r.seen, minted) /\ PrefIn(p, minted)
        /\ minted \in Nat
    BY <1>1, AtFlush DEF AdminOK
  <1>3. minted < MaxMinted /\ minted' = minted + 1 /\ shown' = [shown EXCEPT ![a] = B]
    BY <1>1 DEF Show
  <1>4. /\ B \subseteq CodesTo(minted + 1) /\ B \cap CodesTo(minted) = {} /\ B \in Values
        /\ B # {} /\ Null # B
    BY <1>2, <1>3, BatchIsNew
  <1>5. /\ r.seen["secret"] # Null /\ PrefIn(Spend(r), minted)
        /\ Spend(r)["secret"] = r.seen["secret"] /\ Spend(r)["last"] = f[2]
        /\ f \in Slots /\ f[1] = 0 /\ f[2] \in 1..MaxSlice
        /\ r.seen["last"] = Null \/ f[2] > r.seen["last"]
    BY <1>1, SpendOK DEF ProvingOps
  <1>. HIDE DEF B
  <1>6. /\ want \in [Attributes -> Values] /\ want["secret"] = r.seen["secret"]
        /\ want["last"] = f[2] /\ want["backup"] = B
    BY <1>4, <1>5 DEF PrefIn, Attributes
  <1>. HIDE DEF want
  <1>7. PrefIn(want, minted')
    <2>1. want["secret"] \in 1..minted' /\ want["secret"] # Null
      BY <1>2, <1>3, <1>5, <1>6 DEF PrefIn
    <2>2. want["backup"] \in SUBSET CodesTo(minted') /\ want["backup"] # Null
      BY <1>3, <1>4, <1>6
    <2>. QED
      BY <1>5, <1>6, <2>1, <2>2 DEF PrefIn
  <1>8. used' = [used EXCEPT ![a] = @ \cup {f}]
    BY <1>1, <1>6 DEF Show
  <1>9. used'[a] = used[a] \cup {f} /\ shown'[a] = B
    BY <1>2, <1>3, <1>8 DEF StateOK
  <1>10. \A x \in Admins \ {a} : used'[x] = used[x] /\ shown'[x] = shown[x]
    BY <1>2, <1>3, <1>8 DEF StateOK
  <1>11. CodesTo(minted) \subseteq CodesTo(minted') /\ used[a] \subseteq CodesTo(minted) \cup Slots
    BY <1>2, <1>3, CodesGrow DEF StateOK, Codes
  <1>12. used' \in [Admins -> SUBSET (CodesTo(minted') \cup Slots)]
    BY <1>2, <1>5, <1>8, <1>11 DEF StateOK, Codes
  <1>13. shown' \in [Admins -> SUBSET CodesTo(minted')]
    BY <1>2, <1>3, <1>4, <1>11 DEF StateOK, Codes
  <1>14. ASSUME ~Drifts(r, want)
         PROVE  /\ ~adrift[a] /\ (new["secret"] # Null => p["secret"] # Null)
                /\ new["last"] # p["last"] /\ \A g \in used'[a] \ used[a] : g = f
                /\ new["secret"] # Null =>
                     new["backup"] = shown'[a] \ used'[a] /\ Below(used'[a], new["last"])
    <2>1. f[2] # Null /\ f[2] \in Nat /\ want["last"] # r.seen["last"] /\ want["backup"] # r.seen["backup"]
      BY <1>2, <1>4, <1>5, <1>6, NullIsFresh, BoundsAreNumbers DEF PrefIn
    <2>2. /\ ~adrift[a] /\ new["secret"] = p["secret"] /\ new["backup"] = B
          /\ p["last"] = r.seen["last"] /\ new["last"] = f[2]
      BY <1>1, <1>6, <1>14, <2>1, FlushIsSound DEF Attributes
    <2>. HIDE DEF new
    <2>3. shown'[a] \ used'[a] = B
      BY <1>4, <1>5, <1>9, <1>11, <1>3, <1>2 DEF Slots, CodesTo
    <2>4. ASSUME new["secret"] # Null PROVE Below(used'[a], f[2])
      <3>1. \A g \in used[a] : g[1] = 0 => g[2] \in Nat
        BY <1>11 DEF CodesTo, Slots
      <3>2. p["last"] = Null \/ p["last"] \in Nat
        BY <1>2 DEF PrefIn
      <3>3. Below(used[a], p["last"])
        BY <1>2, <2>2, <2>4 DEF AdminOK
      <3>. QED
        BY <1>5, <1>9, <2>1, <2>2, <3>1, <3>2, <3>3 DEF Below
    <2>. QED
      BY <1>5, <1>6, <1>9, <2>1, <2>2, <2>3, <2>4
  <1>15. Fits(b, want)
    BY <1>5, <1>14 DEF Fits
  <1>16. /\ identity' \in [Browsers -> born \cup {NoAdmin}]
         /\ pending' \in [Browsers -> born \cup {NoAdmin}]
         /\ verified' \in [Browsers -> BOOLEAN]
         /\ \A c \in Browsers : pending'[c] = pending[c] /\ verified'[c] = verified[c]
    BY <1>1, <1>2 DEF session, StateOK
  <1>17. minted' \in 1..MaxMinted /\ minted <= minted' /\ UNCHANGED <<db, slice, calls>>
    BY <1>1, <1>2, <1>3, BoundsAreNumbers
  <1>. QED
    BY <1>1, <1>7, <1>10, <1>12, <1>13, <1>15, <1>16, <1>17, FlushEndKeeps

LEMMA PurgeKeeps == ASSUME IInv, NEW b \in Browsers, Purge(b) PROVE IInv'
  <1>. DEFINE t == req[b].tgt
  <1>1. /\ pref' = [pref EXCEPT ![t] = NoPrefs] /\ Reading(req[b])
        /\ rows' = rows \ {t} /\ active' = active \ {t} /\ super' = super \ {t}
        /\ req' = [Overtaken(b, t, NoPrefs) EXCEPT ![b] = Idle]
        /\ UNCHANGED <<born, pw, session, slice, minted, calls, history>>
    BY DEF Purge, Reading
  <1>2. StateOK /\ t \in Admins
    BY <1>1, AtFlush
  <1>3. /\ req' \in [Browsers -> Records] /\ req'[b] = Idle
        /\ \A c \in Browsers \ {b} : req'[c] = Overtaken(b, t, NoPrefs)[c]
    BY <1>1, OvertakenOK, IdleIsRecord
  <1>4. pref' \in [Admins -> [Attributes -> Values]]
    BY <1>1, <1>2, IdleIsRecord DEF StateOK
  <1>5. StateOK'
    BY <1>1, <1>2, <1>3, <1>4 DEF StateOK, session, history, Codes
  <1>6. ASSUME NEW x \in Admins PROVE AdminOK(x)'
    <2>1. CASE x = t
      <3>1. pref'[t] = NoPrefs /\ minted' \in Nat
        BY <1>1, <1>2 DEF StateOK
      <3>2. PrefIn(NoPrefs, minted')
        BY <3>1, NoPrefsOK
      <3>3. NoPrefs["secret"] = Null
        BY DEF NoPrefs, Attributes
      <3>. QED
        BY <2>1, <3>1, <3>2, <3>3 DEF AdminOK
    <2>2. CASE x # t
      BY <1>1, <1>2, <2>2 DEF IInv, AdminOK, StateOK, history
    <2>. QED
      BY <2>1, <2>2
  <1>7. \A c \in Browsers \ {b} : RequestOK(c)'
    <2>1. PrefIn(NoPrefs, minted') /\ minted' \in Nat /\ minted <= minted' /\ UNCHANGED born
      BY <1>1, <1>2, NoPrefsOK DEF StateOK
    <2>2. \A c \in Browsers \ {b} : /\ req'[c] = Overtaken(b, t, NoPrefs)[c]
                                   /\ pending'[c] = pending[c] /\ verified'[c] = verified[c]
      BY <1>1, <1>3 DEF session
    <2>3. /\ \A x \in Admins : adrift'[x] = adrift[x] /\ used'[x] = used[x]
          /\ used'[t] \subseteq CodesTo(minted') \cup Slots
      BY <1>1, <1>2 DEF history, StateOK, Codes
    <2>4. NoPrefs["secret"] = Null
      BY DEF NoPrefs, Attributes
    <2>5. ~adrift'[t] =>
            \/ used'[t] = {}
            \/ /\ ~adrift[t] /\ (NoPrefs["secret"] # Null => pref[t]["secret"] # Null)
               /\ \A f \in used'[t] \ used[t] :
                    IF f \in Slots THEN NoPrefs["last"] # pref[t]["last"]
                                   ELSE NoPrefs["backup"] # pref[t]["backup"]
      BY <1>2, <2>3, <2>4
    <2>6. pref' = [pref EXCEPT ![t] = NoPrefs]
      BY <1>1
    <2>. HIDE DEF t, NoPrefs
    <2>. QED
      BY <1>2, <2>1, <2>2, <2>3, <2>5, <2>6, OthersKeep
  <1>8. RequestOK(b)'
    BY <1>3, IdleOK
  <1>. QED
    BY <1>5, <1>6, <1>7, <1>8 DEF IInv

-----------------------------------------------------------------------------
(* The invariant.                                                          *)

LEMMA InitIsOK == Init => IInv
  <1>. SUFFICES ASSUME Init PROVE IInv
    OBVIOUS
  <1>1. /\ Batch(1) \subseteq CodesTo(1) /\ Batch(1) \in Values /\ 1 \in Values
        /\ Null # Batch(1) /\ Null # 1
    <2>1. 0 \in Nat /\ 0 < MaxMinted /\ 0 + 1 = 1
      BY BoundsAreNumbers
    <2>. QED
      BY <2>1, BatchIsNew
  <1>. DEFINE Holder == [NoPrefs EXCEPT !["secret"] = 1, !["backup"] = Batch(1)]
  <1>. HIDE DEF Batch
  <1>2. /\ Holder \in [Attributes -> Values] /\ Holder["secret"] = 1 /\ Holder["backup"] = Batch(1)
        /\ Holder["last"] = Null
    BY <1>1, IdleIsRecord DEF NoPrefs, Attributes
  <1>3. PrefIn(Holder, 1) /\ PrefIn(NoPrefs, 1)
    BY <1>1, <1>2, NoPrefsOK DEF PrefIn
  <1>4. \A a \in Admins : /\ pref[a] = IF a \in rows \cap Enrolled THEN Holder ELSE NoPrefs
                          /\ shown[a] = IF a \in rows \cap Enrolled THEN Batch(1) ELSE {}
                          /\ used[a] = {} /\ ~adrift[a]
    BY DEF Init
  <1>. HIDE DEF Holder
  <1>5. pref \in [Admins -> [Attributes -> Values]] /\ shown \in [Admins -> SUBSET Codes]
    BY <1>1, <1>2, <1>4, IdleIsRecord DEF Init, Codes
  <1>6. /\ pw \in [Admins -> [gen : 0..MaxPasswords, fresh : BOOLEAN]]
        /\ req \in [Browsers -> Records] /\ slice \in 1..MaxSlice /\ minted \in 1..MaxMinted
    BY IdleIsRecord, BoundsAreNumbers DEF Init
  <1>7. StateOK
    <2>1. /\ born \subseteq Admins /\ rows = born /\ active = born /\ super = born
          /\ identity \in [Browsers -> born \cup {NoAdmin}] /\ pending \in [Browsers -> born \cup {NoAdmin}]
      BY DEF Init
    <2>2. verified \in [Browsers -> BOOLEAN]
      BY DEF Init
    <2>3. used \in [Admins -> SUBSET (Codes \cup Slots)] /\ adrift \in [Admins -> BOOLEAN] /\ calls \in Nat
      BY DEF Init
    <2>. QED
      BY <1>5, <1>6, <2>1, <2>2, <2>3 DEF StateOK
  <1>8. \A a \in Admins : AdminOK(a)
    BY <1>2, <1>3, <1>4 DEF Init, AdminOK, Below, NoPrefs, Attributes
  <1>9. \A b \in Browsers : RequestOK(b)
    BY DEF Init, RequestOK, Shaped, Reading, Idle, OtherOps
  <1>. QED
    BY <1>7, <1>8, <1>9 DEF IInv

LEMMA NextKeeps == IInv /\ [Next]_vars => IInv'
  <1>. SUFFICES ASSUME IInv, [Next]_vars PROVE IInv'
    OBVIOUS
  <1>1. CASE Tick \/ ResetPassword \/ UNCHANGED vars
    BY <1>1, SameKeeps
  <1>2. ASSUME NEW b \in Browsers,
               \/ \E a \in Admins : BeginLogin(b, a)
               \/ BeginSecond(b) \/ BeginOwn(b) \/ BeginOther(b) \/ BeginAdd(b) \/ BeginSetup(b)
        PROVE  IInv'
    BY <1>2, BeginsKeep
  <1>3. ASSUME NEW b \in Browsers,
               \/ Abandon(b) \/ Logout(b) \/ Rehash(b) \/ Read(b) \/ Verify(b) \/ VerifyNew(b)
        PROVE  IInv'
    BY <1>3, LeaveKeeps, RehashKeeps, ReadKeeps, VerifyKeeps, VerifyNewKeeps
  <1>4. ASSUME NEW b \in Browsers,
               \/ Fails(b) \/ Park(b) \/ Grant(b) \/ PassTotpUnsaved(b)
               \/ Toggle(b) \/ ChangePassword(b) \/ Insert(b)
        PROVE  IInv'
    BY <1>4, EndsKeep
  <1>5. ASSUME NEW b \in Browsers,
               \/ Recover(b) \/ PassTotp(b) \/ PassEnrol(b) \/ Enable(b) \/ Disable(b)
               \/ Regenerate(b) \/ Provision(b) \/ SetForce(b) \/ Purge(b)
        PROVE  IInv'
    BY <1>5, RecoverKeeps, PassTotpKeeps, FreshKeeps, DisableKeeps, RegenerateKeeps,
       SetForceKeeps, PurgeKeeps
  <1>. QED
    BY <1>1, <1>2, <1>3, <1>4, <1>5 DEF Next

\* Whatever the requests in flight do to the preferences they have read, the
\* records nobody wrote over stay consistent with what was shown and used.
THEOREM Inductive == Spec => []IInv
  BY InitIsOK, NextKeeps, PTL DEF Spec

-----------------------------------------------------------------------------
(* The properties.                                                         *)

\* Rows, sessions and requests keep their types: no flag without its row, no
\* backup codes without a secret, no preferences without their admin.
THEOREM TypeCorrect == Spec => []TypeOK
  <1>1. IInv => TypeOK
    <2>. SUFFICES ASSUME IInv PROVE TypeOK
      OBVIOUS
    <2>1. ASSUME NEW a \in Admins
          PROVE  /\ pref[a]["secret"] \in {Null} \cup (1..MaxMinted)
                 /\ pref[a]["last"] \in {Null} \cup (1..MaxSlice)
                 /\ pref[a]["secret"] = Null <=> pref[a]["backup"] = Null
                 /\ a \notin rows => pref[a] = NoPrefs
      BY BoundsAreNumbers DEF IInv, AdminOK, PrefIn, StateOK
    <2>2. ASSUME NEW b \in Browsers
          PROVE  /\ req[b].pc \in {"idle", "rehash", "begun", "read", "checked", "passed"}
                 /\ req[b].pc = "idle" <=> req[b] = Idle
                 /\ req[b].op \in Ops \cup {"none"}
      BY DEF IInv, RequestOK, Shaped, StateOK, Records, PCs, Idle
    <2>. QED
      BY <2>1, <2>2 DEF IInv, StateOK, TypeOK
  <1>. QED
    BY <1>1, Inductive, PTL

\* A TOTP slice or a backup code that verifyForAdmin or consumeBackupCode has
\* accepted of a secret they accept again only when an earlier write was lost.
\* Of the code typed at the enrolment of the secret this says nothing: that one
\* is accepted once more.
THEOREM CodesUsedOnce == Spec => []OneUse
  <1>1. IInv => OneUse
    <2>. SUFFICES ASSUME IInv, NEW b \in Browsers, req[b].pc = "passed",
                         req[b].op \in ProvingOps, req[b].factor \in used[req[b].tgt], ~adrift[req[b].tgt]
                  PROVE  (IF IsCode(req[b].factor) THEN "backup" ELSE "last") \in req[b].stale
      BY DEF OneUse
    <2>1. /\ Unused(b) /\ Given(b) /\ PrefIn(req[b].seen, minted)
          /\ used[req[b].tgt] \subseteq CodesTo(minted) \cup Slots
      BY AtFlush DEF Reading
    <2>2. CASE req[b].factor \in req[b].seen["backup"]
      <3>1. req[b].factor \in CodesTo(minted)
        BY <2>1, <2>2 DEF Given, PrefIn
      <3>2. IsCode(req[b].factor)
        BY <3>1 DEF IsCode, CodesTo
      <3>. QED
        BY <2>1, <2>2, <3>2 DEF Unused, Given
    <2>3. CASE req[b].factor \in Slots /\ (req[b].seen["last"] = Null \/ req[b].factor[2] > req[b].seen["last"])
      <3>1. req[b].factor[1] = 0 /\ req[b].factor[2] \in Nat /\ ~IsCode(req[b].factor)
        BY <2>3, BoundsAreNumbers DEF IsCode, Slots
      <3>2. req[b].seen["last"] = Null \/ req[b].seen["last"] \in Nat
        BY <2>1 DEF PrefIn
      <3>3. ~Below(used[req[b].tgt], req[b].seen["last"])
        BY <2>3, <3>1, <3>2 DEF Below
      <3>. QED
        BY <2>1, <3>1, <3>3 DEF Unused, Given
    <2>. QED
      BY <2>1, <2>2, <2>3 DEF Given
  <1>. QED
    BY <1>1, Inductive, PTL

\* The backup codes shown last, less the used ones, are those that work, unless
\* a request wrote over what it had not read.
THEOREM ShownCodesWork == Spec => []CodesStand
  <1>1. IInv => CodesStand
    BY DEF IInv, StateOK, AdminOK, CodesStand
  <1>. QED
    BY <1>1, Inductive, PTL

\* A password logs nobody in whose second factor, or the duty to get one, the
\* login has read: a code or an enrolment that verified has ended the login.
THEOREM MoreThanAPassword == Spec => PasswordIsNotEnough
  <1>. DEFINE Step == \A b \in Browsers :
                identity'[b] \notin {identity[b], NoAdmin} =>
                   LoggedIn(b, req[b].op \in {"totp", "enrol"})
  <1>1. IInv /\ [Next]_vars => [Step]_vars
    <2>. SUFFICES ASSUME IInv, Next, NEW b \in Browsers, identity'[b] \notin {identity[b], NoAdmin}
                  PROVE  LoggedIn(b, req[b].op \in {"totp", "enrol"})
      OBVIOUS
    <2>0. StateOK /\ Shaped(b)
      BY DEF IInv, RequestOK
    <2>1. ASSUME NEW c \in Browsers, identity' = [identity EXCEPT ![c] = Swept(c)] PROVE FALSE
      BY <2>0, <2>1 DEF StateOK, Swept
    <2>2. ASSUME NEW c \in Browsers, NEW first, NEW op, NEW t, Begin(c, first, op, t) PROVE FALSE
      BY <2>1, <2>2 DEF Begin
    <2>3. ASSUME NEW c \in Browsers, NEW v, identity' = [identity EXCEPT ![c] = v]
          PROVE  c = b /\ identity'[b] = v
      BY <2>0, <2>3 DEF StateOK
    <2>4. ASSUME NEW c \in Browsers, Grant(c)
          PROVE  LoggedIn(b, req[b].op \in {"totp", "enrol"})
      <3>1. c = b
        BY <2>3, <2>4 DEF Grant
      <3>2. ~verified[b]
        BY <2>0, <2>4, <3>1 DEF Grant, AtGate, Shaped
      <3>. QED
        BY <2>4, <3>1, <3>2 DEF Grant, FactorDue, LoggedIn
    <2>5. ASSUME NEW c \in Browsers, GrantPending(c),
                 req[c].op \in {"totp", "enrol"}, req[c].pc = "passed"
          PROVE  LoggedIn(b, req[b].op \in {"totp", "enrol"})
      <3>1. c = b /\ identity'[b] = req[b].tgt
        BY <2>3, <2>5 DEF GrantPending
      <3>. QED
        BY <2>0, <2>5, <3>1 DEF Shaped, LoggedIn
    <2>6. ASSUME identity' = identity PROVE FALSE
      BY <2>6
    <2>7. CASE Tick \/ ResetPassword
      BY <2>6, <2>7 DEF Tick, ResetPassword, session
    <2>8. ASSUME NEW c \in Browsers,
                 \/ \E a \in Admins : BeginLogin(c, a)
                 \/ BeginSecond(c) \/ BeginOwn(c) \/ BeginOther(c) \/ BeginAdd(c) \/ BeginSetup(c)
          PROVE  FALSE
      BY <2>2, <2>8 DEF BeginLogin, BeginSecond, BeginOwn, BeginOther, BeginAdd, BeginSetup
    <2>9. ASSUME NEW c \in Browsers, Abandon(c) \/ Logout(c) PROVE FALSE
      BY <2>1, <2>3, <2>9 DEF Abandon, Logout
    <2>10. ASSUME NEW c \in Browsers,
                  \/ Rehash(c) \/ Read(c) \/ Fails(c) \/ Verify(c) \/ VerifyNew(c)
                  \/ Recover(c) \/ Park(c) \/ Enable(c) \/ Disable(c) \/ Regenerate(c) \/ Provision(c) \/ SetForce(c)
                  \/ Toggle(c) \/ Purge(c) \/ ChangePassword(c) \/ Insert(c)
           PROVE  FALSE
      BY <2>6, <2>10 DEF Rehash, Read, Fails, Verify, VerifyNew, Recover, Park, Enable, Disable, Regenerate,
         Provision, SetForce, Toggle, Purge, ChangePassword, Insert, session
    <2>11. ASSUME NEW c \in Browsers, PassTotp(c) \/ PassTotpUnsaved(c) \/ PassEnrol(c)
           PROVE  LoggedIn(b, req[b].op \in {"totp", "enrol"})
      BY <2>5, <2>11 DEF PassTotp, PassTotpUnsaved, PassEnrol
    <2>. QED
      BY <2>4, <2>7, <2>8, <2>9, <2>10, <2>11 DEF Next
  <1>. QED
    BY <1>1, Inductive, PTL DEF Spec, PasswordIsNotEnough

\* The last super admin able to log in goes only by a request of somebody who
\* is none any more: nobody's own request takes the right from itself.
THEOREM SuperStays == Spec => LastSuperStays
  <1>. DEFINE Step == SuperAdmins # {} /\ SuperAdmins' = {} =>
                \E b \in Browsers : /\ req[b].pc = "read" /\ req'[b].pc = "idle"
                                    /\ req[b].who \notin SuperAdmins
  <1>1. IInv /\ [Next]_vars => [Step]_vars
    <2>. SUFFICES ASSUME IInv, Next, SuperAdmins # {}, SuperAdmins' = {}
                  PROVE  \E b \in Browsers : /\ req[b].pc = "read" /\ req'[b].pc = "idle"
                                             /\ req[b].who \notin SuperAdmins
      OBVIOUS
    <2>1. ~(active \subseteq active' /\ super \subseteq super')
      BY DEF SuperAdmins
    <2>2. ASSUME UNCHANGED db PROVE FALSE
      BY <2>1, <2>2 DEF db
    <2>3. ASSUME NEW b \in Browsers, Toggle(b) \/ Purge(b)
          PROVE  req[b].pc = "read" /\ req'[b].pc = "idle" /\ req[b].who \notin SuperAdmins
      <3>1. StateOK /\ Shaped(b)
        BY DEF IInv, RequestOK
      <3>2. req[b].pc = "read" /\ req[b].tgt # req[b].who
        BY <2>3, <3>1 DEF Toggle, Purge, Shaped, OtherOps
      <3>3. req'[b] = Idle
        BY <2>3, <3>1, OvertakenOK DEF Toggle, End, Purge, StateOK
      <3>4. active \ {req[b].tgt} \subseteq active' /\ super \ {req[b].tgt} \subseteq super'
        BY <2>3 DEF Toggle, Purge, Flip
      <3>. QED
        BY <3>2, <3>3, <3>4 DEF SuperAdmins, Idle
    <2>4. ASSUME NEW b \in Browsers, Insert(b) PROVE FALSE
      BY <2>1, <2>4 DEF Insert
    <2>5. ASSUME NEW b \in Browsers, Rehash(b) \/ ChangePassword(b) PROVE FALSE
      BY <2>1, <2>5 DEF Rehash, ChangePassword
    <2>6. CASE Tick \/ ResetPassword
      BY <2>1, <2>6 DEF Tick, ResetPassword, db
    <2>7. ASSUME NEW b \in Browsers,
                 \/ \E a \in Admins : BeginLogin(b, a)
                 \/ BeginSecond(b) \/ BeginOwn(b) \/ BeginOther(b) \/ BeginAdd(b) \/ BeginSetup(b)
                 \/ Abandon(b) \/ Logout(b)
          PROVE  FALSE
      <3>1. UNCHANGED db
        BY <2>7 DEF BeginLogin, BeginSecond, BeginOwn, BeginOther, BeginAdd, BeginSetup, Begin,
           Abandon, Logout
      <3>. QED
        BY <2>2, <3>1
    <2>8. ASSUME NEW b \in Browsers,
                 \/ Read(b) \/ Fails(b) \/ Verify(b) \/ VerifyNew(b)
                 \/ Recover(b) \/ Park(b) \/ Grant(b)
                 \/ PassTotp(b) \/ PassTotpUnsaved(b) \/ PassEnrol(b)
                 \/ Enable(b) \/ Disable(b) \/ Regenerate(b) \/ Provision(b) \/ SetForce(b)
          PROVE  FALSE
      <3>1. UNCHANGED db
        BY <2>8 DEF Read, Fails, Verify, VerifyNew, Recover, Park, Grant, PassTotp, PassTotpUnsaved,
           PassEnrol, Enable, Disable, Regenerate, Provision, SetForce
      <3>. QED
        BY <2>2, <3>1
    <2>. QED
      BY <2>3, <2>4, <2>5, <2>6, <2>7, <2>8 DEF Next
  <1>. QED
    BY <1>1, Inductive, PTL DEF Spec, LastSuperStays

\* A login's rehash never brings an older password back.
THEOREM PasswordsStand == Spec => PasswordStands
  <1>. DEFINE Step == \A a \in Admins : pw'[a].gen >= pw[a].gen
  <1>1. IInv /\ [Next]_vars => [Step]_vars
    <2>. SUFFICES ASSUME IInv, Next, NEW a \in Admins PROVE pw'[a].gen >= pw[a].gen
      OBVIOUS
    <2>0. pw \in [Admins -> [gen : 0..MaxPasswords, fresh : BOOLEAN]] /\ pw[a].gen \in Nat
      BY BoundsAreNumbers DEF IInv, StateOK
    <2>1. ASSUME UNCHANGED pw PROVE pw'[a].gen >= pw[a].gen
      BY <2>0, <2>1
    <2>2. ASSUME NEW t, NewPassword(t) PROVE pw'[a].gen >= pw[a].gen
      <3>1. pw' = [pw EXCEPT ![t] = [gen |-> pw[t].gen + 1, fresh |-> TRUE]]
        BY <2>2 DEF NewPassword
      <3>2. pw'[a].gen = pw[a].gen \/ pw'[a].gen = pw[a].gen + 1
        BY <2>0, <3>1
      <3>. QED
        BY <2>0, <3>2
    <2>3. ASSUME NEW b \in Browsers, Rehash(b) \/ Insert(b) PROVE pw'[a].gen >= pw[a].gen
      <3>1. pw' \in {pw, [pw EXCEPT ![req[b].tgt].fresh = TRUE]}
        BY <2>3 DEF Rehash, Insert
      <3>2. pw'[a].gen = pw[a].gen
        BY <2>0, <3>1
      <3>. QED
        BY <2>0, <3>2
    <2>4. ASSUME NEW b \in Browsers, ChangePassword(b) PROVE pw'[a].gen >= pw[a].gen
      BY <2>2, <2>4 DEF ChangePassword
    <2>5. CASE ResetPassword
      BY <2>2, <2>5 DEF ResetPassword
    <2>6. CASE Tick
      BY <2>1, <2>6 DEF Tick, db
    <2>7. ASSUME NEW b \in Browsers,
                 \/ \E x \in Admins : BeginLogin(b, x)
                 \/ BeginSecond(b) \/ BeginOwn(b) \/ BeginOther(b) \/ BeginAdd(b) \/ BeginSetup(b)
                 \/ Abandon(b) \/ Logout(b)
          PROVE  UNCHANGED pw
      BY <2>7 DEF BeginLogin, BeginSecond, BeginOwn, BeginOther, BeginAdd, BeginSetup, Begin,
         Abandon, Logout, db
    <2>8. ASSUME NEW b \in Browsers,
                 \/ Read(b) \/ Fails(b) \/ Verify(b) \/ VerifyNew(b)
                 \/ Recover(b) \/ Park(b) \/ Grant(b)
                 \/ PassTotp(b) \/ PassTotpUnsaved(b) \/ PassEnrol(b)
                 \/ Enable(b) \/ Disable(b) \/ Regenerate(b) \/ Provision(b) \/ SetForce(b)
                 \/ Toggle(b) \/ Purge(b)
          PROVE  UNCHANGED pw
      BY <2>8 DEF Read, Fails, Verify, VerifyNew, Recover, Park, Grant, PassTotp, PassTotpUnsaved,
         PassEnrol, Enable, Disable, Regenerate, Provision, SetForce, Toggle, Purge, db
    <2>. QED
      BY <2>1, <2>3, <2>4, <2>5, <2>6, <2>7, <2>8 DEF Next
  <1>. QED
    BY <1>1, Inductive, PTL DEF Spec, PasswordStands
=============================================================================
