------------------------------ MODULE Accounts ------------------------------
(***************************************************************************)
(* The administrators: logging in with a password and a second factor,     *)
(* enrolling, managing another administrator, and the first-run setup.     *)
(*                                                                         *)
(* A browser is a PHP session; the session file's lock lets it have one    *)
(* request at a time, so what a request does to its session is seen by no  *)
(* other.  The database has no such lock: a request reads entities and     *)
(* flushes what it changed of them later, in one transaction.              *)
(*                                                                         *)
(* Abstractions.  A TOTP code is the time slice it belongs to, and is      *)
(* valid one slice early or late.  A secret, like each set of backup       *)
(* codes, is named by a number never used before; an enrolment's secret is *)
(* in the session until a code of it verifies, and gets its number then.   *)
(* The demo account, the reset tokens and the throttle (Throttle.tla) are  *)
(* left out.                                                               *)
(***************************************************************************)
EXTENDS Integers, FiniteSets

CONSTANTS
    Admins,         \* ids a row of `admin` may be given
    Browsers,
    Enrolled,       \* the admins that start with a second factor
    Recovered,      \* the admins twofactor.force_disable names
    NoAdmin, Null,  \* no identity; no admin_pref row
    BatchSize,      \* backup codes per set
    MaxSlice,       \* bound: the last time slice
    MaxMinted,      \* bound: secrets and sets of backup codes
    MaxPasswords,   \* bound: passwords set for one admin
    MaxRequests     \* bound: requests in a behaviour

ASSUME NoAdminIsFresh == NoAdmin \notin Admins
ASSUME NullIsFresh ==
    /\ Null \notin Nat /\ Null \notin BOOLEAN
    /\ \A S \in SUBSET ((1..MaxMinted) \X (1..BatchSize)) : Null # S
ASSUME BoundsAreNumbers ==
    /\ BatchSize \in Nat \ {0} /\ MaxSlice \in Nat \ {0} /\ MaxMinted \in Nat \ {0}
    /\ MaxPasswords \in Nat /\ MaxRequests \in Nat

VARIABLES
    born,       \* ids ever given to a row of `admin`
    rows,       \* the rows there are
    active,     \* admin.active
    super,      \* admin.super
    pw,         \* admin.password: which password, and whether its hash is current
    pref,       \* the admin_pref rows of the second factor
    identity,   \* session: the logged-in admin
    pending,    \* session: totp_pending_admin_id
    verified,   \* session: totp_verified
    req,        \* the request each session runs
    slice,      \* the current time slice
    minted, calls,
    used,       \* history: codes accepted of the secret stored for the admin
    enrolledBy, \* history: the code, if any, that completed its enrolment
    shown,      \* history: the backup codes last shown
    adrift      \* history: rows written over by a request that read older ones

db      == <<born, rows, active, super, pw>>
session == <<identity, pending, verified>>
history == <<used, enrolledBy, shown, adrift>>
vars    == <<db, pref, session, req, slice, minted, calls, history>>

Attributes == {"secret", "backup", "last", "force"}
\* A backup code is <<its set, i>>, a TOTP code <<0, its slice>>.
Batch(n)   == {n} \X (1..BatchSize)
IsCode(f)  == f[1] > 0
NoPrefs    == [x \in Attributes |-> Null]

OwnOps   == {"enable", "disable", "regen", "password"}
OtherOps == {"provision", "disable-other", "force-on", "force-off",
             "toggle-active", "toggle-super", "purge", "password-other"}
Ops      == {"login", "totp", "enrol", "setup", "add"} \cup OwnOps \cup OtherOps

\* The operations that ask for a code: of the admin's secret, of a new one.
ProvingOps   == {"totp", "disable", "regen"}
EnrollingOps == {"enrol", "enable"}

Idle == [pc |-> "idle", op |-> "none", who |-> NoAdmin, tgt |-> NoAdmin,
         hash |-> 0, flags |-> {}, seen |-> NoPrefs, gone |-> {},
         stale |-> {}, factor |-> <<0, 0>>]

SuperAdmins == active \cap super

TypeOK ==
    /\ rows \in SUBSET born /\ born \in SUBSET Admins
    /\ active \in SUBSET rows /\ super \in SUBSET rows
    /\ pw \in [Admins -> [gen : 0..MaxPasswords, fresh : BOOLEAN]]
    /\ \A a \in Admins :
         /\ pref[a]["secret"] \in {Null} \cup (1..MaxMinted)
         /\ pref[a]["last"] \in {Null} \cup (1..MaxSlice)
         /\ pref[a]["secret"] = Null <=> pref[a]["backup"] = Null
         /\ a \notin rows => pref[a] = NoPrefs
    /\ identity \in [Browsers -> born \cup {NoAdmin}]
    /\ pending \in [Browsers -> born \cup {NoAdmin}]
    /\ verified \in [Browsers -> BOOLEAN]
    /\ \A b \in Browsers :
         /\ req[b].pc \in {"idle", "rehash", "begun", "read", "checked", "passed"}
         /\ req[b].pc = "idle" <=> req[b] = Idle
         /\ req[b].op \in Ops \cup {"none"}

\* A new installation, or one with administrators, some with a second factor
\* and some logged in.
Init ==
    /\ born \in {{}, Admins} /\ rows = born /\ active = born /\ super = born
    /\ pw = [a \in Admins |-> [gen |-> 0, fresh |-> FALSE]]
    /\ minted = 1
    /\ shown = [a \in Admins |-> IF a \in rows \cap Enrolled THEN Batch(1) ELSE {}]
    /\ pref = [a \in Admins |->
                 IF a \in rows \cap Enrolled
                 THEN [NoPrefs EXCEPT !["secret"] = 1, !["backup"] = Batch(1)] ELSE NoPrefs]
    /\ identity \in [Browsers -> rows \cup {NoAdmin}]
    /\ verified = [b \in Browsers |-> identity[b] \in Enrolled]
    /\ pending = [b \in Browsers |-> NoAdmin]
    /\ req = [b \in Browsers |-> Idle]
    /\ slice = 1 /\ calls = 0
    /\ used = [a \in Admins |-> {}] /\ enrolledBy = [a \in Admins |-> {}]
    /\ adrift = [a \in Admins |-> FALSE]

Tick ==
    /\ slice < MaxSlice
    /\ slice' = slice + 1
    /\ UNCHANGED <<db, pref, session, req, minted, calls, history>>

-----------------------------------------------------------------------------
(* Requests.                                                               *)

\* Auth::admin(): the identity's entity when it exists and is active; the
\* identity of a deactivated admin is removed from the session.
Me(b)    == IF identity[b] \in active THEN identity[b] ELSE NoAdmin
Swept(b) == IF identity[b] \in rows \ active THEN NoAdmin ELSE identity[b]

Begin(b, first, op, t) ==
    /\ req[b].pc = "idle"
    /\ calls < MaxRequests /\ calls' = calls + 1
    /\ req' = [req EXCEPT ![b] = [Idle EXCEPT
                 !.pc = first, !.op = op, !.who = Me(b), !.tgt = t, !.hash = pw[t].gen]]
    /\ identity' = [identity EXCEPT ![b] = Swept(b)]
    /\ UNCHANGED <<db, pref, pending, verified, slice, minted, history>>

\* The password is right and the row is active; its hash may be an old one.
BeginLogin(b, a) ==
    /\ Me(b) = NoAdmin /\ a \in active
    /\ Begin(b, IF pw[a].fresh THEN "begun" ELSE "rehash", "login", a)

BeginSecond(b) ==
    /\ Me(b) = NoAdmin /\ pending[b] \in active
    /\ \E op \in {"totp", "enrol"} : Begin(b, "begun", op, pending[b])

BeginOwn(b) ==
    /\ Me(b) # NoAdmin
    /\ \E op \in OwnOps : Begin(b, "begun", op, Me(b))

\* Mutant: a super admin may be the target of its own request.
BeginAny(b) ==
    /\ Me(b) \in super
    /\ \E op \in OtherOps, t \in born : Begin(b, "begun", op, t)

BeginOther(b) ==
    /\ Me(b) \in super
    /\ \E op \in OtherOps, t \in born \ {Me(b)} : Begin(b, "begun", op, t)

\* The unique index on the username is the only check that `add` has.
BeginAdd(b) ==
    /\ Me(b) \in super
    /\ \E t \in Admins \ born : Begin(b, "read", "add", t)

BeginSetup(b) ==
    /\ rows = {} /\ Me(b) = NoAdmin
    /\ \E t \in Admins \ born : Begin(b, "read", "setup", t)

Abandon(b) ==
    /\ req[b].pc = "idle" /\ Me(b) = NoAdmin
    /\ pending[b] # NoAdmin /\ pending[b] \notin active
    /\ identity' = [identity EXCEPT ![b] = Swept(b)]
    /\ pending' = [pending EXCEPT ![b] = NoAdmin]
    /\ verified' = [verified EXCEPT ![b] = FALSE]
    /\ UNCHANGED <<db, pref, req, slice, minted, calls, history>>

Logout(b) ==
    /\ req[b].pc = "idle"
    /\ identity' = [identity EXCEPT ![b] = NoAdmin]
    /\ pending' = [pending EXCEPT ![b] = NoAdmin]
    /\ verified' = [verified EXCEPT ![b] = FALSE]
    /\ UNCHANGED <<db, pref, req, slice, minted, calls, history>>

Goto(b, l) == req' = [req EXCEPT ![b].pc = l]
End(b)     == req' = [req EXCEPT ![b] = Idle]

\* Mutant: the rehash is a plain update.
RehashOverwrites(b) ==
    /\ req[b].pc = "rehash"
    /\ pw' = [pw EXCEPT ![req[b].tgt] = [gen |-> req[b].hash, fresh |-> TRUE]]
    /\ Goto(b, "begun")
    /\ UNCHANGED <<born, rows, active, super, pref, session, slice, minted, calls, history>>

\* compareAndSwapPassword, whose failure is swallowed.
Rehash(b) ==
    /\ req[b].pc = "rehash"
    /\ pw' = IF pw[req[b].tgt] = [gen |-> req[b].hash, fresh |-> FALSE]
             THEN [pw EXCEPT ![req[b].tgt].fresh = TRUE] ELSE pw
    /\ Goto(b, "begun")
    /\ UNCHANGED <<born, rows, active, super, pref, session, slice, minted, calls, history>>

\* Mutant: a login leaves totp_verified as an earlier one set it.
KeepVerified(b) == verified

\* completeLogin: every password authentication asks for a new factor.
DropVerified(b) ==
    IF req[b].op = "login" THEN [verified EXCEPT ![b] = FALSE] ELSE verified

\* The target's row and preferences are loaded.
Read(b) ==
    /\ req[b].pc = "begun"
    /\ req[b].op \in OtherOps => req[b].tgt \in rows
    /\ req' = [req EXCEPT ![b].pc = "read", ![b].seen = pref[req[b].tgt],
                          ![b].flags = {f \in {"active", "super"} :
                              req[b].tgt \in IF f = "active" THEN active ELSE super}]
    /\ verified' = DropVerified(b)
    /\ UNCHANGED <<db, pref, identity, pending, slice, minted, calls, history>>

\* The request ends without effect: a wrong code, a check that fails, a
\* database error before or in the flush, or the process is killed.
Fails(b) ==
    /\ req[b].pc # "idle"
    /\ End(b)
    /\ UNCHANGED <<db, pref, session, slice, minted, calls, history>>

-----------------------------------------------------------------------------
(* EntityManager::flush of the target's preferences, now `want`.           *)

Changed(r, want) == {x \in Attributes : want[x] # r.seen[x]}

\* A row is updated and deleted by its id: one that was deleted since it was
\* read stays deleted, whatever was inserted in its place.
Merged(r, want) ==
    [x \in Attributes |->
        IF x \in Changed(r, want) /\ (r.seen[x] = Null \/ x \notin r.gone)
        THEN want[x] ELSE pref[r.tgt][x]]

\* No second row of (Admin_id, attribute, ix), and none without its admin.
Accepted(r, want) ==
    \A x \in Changed(r, want) :
        r.seen[x] = Null => pref[r.tgt][x] = Null /\ r.tgt \in rows

\* The requests that have read what is written here over.
Overtaken(b, t, new) ==
    [c \in Browsers |->
        IF c # b /\ req[c].pc \in {"read", "checked", "passed"} /\ req[c].tgt = t
        THEN [req[c] EXCEPT
                !.stale = @ \cup {x \in Attributes : new[x] # pref[t][x]},
                !.gone  = @ \cup {x \in Attributes : pref[t][x] # Null /\ new[x] = Null}]
        ELSE req[c]]

Drifts(r, want) ==
    Changed(r, want) \cap r.stale # {} \/ (adrift[r.tgt] /\ want["secret"] \in {Null, r.seen["secret"]})

\* The flush succeeds and the request goes to its state `next`.
Flush(b, want, next) ==
    LET r == req[b]  new == Merged(r, want) IN
    /\ Accepted(r, want)
    /\ pref' = [pref EXCEPT ![r.tgt] = new]
    /\ req' = [Overtaken(b, r.tgt, new) EXCEPT ![b] = next]
    /\ adrift' = [adrift EXCEPT ![r.tgt] = Drifts(r, want)]

Fresh(p) == [p EXCEPT !["secret"] = minted + 1, !["backup"] = Batch(minted + 1)]

\* Mutant: the backup codes survive.
WithoutSecret(p) == [p EXCEPT !["secret"] = Null, !["last"] = Null]

Without(p) == [p EXCEPT !["secret"] = Null, !["backup"] = Null, !["last"] = Null]
Unforced(p) == [p EXCEPT !["force"] = Null]

\* New backup codes are shown, for the secret there was or together with a
\* new one.  enable stores no slice for the code that completed an enrolment.
Show(b, want) ==
    LET r == req[b]  same == want["secret"] = r.seen["secret"] IN
    /\ minted < MaxMinted /\ minted' = minted + 1
    /\ shown' = [shown EXCEPT ![r.tgt] = Batch(minted + 1)]
    /\ used' = [used EXCEPT ![r.tgt] = IF same THEN @ \cup {r.factor} ELSE {}]
    /\ enrolledBy' = [enrolledBy EXCEPT ![r.tgt] =
                        IF same THEN @ ELSE IF r.op \in EnrollingOps THEN {r.factor} ELSE {}]

\* Mutant: a backup code stays in the list.
SpendSlice(r) == IF IsCode(r.factor) THEN r.seen ELSE [r.seen EXCEPT !["last"] = r.factor[2]]

\* The entity after the code is accepted.
Spend(r) == IF IsCode(r.factor) THEN [r.seen EXCEPT !["backup"] = @ \ {r.factor}]
                               ELSE [r.seen EXCEPT !["last"] = r.factor[2]]

Skew == ((slice - 1)..(slice + 1)) \cap (1..MaxSlice)

\* Mutant: an equal slice passes.
SlicesReplayed(r) ==
    {f \in {0} \X Skew : r.seen["last"] = Null \/ f[2] >= r.seen["last"]}

Slices(r) ==
    {f \in {0} \X Skew : r.seen["last"] = Null \/ f[2] > r.seen["last"]}

\* A code this request was given, of the secret it has read: a slice newer
\* than the last accepted one, or a backup code still in the list.
Verify(b) ==
    /\ req[b].pc = "read" /\ req[b].seen["secret"] # Null
    /\ \E f \in Slices(req[b]) \cup IF req[b].op = "regen" THEN {} ELSE req[b].seen["backup"] :
         req' = [req EXCEPT ![b].pc = "passed", ![b].factor = f]
    /\ req[b].op \in ProvingOps
    /\ UNCHANGED <<db, pref, session, slice, minted, calls, history>>

\* verifyCode, with no look at the last slice: a code of the session's secret.
VerifyNew(b) ==
    /\ req[b].pc = "read" /\ req[b].op \in EnrollingOps
    /\ req[b].op = "enable" => req[b].seen["secret"] = Null
    /\ \E f \in {0} \X Skew : req' = [req EXCEPT ![b].pc = "passed", ![b].factor = f]
    /\ UNCHANGED <<db, pref, session, slice, minted, calls, history>>

-----------------------------------------------------------------------------
(* The password login.                                                     *)

\* twofactor.force_disable names the admin: its second factor is wiped.
Recover(b) ==
    LET r == req[b]  want == Unforced(Without(r.seen)) IN
    /\ r.op = "login" /\ r.pc = "read" /\ r.tgt \in Recovered
    /\ Flush(b, want, [r EXCEPT !.pc = "checked", !.seen = want])
    /\ UNCHANGED <<db, session, slice, minted, calls, used, enrolledBy, shown>>

AtGate(r) ==
    r.op = "login" /\ (r.pc = "checked" \/ (r.pc = "read" /\ r.tgt \notin Recovered))

FactorDue(b) ==
    /\ req[b].seen["secret"] # Null \/ req[b].seen["force"] # Null
    /\ ~verified[b]

Park(b) ==
    /\ AtGate(req[b]) /\ FactorDue(b)
    /\ pending' = [pending EXCEPT ![b] = req[b].tgt]
    /\ End(b)
    /\ UNCHANGED <<db, pref, identity, verified, slice, minted, calls, history>>

\* The flush that follows writes the time of the login only.
Grant(b) ==
    /\ AtGate(req[b]) /\ ~FactorDue(b)
    /\ identity' = [identity EXCEPT ![b] = req[b].tgt]
    /\ End(b)
    /\ UNCHANGED <<db, pref, pending, verified, slice, minted, calls, history>>

-----------------------------------------------------------------------------
(* The second factor of a parked login.                                    *)

\* grantPendingLogin, whose test of `active` sees the entity of this request.
GrantPending(b) ==
    /\ identity' = [identity EXCEPT ![b] = req[b].tgt]
    /\ pending' = [pending EXCEPT ![b] = NoAdmin]
    /\ verified' = [verified EXCEPT ![b] = TRUE]

Accept(b) == used' = [used EXCEPT ![req[b].tgt] = @ \cup {req[b].factor}]

PassTotp(b) ==
    /\ req[b].op = "totp" /\ req[b].pc = "passed"
    /\ Flush(b, Spend(req[b]), Idle)
    /\ GrantPending(b) /\ Accept(b)
    /\ UNCHANGED <<db, slice, minted, calls, enrolledBy, shown>>

\* The identity is in the session before the flush that fails.
PassTotpUnsaved(b) ==
    /\ req[b].op = "totp" /\ req[b].pc = "passed"
    /\ GrantPending(b) /\ Accept(b)
    /\ adrift' = [adrift EXCEPT ![req[b].tgt] = TRUE]
    /\ End(b)
    /\ UNCHANGED <<db, pref, slice, minted, calls, enrolledBy, shown>>

\* totpSetupAction: whether the admin already has a secret is not looked at.
PassEnrol(b) ==
    LET want == Unforced(Fresh(req[b].seen)) IN
    /\ req[b].op = "enrol" /\ req[b].pc = "passed"
    /\ Flush(b, want, Idle) /\ Show(b, want)
    /\ GrantPending(b)
    /\ UNCHANGED <<db, slice, calls>>

-----------------------------------------------------------------------------
(* The pages of a logged-in administrator.                                 *)

Enable(b) ==
    LET want == Fresh(req[b].seen) IN
    /\ req[b].op = "enable" /\ req[b].pc = "passed"
    /\ Flush(b, want, Idle) /\ Show(b, want)
    /\ UNCHANGED <<db, session, slice, calls>>

Disable(b) ==
    /\ \/ req[b].op = "disable" /\ req[b].pc = "passed"
       \/ req[b].op = "disable-other" /\ req[b].pc = "read"
    /\ Flush(b, Without(req[b].seen), Idle)
    /\ UNCHANGED <<db, session, slice, minted, calls, used, enrolledBy, shown>>

Regenerate(b) ==
    LET want == [Spend(req[b]) EXCEPT !["backup"] = Batch(minted + 1)] IN
    /\ req[b].op = "regen" /\ req[b].pc = "passed"
    /\ Flush(b, want, Idle) /\ Show(b, want)
    /\ UNCHANGED <<db, session, slice, calls>>

\* For an admin with or without a second factor (provision, regen-secret).
Provision(b) ==
    LET want == Unforced(Fresh(req[b].seen)) IN
    /\ req[b].op = "provision" /\ req[b].pc = "read"
    /\ Flush(b, want, Idle) /\ Show(b, want)
    /\ UNCHANGED <<db, session, slice, calls>>

SetForce(b) ==
    LET p == req[b].seen IN
    /\ req[b].op \in {"force-on", "force-off"} /\ req[b].pc = "read"
    /\ Flush(b, IF req[b].op = "force-on" THEN [p EXCEPT !["force"] = TRUE] ELSE Unforced(p), Idle)
    /\ UNCHANGED <<db, session, slice, minted, calls, used, enrolledBy, shown>>

\* The log entry of an operation on somebody else needs the actor's row.
Logged(b) == req[b].who \in rows

\* The flag becomes the opposite of what was read.
Flip(set, b, f) ==
    IF f \in req[b].flags THEN set \ {req[b].tgt} ELSE set \cup ({req[b].tgt} \cap rows)

Toggle(b) ==
    /\ req[b].pc = "read" /\ Logged(b)
    /\ \/ /\ req[b].op = "toggle-active"
          /\ active' = Flip(active, b, "active") /\ UNCHANGED super
       \/ /\ req[b].op = "toggle-super"
          /\ super' = Flip(super, b, "super") /\ UNCHANGED active
    /\ End(b)
    /\ UNCHANGED <<born, rows, pw, pref, session, slice, minted, calls, history>>

\* Preferences inserted since they were read keep the row: a foreign key.
Purge(b) ==
    LET t == req[b].tgt IN
    /\ req[b].op = "purge" /\ req[b].pc = "read" /\ Logged(b)
    /\ \A x \in Attributes :
         pref[t][x] # Null => req[b].seen[x] # Null /\ x \notin req[b].gone
    /\ rows' = rows \ {t} /\ active' = active \ {t} /\ super' = super \ {t}
    /\ pref' = [pref EXCEPT ![t] = NoPrefs]
    /\ req' = [Overtaken(b, t, NoPrefs) EXCEPT ![b] = Idle]
    /\ UNCHANGED <<born, pw, session, slice, minted, calls, history>>

NewPassword(t) ==
    /\ pw[t].gen < MaxPasswords
    /\ pw' = [pw EXCEPT ![t] = [gen |-> @.gen + 1, fresh |-> TRUE]]

\* admin/password, and auth/reset-password with a mailed token.
ChangePassword(b) ==
    /\ req[b].pc = "read" /\ req[b].tgt \in rows
    /\ req[b].op = "password" \/ (req[b].op = "password-other" /\ Logged(b))
    /\ NewPassword(req[b].tgt)
    /\ End(b)
    /\ UNCHANGED <<born, rows, active, super, pref, session, slice, minted, calls, history>>

ResetPassword ==
    /\ \E t \in rows : NewPassword(t)
    /\ UNCHANGED <<born, rows, active, super, pref, session, req, slice, minted, calls, history>>

\* auth/setup and admin/add insert an active row; setup's is a super admin.
Insert(b) ==
    LET t == req[b].tgt IN
    /\ req[b].pc = "read" /\ t \notin born
    /\ req[b].op = "setup" \/ (req[b].op = "add" /\ Logged(b))
    /\ born' = born \cup {t} /\ rows' = rows \cup {t} /\ active' = active \cup {t}
    /\ super' \in IF req[b].op = "setup" THEN {super \cup {t}} ELSE {super, super \cup {t}}
    /\ pw' = [pw EXCEPT ![t].fresh = TRUE]
    /\ End(b)
    /\ UNCHANGED <<pref, session, slice, minted, calls, history>>

Next ==
    \/ Tick \/ ResetPassword
    \/ \E b \in Browsers :
         \/ \E a \in Admins : BeginLogin(b, a)
         \/ BeginSecond(b) \/ BeginOwn(b) \/ BeginOther(b)
         \/ BeginAdd(b) \/ BeginSetup(b) \/ Abandon(b) \/ Logout(b)
         \/ Rehash(b) \/ Read(b) \/ Fails(b) \/ Verify(b) \/ VerifyNew(b)
         \/ Recover(b) \/ Park(b) \/ Grant(b)
         \/ PassTotp(b) \/ PassTotpUnsaved(b) \/ PassEnrol(b)
         \/ Enable(b) \/ Disable(b) \/ Regenerate(b) \/ Provision(b) \/ SetForce(b)
         \/ Toggle(b) \/ Purge(b) \/ ChangePassword(b) \/ Insert(b)

Spec == Init /\ [][Next]_vars

-----------------------------------------------------------------------------
(* Properties.                                                             *)

\* What verifyForAdmin or consumeBackupCode has accepted they accept again only
\* when an earlier request has been lost: its flush failed after the login was
\* granted, or it wrote the same row as another one that had read it before.
\* The code that completed an enrolment went through neither: it counts from
\* its first use after that (SliceOnce).
OneUse ==
    \A b \in Browsers :
        LET r == req[b] IN
        r.pc = "passed" /\ r.op \in ProvingOps /\ r.factor \in used[r.tgt] =>
            \/ adrift[r.tgt]
            \/ (IF IsCode(r.factor) THEN "backup" ELSE "last") \in r.stale

\* verifyForAdmin: "a given time-slice can only be used once", stated of the
\* code that completed the enrolment of the secret there is, with no write lost.
SliceOnce ==
    \A b \in Browsers :
        LET r == req[b] IN
        r.pc = "passed" /\ r.op \in ProvingOps /\ r.stale = {} /\ ~adrift[r.tgt] =>
            r.factor \notin enrolledBy[r.tgt]

\* The backup codes shown last ("show once, never again") are those that work,
\* less the used ones, whoever else handled the second factor of this admin,
\* again unless a request wrote over what it had not read.
CodesStand ==
    \A a \in rows :
        pref[a]["secret"] # Null /\ ~adrift[a] => pref[a]["backup"] = shown[a] \ used[a]

\* A session that comes to an identity has finished what its login asked for.
LoggedIn(b, passed) ==
    \/ passed /\ req[b].pc = "passed" /\ pending[b] = identity'[b]
    \/ req[b].seen["secret"] = Null /\ req[b].seen["force"] = Null

\* A password alone logs in nobody whose preferences, as this login read them,
\* have a secret or force one, whatever an earlier login has left in the
\* session: the identity is that of the parked login, and a code of its secret
\* or the enrolment of a new one came with it (see NoFactorSkipped for which).
PasswordIsNotEnough ==
    [][\A b \in Browsers : identity'[b] \notin {identity[b], NoAdmin} =>
         LoggedIn(b, req[b].op \in {"totp", "enrol"})]_vars

\* totpSetupAction is the "forced first-time 2FA enrolment", and an "enabled 2FA
\* admin" is logged in "only once a valid TOTP (or a one-time backup) code is
\* supplied": an enrolment ends the login of nobody who has a secret.
NoFactorSkipped ==
    [][\A b \in Browsers : identity'[b] \notin {identity[b], NoAdmin} =>
         LoggedIn(b, \/ req[b].op = "totp"
                     \/ req[b].op = "enrol" /\ req[b].seen["secret"] = Null)]_vars

\* There is always a super admin who can log in, unless the request that takes
\* the last one away belongs to somebody who has lost the right meanwhile.
LastSuperStays ==
    [][SuperAdmins # {} /\ SuperAdmins' = {} =>
         \E b \in Browsers : /\ req[b].pc = "read" /\ req'[b].pc = "idle"
                             /\ req[b].who \notin SuperAdmins]_vars

\* storeRehashedAdminPassword: "Exact-hash CAS prevents a concurrent reset from
\* being overwritten".  An old password never comes back.
PasswordStands == [][\A a \in Admins : pw'[a].gen >= pw[a].gen]_vars

\* setupAction "only runs when there are zero admins".
SetupOnce ==
    [][\A b \in Browsers :
         req[b].op = "setup" /\ rows' # rows /\ req'[b].pc = "idle" => rows = {}]_vars
=============================================================================
