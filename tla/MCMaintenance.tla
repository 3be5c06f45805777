--------------------------- MODULE MCMaintenance ---------------------------
(***************************************************************************)
(* Small instances for TLC of two kinds of tasks the Maintenance page      *)
(* queues: the backup of an unmanaged maildir and the prune of an archive. *)
(* They are of different users and share nothing, so a behaviour moves     *)
(* only one of them.                                                       *)
(***************************************************************************)
EXTENDS OrphanBackup, TLC

CONSTANTS Msgs, Incoming, Archived, Workers, Requests, TaskIds, Type, MaxErrors, MaxKills

\* The tasks of the archived account are prunes.
ASSUME PrunesOnly == Type = [t \in TaskIds |-> "PRUNE"] /\ NoTask \notin TaskIds
ASSUME MailSets ==
    /\ Incoming \subseteq Msgs /\ Archived \subseteq Msgs /\ Incoming \cap Archived = {}
    /\ Workers \cap Requests = {} /\ MaxErrors \in Nat /\ MaxKills \in Nat

VARIABLES moving, mStore, mHome, dest, mailbox, mArch, fresh, status, abandoned, mode,
          done, job, mPc, out, seen, mStaged, boxes, rpc, sent, discarded, copied,
          dropped, audits, wasOn, errors, kills

Mail == INSTANCE MailTask
    WITH store <- mStore, home <- mHome, arch <- mArch, pc <- mPc, staged <- mStaged

MCFor  == [t \in Tasks |-> CHOOSE u \in Users : TRUE]
MCType == [t \in TaskIds |-> "PRUNE"]

mailVars == <<mStore, mHome, dest, mailbox, mArch, fresh, status, abandoned, mode, done,
              job, mPc, out, seen, mStaged, boxes, rpc, sent, discarded, copied, dropped,
              audits, wasOn, errors, kills>>
both == <<moving, mailVars, orphanVars>>

\* The one that does not move is in one of its initial states.
BothInit ==
    /\ moving \in {"archive", "orphan"}
    /\ Init /\ Mail!Init
    /\ moving = "archive" => had = {} /\ dom = 1
    /\ moving = "orphan" => mailbox /\ ~mArch.auto

ArchiveMoves  == moving = "archive" /\ Mail!Next /\ UNCHANGED <<moving, orphanVars>>
OrphanMoves   == moving = "orphan" /\ Next /\ UNCHANGED <<moving, mailVars>>
OrphanMovesOn == moving = "orphan" /\ UNCHANGED <<moving, mailVars>>

BothNext == ArchiveMoves \/ OrphanMoves

BothSpec ==
    /\ BothInit /\ [][BothNext]_both
    /\ \A w \in Runners : WF_both(OrphanMovesOn /\ Start(w)) /\ WF_both(OrphanMovesOn /\ Step(w))
    /\ \A t \in Tasks : WF_both(OrphanMovesOn /\ Reap(t))

\* MailTask: no mail is lost that nobody asked to destroy.
MailKept == Mail!MailKept
=============================================================================
