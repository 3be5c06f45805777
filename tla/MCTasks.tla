------------------------------ MODULE MCTasks -------------------------------
(***************************************************************************)
(* Small instances for TLC of what must come to an end: a DELETE of one    *)
(* account, and the leases and RUNNING rows of the queue that runs such    *)
(* tasks.  The account's workers are not the queue's processes and the two *)
(* share nothing, so a behaviour moves only one of them.                   *)
(***************************************************************************)
EXTENDS MCMailTask

CONSTANTS Runners, TaskRows, Keys, PruneKeys, NoRunner, MaxSlots, MaxPerRun, TTL,
          HeartbeatInterval, MaxWait, MaxAge, MaxFaults

VARIABLES moving, qStatus, keyOf, qAbandoned, owner, lease, mutex, qPc, cap, slot, age,
          batch, cur, qOut, em, late, req, forced, faults

\* Drains that nobody but cron starts, and no request to retry.
Queue == INSTANCE TaskQueue
    WITH status <- qStatus, abandoned <- qAbandoned, pc <- qPc, out <- qOut,
         ManualRunners <- {}, Requests <- {}, TaskIds <- TaskRows,
         Priority <- [k \in Keys |-> 0]

queueVars == <<qStatus, keyOf, qAbandoned, owner, lease, mutex, qPc, cap, slot, age,
               batch, cur, qOut, em, late, req, forced, faults>>
both == <<moving, vars, queueVars>>

\* The one that does not move is in one of its initial states.
BothInit ==
    /\ moving \in {"account", "queue"}
    /\ Init /\ Queue!Init
    /\ moving = "queue" => store = {} /\ mailbox /\ ~arch.there

AccountAlone == moving = "account" /\ UNCHANGED <<moving, queueVars>>
QueueAlone   == moving = "queue" /\ UNCHANGED <<moving, vars>>

BothNext == (AccountAlone /\ Next) \/ (QueueAlone /\ Queue!Next)

\* The fairness of MailTask and that of TaskQueue.
BothSpec ==
    /\ BothInit /\ [][BothNext]_both
    /\ \A w \in Workers :
         WF_both(AccountAlone /\ Start(w)) /\ WF_both(AccountAlone /\ Execute(w))
    /\ \A w \in Workers, t \in TaskIds : SF_both(AccountAlone /\ Claim(w, t))
    /\ \A t \in TaskIds :
         WF_both(AccountAlone /\ Retry(t)) /\ WF_both(AccountAlone /\ Reap(t))
    /\ WF_both(QueueAlone /\ Queue!Tick)
    /\ \A r \in Runners :
         /\ WF_both(QueueAlone /\ Queue!StartDrain(r))
         /\ WF_both(QueueAlone /\ Queue!Acquire(r))
         /\ WF_both(QueueAlone /\ Queue!DrainStep(r))
         /\ WF_both(QueueAlone /\ Queue!Work(r)) /\ WF_both(QueueAlone /\ Queue!Settle(r))
         /\ WF_both(QueueAlone /\ Queue!Reply(r)) /\ SF_both(QueueAlone /\ Queue!ExecDone(r))

\* TaskQueue: a lease left behind is given back; no task stays RUNNING forever.
LeaseRecovered == Queue!LeaseRecovered
RunningSettles == Queue!RunningSettles
=============================================================================
