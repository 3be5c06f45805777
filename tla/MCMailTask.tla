----------------------------- MODULE MCMailTask -----------------------------
(* Small instances of MailTask for TLC. *)
EXTENDS MailTask, TLC

CONSTANTS m1, m2, w1, w2, q1, q2, archive, delete, prune

MCType == [t \in TaskIds |-> CASE t = archive -> "ARCHIVE"
                               [] t = delete  -> "DELETE"
                               [] t = prune   -> "PRUNE"]

RequestSymmetry == Permutations(Requests)
WorkerSymmetry  == Permutations(Workers)
StoreSymmetry   == Permutations(Msgs)
=============================================================================
