---------------------------- MODULE MCTransfers ----------------------------
(* One instance for the two transfers to the user's disk: a behaviour is of *)
(* one of them, the variables of the other stay as they start.              *)
EXTENDS WorkerTransfer

CONSTANTS p1, p2, MaxAborts, MaxRefreshes, MaxQueued

ASSUME TransfersAssumption == {MaxAborts, MaxRefreshes, MaxQueued} \subseteq Nat

VARIABLES kind, c_status, c_reconnecting, c_received, c_wrong, c_gen, c_run, c_chain,
          c_overtaken, c_all, c_final, c_promise

C == INSTANCE CloudTransfer WITH
        status <- c_status, reconnecting <- c_reconnecting, received <- c_received,
        wrong <- c_wrong, gen <- c_gen, run <- c_run, chain <- c_chain,
        overtaken <- c_overtaken, all <- c_all, final <- c_final, promise <- c_promise

\* The last part is the shorter one.
Uneven == [p \in Parts |-> IF p = p1 THEN 2 ELSE 1]

-----------------------------------------------------------------------------
cvars == <<c_status, c_reconnecting, c_received, c_wrong, c_gen, c_run, c_chain, c_overtaken,
           c_all, c_final, c_promise>>
everything == <<kind, vars, cvars>>
Of(k, A) == kind = k /\ A /\ UNCHANGED kind

InitTransfers == kind \in {"worker", "cloud"} /\ Init /\ C!Init

Worker == Of("worker", Next) /\ UNCHANGED cvars
Cloud == Of("cloud", C!Next) /\ UNCHANGED vars
NextTransfers == Worker \/ Cloud

SpecTransfers == InitTransfers /\ [][NextTransfers]_everything

\* The fairness of the two modules, each for its own behaviours.
FairTransfers ==
    /\ SpecTransfers
    /\ WF_everything(Of("worker", Poll) /\ UNCHANGED cvars)
    /\ \A r \in Runs : WF_everything(Of("worker", RunStep(r)) /\ UNCHANGED cvars)
    /\ WF_everything(Of("cloud", C!Written \/ C!EndSeen) /\ UNCHANGED vars)
    /\ WF_everything(Of("cloud", C!Ending) /\ UNCHANGED vars)
    /\ \A r \in C!Runs : WF_everything(Of("cloud", C!RunStep(r)) /\ UNCHANGED vars)

-----------------------------------------------------------------------------
\* A file that is closed as complete is whole; that of the cloud if no stream was
\* opened while chunks of its part waited to be written.
FilesAreWhole == FileIsWhole /\ C!FileIsWholeUnlessOvertaken

\* Each transfer ends, or shows failed parts that can be run again.
TransfersSettle ==
    (kind = "worker" => TransferSettles) /\ (kind = "cloud" => C!TransferSettles)
=============================================================================
