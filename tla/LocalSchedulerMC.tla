-------------------------- MODULE LocalSchedulerMC --------------------------
(***************************************************************************)
(* Instances of LocalScheduler for TLC.                                    *)
(***************************************************************************)
EXTENDS LocalScheduler, TLC

CONSTANTS s1, s2, s3, t1, t2

\* Two kinds of resources.  s1 and s3 carry the same task id and fit beside
\* each other; s2 needs the whole node, so that both may have to wait for it
\* and it for either of them.
MCRes     == {"CPU", "GPU"}
MCTotal   == "CPU" :> 2 @@ "GPU" :> 1
MCTaskOf  == s1 :> t1 @@ s2 :> t2 @@ s3 :> t1
MCNeed    == s1 :> ("CPU" :> 1)
             @@ s2 :> ("CPU" :> 2 @@ "GPU" :> 1)
             @@ s3 :> ("CPU" :> 1 @@ "GPU" :> 1)

\* The instance for the claims that do not hold: two tasks that exclude each other.
MCTaskOf2 == s1 :> t1 @@ s2 :> t2
MCNeed2   == s1 :> ("CPU" :> 2) @@ s2 :> ("CPU" :> 1 @@ "GPU" :> 1)
=============================================================================
