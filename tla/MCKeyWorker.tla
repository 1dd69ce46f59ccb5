---------------------------- MODULE MCKeyWorker ----------------------------
\* Instances of KeyWorker for TLC.
EXTENDS KeyWorker, TLC

MCKeys == 1..4
MCFewKeys == 1..3
MCDevices == 0..2
\* the shas of key[0], key[1] and key[2] are in no particular order
MCDefaultKeys == (0 :> 2) @@ (1 :> 1) @@ (2 :> 3)
MCFreshUsages == {0, 1}
MCAborts == {"getByKey", "getLastKeyDevice", "assignDeviceBySha"}
MCConsume == MCAborts \cup {"consume"}
MCCommits == {"commit"}
MCSymmetry == Permutations(Threads)

\* Bound: a key is handed out past its queue only as long as there are no more
\* keys than main's own, nor about to be.
MCUploading == UNION {{buff[t][i] : i \in DOMAIN buff[t]} : t \in Threads}
MCBound == passedOver = {} \/ Stored \cup MCUploading \subseteq MCFewKeys
MCSpec == Init /\ [][Next /\ MCBound']_vars
=============================================================================
