---------------------------- MODULE MCReconcile ----------------------------
(* Instances of ReconcileApply for TLC: a namespace folder with one folder   *)
(* below it, one task in each, three task contents of which one is password- *)
(* backed, and two security descriptors.                                     *)
EXTENDS ReconcileApply

CONSTANTS ns, sub, upper, lower, c1, c2, cp, s0, s1

MCParent == [f \in {sub} |-> ns]
MCFolderOf == [x \in {upper, lower} |-> IF x = upper THEN ns ELSE sub]
MCDepth == [f \in {ns, sub} |-> IF f = ns THEN 1 ELSE 2]
MCRank == [x \in {upper, lower, ns, sub} |->
    CASE x = ns -> 0 [] x = sub -> 1 [] x = upper -> 2 [] x = lower -> 3]

Task(c, mine, on, s) == [content |-> c, marked |-> mine, enabled |-> on, sec |-> s]
Want(c, on, s) == [content |-> c, enabled |-> on, sec |-> s]
Start(a, b, nsSec, subSec) ==
    [x \in {upper, lower, ns, sub} |->
        CASE x = upper -> a [] x = lower -> b [] x = ns -> nsSec [] x = sub -> subSec]

NoTask == [x \in {} |-> Missing]

(* Manifests.  The first wants every kind of property of one task and a      *)
(* folder; the second two tasks, one of them with a password; the third      *)
(* nothing, so that prune may delete.                                        *)
Rich == [tasks |-> [x \in {upper} |-> Want(c1, TRUE, s1)], folders |-> [x \in {sub} |-> s1]]
Pair == [tasks |-> [x \in {upper, lower} |->
                        IF x = upper THEN Want(cp, TRUE, NoSec) ELSE Want(c1, FALSE, s1)],
         folders |-> [x \in {ns} |-> NoSec]]
Bare == [tasks |-> NoTask, folders |-> [x \in {ns} |-> s1]]

Starts ==
    {Start(Missing, Missing, Missing, Missing),
     Start(Task(c1, TRUE, FALSE, s0), Missing, s0, s0),
     Start(Task(cp, TRUE, TRUE, s0), Task(c2, TRUE, TRUE, s0), s0, s0),
     Start(Task(c2, FALSE, TRUE, s1), Missing, s0, Missing),
     Start(Task(c1, TRUE, TRUE, s1), Task(cp, TRUE, FALSE, s1), s1, s1)}

Job(mf, st, pr, ad, stop, allow) ==
    [manifest |-> mf, start |-> st, prune |-> pr, adopt |-> ad, stop_running |-> stop,
     allow_irreversible |-> allow, faults |-> 3, others |-> 0]
Disturbed(j, n, k) == [j EXCEPT !.faults = n, !.others = k]

(* Strict jobs refuse irreversible work; lenient ones allow it.  Prune and   *)
(* adopt go together: they enable disjoint kinds of change.                  *)
StrictJobs == {Job(mf, st, own, own, stop, FALSE) :
                  mf \in {Rich, Pair, Bare}, st \in Starts, own \in BOOLEAN, stop \in BOOLEAN}
LenientJobs == {Job(mf, st, TRUE, TRUE, stop, TRUE) :
                  mf \in {Rich, Pair, Bare}, st \in Starts, stop \in BOOLEAN}

(* Alone, any three calls fail or lose their response.  With another writer, *)
(* who acts twice, one call does.                                            *)
AloneJobs == StrictJobs \cup LenientJobs
ForeignJobs == {Disturbed(Job(mf, st, own, own, FALSE, FALSE), 1, 2) :
                   mf \in {Rich, Pair}, st \in Starts, own \in BOOLEAN}
MCJobs == AloneJobs \cup ForeignJobs

(* One foreign write and no fault are enough to mislead the attribution.     *)
OvertakenJobs == {Disturbed(j, 0, 1) : j \in ForeignJobs}

AllForeign == {Task(c, mine, TRUE, s1) : c \in {c1, c2}, mine \in BOOLEAN}
=============================================================================
