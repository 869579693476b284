------------------------------ MODULE KnownJobs ------------------------------
(***************************************************************************)
(* What the prow informer promises, without lists, names and merging: the  *)
(* set of jobs it knows is, after every list, the current copy of each job *)
(* prow shows, plus the last copy seen of each job prow no longer shows,   *)
(* less whatever has expired.                                              *)
(***************************************************************************)
EXTENDS Integers

CONSTANTS MaxAge

VARIABLES
    now,    \* the clock
    live,   \* the copies of jobs prow currently shows
    index,  \* the copies of jobs in the index of finished jobs
    seeded, \* whether the index has been read
    known   \* the copies of jobs the informer knows

vars == <<now, live, index, seeded, known>>

\* A job that has not ended is as old as its creation.
Expired(c) == (IF c.completed = 0 THEN c.created ELSE c.completed) < now - MaxAge

Visible == {c \in live : c.phase # "triggered" /\ ~Expired(c)}

Refreshed(base) ==
    Visible \cup {c \in base : ~Expired(c) /\ \A v \in Visible : v.build # c.build}

Init == known = {} /\ seeded = FALSE

\* The index is read once; a scan that fails yields only a part of it.
Seed(part) == ~seeded /\ part \subseteq index

Relist ==
    /\ \/ seeded /\ known' = Refreshed(known)
       \/ \E part \in SUBSET index : Seed(part) /\ known' = Refreshed(part)
    /\ seeded' = TRUE
    /\ UNCHANGED <<now, live, index>>

\* The index was read but prow did not answer: nothing is published.
SeedOnly ==
    /\ \E part \in SUBSET index : Seed(part) /\ known' = part
    /\ seeded' = TRUE
    /\ UNCHANGED <<now, live, index>>

\* Time passes and prow's view changes; what is known does not.
Environment == UNCHANGED <<seeded, known>>

Next == Relist \/ SeedOnly \/ Environment

Spec == Init /\ [][Next]_vars
=============================================================================
