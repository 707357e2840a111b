------------------------ MODULE ReviewJobsRefinement -------------------------
(***************************************************************************)
(* ReviewJobs, without cancels and crashes, implements JobLifecycle.       *)
(* While a record is being rewritten, what the file said last is the       *)
(* record the writer holds.                                                *)
(***************************************************************************)
EXTENDS ReviewJobs

Shown(j) ==
    IF Readable(j) THEN file[j]
    ELSE IF worker[j].cur # None THEN worker[j].cur
    ELSE IF lock[j] # None THEN thread[j][lock[j]].cur
    ELSE None

SeenIn(log) == {<<log[i].node, log[i].event>> : i \in DOMAIN log}

StatusShown(j) ==
    IF Shown(j) # None THEN Shown(j).status
    ELSE IF worker[j].pc \in {"unborn", "created"} THEN "NONE" ELSE "GONE"

SeenShown(j) == IF Shown(j) = None THEN {} ELSE SeenIn(Shown(j).node_events)

shownStatus == [j \in Jobs |-> StatusShown(j)]
shownSeen == [j \in Jobs |-> SeenShown(j)]

Lifecycle == INSTANCE JobLifecycle WITH status <- shownStatus, seen <- shownSeen

\* Every step of the files, locks and threads is a step of the lifecycle a
\* client is promised, or invisible to it: no status goes back, no event is
\* lost to another callback's write, no success misses a node.
ImplementsLifecycle == Lifecycle!Spec

=============================================================================
