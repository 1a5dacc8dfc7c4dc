--------------------------- MODULE DecodeEntities ---------------------------
(***************************************************************************)
(* The migration that decodes stored texts, on one collection with a       *)
(* unique name: runs claim a marker, record each edit before writing it,   *)
(* may die at any point, and leave what they did to the next run.          *)
(***************************************************************************)
EXTENDS Naturals, FiniteSets

CONSTANTS
    Run, Doc, Name, Null,
    Decode,      \* what a name is decoded to, in one pass
    MaxFailed,   \* bound on the writes that fail
    MayOverlap   \* a run is taken over without making sure that it is dead

DecodeEntitiesAssumption ==
    /\ Decode \in [Name -> Name]
    /\ Null \notin Run \cup Doc \cup Name
    /\ MaxFailed \in Nat /\ MayOverlap \in BOOLEAN

VARIABLES
    names,     \* the names in the database
    progress,  \* migration_progress
    marker,    \* the run marker in migrations
    run,       \* the processes
    failed,    \* writes that failed
    orig,      \* the names before the migration
    typed      \* documents renamed by a user after the migration

vars == << names, progress, marker, run, failed, orig, typed >>

NoRecord == [status |-> "none", from |-> Null, to |-> Null]
Start == [at |-> "start", recorded |-> {}, open |-> {}, todo |-> {}, plan |-> {},
          waiting |-> {}, edit |-> Null, result |-> "none", gained |-> FALSE, failed |-> FALSE]

Init ==
    /\ names \in {n \in [Doc -> Name] : \A d, e \in Doc : n[d] = n[e] => d = e}
    /\ progress = [d \in Doc |-> NoRecord]
    /\ marker = [status |-> "none", lock |-> Null]
    /\ run = [r \in Run |-> Start]
    /\ failed = 0
    /\ orig = names /\ typed = {}

\* Records and processes keep their shape; names are unique; only the planned
\* edit of a document is recorded.
TypeOK ==
    /\ names \in [Doc -> Name] /\ \A d, e \in Doc : names[d] = names[e] => d = e
    /\ \A d \in Doc : progress[d].status # "none" => progress[d].to = Decode[progress[d].from]
    /\ marker.status \in {"none", "running", "incomplete", "complete"}
    /\ marker.lock \in Run \cup {Null} /\ (marker.lock # Null) = (marker.status = "running")
    /\ \A r \in Run : LET p == run[r] IN
         /\ p.at \in {"start", "records", "plan", "write", "apply", "mark", "end", "dead"}
         /\ p.plan \subseteq Doc \X Name \X Name /\ p.todo \subseteq p.plan
         /\ p.waiting \subseteq p.plan \ p.todo
    /\ failed \in 0..MaxFailed /\ typed \subseteq Doc

-----------------------------------------------------------------------------
Alive(r) == run[r].at \notin {"start", "end", "dead"}

\* An edit <<document, from, to>> of the plan.
Edit(d) == << d, names[d], Decode[names[d]] >>
Settled == {"done", "moved", "collision"}

\* --resume-stale takes a running marker over; the operator made sure that
\* its process is gone.
Claimable(r) ==
    \/ marker.status \in {"none", "incomplete"}
    \/ marker.status = "running" /\ (MayOverlap \/ ~Alive(marker.lock))

Claim(r) ==
    /\ run[r].at = "start" /\ Claimable(r)
    /\ marker' = [status |-> "running", lock |-> r]
    /\ run' = [run EXCEPT ![r].at = "records"]
    /\ UNCHANGED << names, progress, failed, orig, typed >>

\* What earlier runs planned.
Records(r) ==
    /\ run[r].at = "records"
    /\ LET seen == {d \in Doc : progress[d].status # "none"} IN
       run' = [run EXCEPT ![r].at = "plan", ![r].recorded = seen,
           ![r].open = {d \in seen : progress[d].status \notin Settled}]
    /\ UNCHANGED << names, progress, marker, failed, orig, typed >>

\* progressState: an open edit is retried if the document holds its old
\* value; documents without a record are planned.
Planned(r) ==
    {<< d, progress[d].from, progress[d].to >> :
        d \in {e \in run[r].open : names[e] = progress[e].from}}
    \cup {Edit(d) : d \in {e \in Doc \ run[r].recorded : Decode[names[e]] # names[e]}}

\* guardUnique: edits whose new name nobody holds or would hold.
Free(edits) ==
    {e \in edits : /\ \A d \in Doc \ {e[1]} : names[d] # e[3]
                   /\ \A f \in edits \ {e} : f[3] # e[3]}

Plan(r) ==
    /\ run[r].at = "plan"
    /\ LET edits == Planned(r) IN
       run' = [run EXCEPT ![r].at = "write", ![r].plan = edits, ![r].gained = TRUE,
           ![r].todo = Free(edits), ![r].waiting = edits \ Free(edits)]
    /\ UNCHANGED << names, progress, marker, failed, orig, typed >>

-----------------------------------------------------------------------------
\* write: the record, the document, the outcome

Record(r) ==
    /\ run[r].at = "write"
    /\ \E e \in run[r].todo :
         /\ progress' = [progress EXCEPT ![e[1]] =
                           [status |-> "pending", from |-> e[2], to |-> e[3]]]
         /\ run' = [run EXCEPT ![r].at = "apply", ![r].edit = e[1],
                               ![r].todo = @ \ {e}]
    /\ UNCHANGED << names, marker, failed, orig, typed >>

EditOf(r) == CHOOSE e \in run[r].plan : e[1] = run[r].edit

Outcome(r, what) ==
    run' = [run EXCEPT ![r].at = "mark", ![r].result = what,
        ![r].gained = @ \/ what = "done",
        ![r].failed = @ \/ what = "failed",
        ![r].waiting = IF what = "collision" THEN @ \cup {EditOf(r)} ELSE @]

Apply(r) ==
    /\ run[r].at = "apply"
    /\ LET e == EditOf(r)
           taken == \E d \in Doc \ {e[1]} : names[d] = e[3]
       IN \/ /\ names[e[1]] # e[2] /\ Outcome(r, "moved")
             /\ UNCHANGED << names, failed >>
          \/ /\ names[e[1]] = e[2] /\ taken /\ Outcome(r, "collision")
             /\ UNCHANGED << names, failed >>
          \/ /\ names[e[1]] = e[2] /\ ~taken /\ Outcome(r, "done")
             /\ names' = [names EXCEPT ![e[1]] = e[3]]
             /\ UNCHANGED failed
          \/ /\ failed < MaxFailed /\ failed' = failed + 1
             /\ Outcome(r, "failed")
             /\ UNCHANGED names
    /\ UNCHANGED << progress, marker, orig, typed >>

Mark(r) ==
    /\ run[r].at = "mark"
    /\ \/ progress' = [progress EXCEPT ![run[r].edit].status = run[r].result]
       \/ UNCHANGED progress
    /\ run' = [run EXCEPT ![r].at = "write", ![r].edit = Null, ![r].result = "none"]
    /\ UNCHANGED << names, marker, failed, orig, typed >>

\* The first round is over, or the last one landed something.
Again(r) == run[r].gained /\ Free(run[r].waiting) # {}

Retry(r) ==
    /\ run[r].at = "write" /\ run[r].todo = {} /\ Again(r)
    /\ LET kept == Free(run[r].waiting) IN
       run' = [run EXCEPT ![r].todo = kept, ![r].waiting = @ \ kept, ![r].gained = FALSE]
    /\ UNCHANGED << names, progress, marker, failed, orig, typed >>

Verdict(r) == IF run[r].failed THEN "incomplete" ELSE "complete"

Holds(r) == marker.lock = r

\* The marker of a run that was taken over is left to the other.
Finish(r) ==
    /\ run[r].at = "write" /\ run[r].todo = {} /\ ~Again(r)
    /\ run' = [run EXCEPT ![r].at = "end"]
    /\ marker' = (IF Holds(r) THEN [status |-> Verdict(r), lock |-> Null] ELSE marker)
    /\ UNCHANGED << names, progress, failed, orig, typed >>

Die(r) ==
    /\ Alive(r)
    /\ run' = [run EXCEPT ![r] = [Start EXCEPT !.at = "dead"]]
    /\ UNCHANGED << names, progress, marker, failed, orig, typed >>

\* The API runs again, and a user gives a document a name that may look encoded.
Type(d, n) ==
    /\ marker.status = "complete" /\ \A e \in Doc : names[e] # n
    /\ names' = [names EXCEPT ![d] = n]
    /\ typed' = typed \cup {d}
    /\ UNCHANGED << progress, marker, run, failed, orig >>

Next ==
    \/ \E r \in Run : \/ Claim(r) \/ Records(r) \/ Plan(r) \/ Record(r) \/ Apply(r)
                      \/ Mark(r) \/ Retry(r) \/ Finish(r) \/ Die(r)
    \/ \E d \in Doc, n \in Name : Type(d, n)

Spec == Init /\ [][Next]_vars

-----------------------------------------------------------------------------
\* Whatever runs die or fail, a run decodes the text that was there before the
\* migration, once, and none that was typed since.
DecodedOnce ==
    \A d \in Doc : names'[d] # names[d] /\ run' # run =>
      d \notin typed /\ names[d] = orig[d] /\ names'[d] = Decode[orig[d]]

\* A complete migration left only real duplicates encoded.
CompleteMeansDecoded ==
    marker.status = "complete" /\ typed = {} => \A d \in Doc :
        names[d] = Decode[orig[d]]
        \/ \E e \in Doc \ {d} : Decode[orig[d]] \in {names[e], Decode[orig[e]]}

\* No run ends the migration while another holds it, and once complete it
\* stays so.
MarkerKept ==
    /\ marker.status = "complete" => marker' = marker
    /\ \A r \in Run : run[r].at = "write" /\ run'[r].at = "end" /\ marker.lock # r
         => marker' = marker
=============================================================================
