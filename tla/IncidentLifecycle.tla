------------------------- MODULE IncidentLifecycle -------------------------
(***************************************************************************)
(* What the incident workflow promises, with no request, transaction or    *)
(* lock in sight: an incident is filed once, then moves open -> in_review  *)
(* -> closed one edge at a time, and every move leaves exactly one entry   *)
(* in a log that is never rewritten (UC-06, UC-08, NFR-06).  Workflow.tla, *)
(* the model of the handlers, is shown to implement this specification.    *)
(***************************************************************************)
EXTENDS Sequences

CONSTANTS
    Incident,   \* incident identifiers
    User        \* whoever may author a move

VARIABLES
    state,      \* state[i]: where incident i is in the workflow
    log         \* log[i]: its moves, oldest first

lifecycleVars == <<state, log>>

Status == {"open", "in_review", "closed"}

\* The two legal edges, and nothing else (UC-08).
Allowed == {<<"open", "in_review">>, <<"in_review", "closed">>}

Entry == [from : Status, to : Status, by : User, note : {"text", "blank"}]

LifecycleInit ==
    /\ state \in [Incident -> {"unfiled", "open"}]
    /\ log = [i \in Incident |-> <<>>]

Submit(i) ==
    /\ state[i] = "unfiled"
    /\ state' = [state EXCEPT ![i] = "open"]
    /\ UNCHANGED log

\* One edge, one log entry, and no closing without a resolution note.
Move(i, e) ==
    /\ <<e.from, e.to>> \in Allowed
    /\ e.from = state[i]
    /\ e.to = "closed" => e.note = "text"
    /\ state' = [state EXCEPT ![i] = e.to]
    /\ log' = [log EXCEPT ![i] = Append(@, e)]

LifecycleNext ==
    \E i \in Incident : Submit(i) \/ \E e \in Entry : Move(i, e)

LifecycleSpec == LifecycleInit /\ [][LifecycleNext]_lifecycleVars
=============================================================================
