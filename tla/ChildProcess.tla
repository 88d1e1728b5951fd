---------------------------- MODULE ChildProcess ----------------------------
(***************************************************************************)
(* A spawned process as its parents see it: it writes lines to a standard  *)
(* output and a standard error that are pipes of bounded capacity, blocks  *)
(* while the pipe it writes to is full, and exits, is killed, or hangs for *)
(* ever.  It may leave behind a descendant that has inherited both pipes   *)
(* and keeps them open for as long as it likes.                            *)
(***************************************************************************)
EXTENDS Naturals, Sequences

CONSTANTS
    Lines,          \* what a line of standard output can be
    MaxLines,       \* bound on the lines a child writes to each stream
    PipeCapacity    \* lines a pipe holds

ASSUME PipesHoldSomething == PipeCapacity \in Nat \ {0} /\ MaxLines \in Nat

VARIABLES
    child,      \* "none", "running", or how it ended: "ok", "failed", "signal"
    todo,       \* lines the child will still write: [out |-> n, err |-> n]
    out, err,   \* the pipes: unread lines, number of unread lines
    written,    \* every line the child has written to standard output
    heir        \* a descendant of the child holds the pipes open

childVars == <<child, todo, out, err, written, heir>>

Ended == child \in {"ok", "failed", "signal"}
ReaderSeesEnd == Ended /\ ~heir     \* of a pipe with nothing left in it

Blocked ==
    /\ child = "running"
    /\ \/ todo.out > 0 /\ Len(out) = PipeCapacity
       \/ todo.err > 0 /\ err = PipeCapacity

NoChild ==
    /\ child = "none" /\ heir = FALSE
    /\ todo = [out |-> 0, err |-> 0]
    /\ out = <<>> /\ err = 0 /\ written = <<>>

\* Command::spawn.
Spawn ==
    /\ child' = "running" /\ heir' = FALSE
    /\ \E n, m \in 0..MaxLines : todo' = [out |-> n, err |-> m]
    /\ out' = <<>> /\ err' = 0 /\ written' = <<>>

\* Nobody holds the read ends any more, or ever did; child and pipes are forgotten.
Forget ==
    /\ child' = "none" /\ heir' = FALSE
    /\ todo' = [out |-> 0, err |-> 0]
    /\ out' = <<>> /\ err' = 0 /\ written' = <<>>

WriteLine ==
    /\ child = "running" /\ todo.out > 0 /\ Len(out) < PipeCapacity
    /\ \E l \in Lines : out' = Append(out, l) /\ written' = Append(written, l)
    /\ todo' = [todo EXCEPT !.out = @ - 1]
    /\ UNCHANGED <<child, err, heir>>

Complain ==
    /\ child = "running" /\ todo.err > 0 /\ err < PipeCapacity
    /\ err' = err + 1
    /\ todo' = [todo EXCEPT !.err = @ - 1]
    /\ UNCHANGED <<child, out, written, heir>>

LeaveHeir ==
    /\ child = "running" /\ ~heir
    /\ heir' = TRUE
    /\ UNCHANGED <<child, todo, out, err, written>>

HeirCloses ==
    /\ heir
    /\ heir' = FALSE
    /\ UNCHANGED <<child, todo, out, err, written>>

\* A child that has written everything exits; a signal may end it at any time.
Exit ==
    /\ child = "running"
    /\ \/ child' = "signal"
       \/ todo = [out |-> 0, err |-> 0] /\ child' \in {"ok", "failed"}
    /\ UNCHANGED <<todo, out, err, written, heir>>

ChildStep == WriteLine \/ Complain \/ LeaveHeir \/ HeirCloses \/ Exit

-----------------------------------------------------------------------------
(* What a parent does to it.                                               *)

ReadLine ==     \* taken from a pipe that holds something
    /\ out # <<>>
    /\ out' = Tail(out)
    /\ UNCHANGED <<child, todo, err, written, heir>>

ReadError ==
    /\ err > 0
    /\ err' = err - 1
    /\ UNCHANGED <<child, todo, out, written, heir>>

\* SIGKILL, which a process that has ended does not mind.
Kill ==
    /\ child' = IF child = "running" THEN "signal" ELSE child
    /\ UNCHANGED <<todo, out, err, written, heir>>
=============================================================================
