-------------------------- MODULE SubjectRegister ---------------------------
(***************************************************************************)
(* What a user may expect of one subject file, whatever happens below: it  *)
(* is absent, or it is a set of lines that grows by the line of one write  *)
(* at a time and is given up only as a whole, by a deletion.  No write     *)
(* loses a line of another but one whose client waived the version check,  *)
(* and nothing in between can be seen.                                     *)
(***************************************************************************)
EXTENDS Integers

VARIABLES
    value,   \* the file: whether it exists, and its lines
    writes   \* the writes under way: the line each adds, the lines its client
             \* has read, and whether it waives the check

Absent == [exists |-> FALSE, lines |-> {}]
Holding(S) == [exists |-> TRUE, lines |-> S]

RegisterInit == value = Absent

\* A patch, an append or a synthesis adds its line, creating the file if need be.
Add(w) == value' = Holding(value.lines \cup {w.line})

\* A patch of a file that was deleted meanwhile makes it anew, as its client had it.
Revive(w) == ~value.exists /\ value' = Holding(w.read \cup {w.line})

\* A write with the version "new", or with none, takes the place of what it finds.
Overwrite(w) == w.waives /\ value' = Holding({w.line})

\* The pipeline makes a placeholder of a subject nobody wrote.
Place == ~value.exists /\ value' = Holding({})

Delete == value' = Absent

RegisterNext ==
    \/ Place
    \/ Delete
    \/ \E w \in writes : Add(w) \/ Revive(w) \/ Overwrite(w)

RegisterSpec == RegisterInit /\ [][RegisterNext]_value
=============================================================================
