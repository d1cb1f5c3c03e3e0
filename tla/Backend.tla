------------------------------- MODULE Backend -------------------------------
(***************************************************************************)
(* What the sandbox boundary (the Backend interface of                     *)
(* internal/sandbox/backend.go) promises to the builder and the runner:    *)
(* a session is opened, its files are uploaded at once, commands run on    *)
(* them, files are read back, and it is closed.  A call may always fail,   *)
(* and then the session is only good for being closed.                     *)
(***************************************************************************)
EXTENDS Naturals, Sequences

CONSTANT Sessions

VARIABLES
  view,   \* "new", "open", "ready" (files uploaded), "closing" or "closed"
  want,   \* per session, the contents each uploaded file may have
  files,  \* the files commands of a ready session see
  got     \* the last file read back, None before

vars == <<view, files, got>>

Prefix(s, t) == Len(s) <= Len(t) /\ s = SubSeq(t, 1, Len(s))

Moves(s, from, to) ==
  /\ view[s] \in from
  /\ \E v \in to : view' = [view EXCEPT ![s] = v]

Empties(s) == files' = [files EXCEPT ![s] = <<>>]
OnlyFiles(s) == \A t \in Sessions \ {s} : files'[t] = files[t]

\* A session that nobody opens counts as closed.
Init ==
  /\ view \in [Sessions -> {"new", "closed"}]
  /\ files = [s \in Sessions |-> <<>>]

CreateSession(s) ==
  /\ Moves(s, {"new"}, {"open"})
  /\ UNCHANGED <<files, got>>

\* All files at once, unless the sandbox is lost by then; only an empty file
\* may be missing or stale.
UploadFiles(s) ==
  /\ Moves(s, {"open"}, {"ready"})
  /\ \/ Empties(s)
     \/ /\ OnlyFiles(s)
        /\ DOMAIN files'[s] \subseteq DOMAIN want[s]
        /\ \A n \in DOMAIN want[s] :
             <<>> \notin want[s][n] => n \in DOMAIN files'[s] /\ files'[s][n] \in want[s][n]
  /\ UNCHANGED got

\* A command may do anything to the files of its own session; without an upload
\* before, it is the only one.
Exec(s) ==
  /\ \/ Moves(s, {"ready"}, {"ready", "closing"})
     \/ Moves(s, {"open"}, {"closing"})
  /\ OnlyFiles(s)
  /\ UNCHANGED got

\* The contents of a file; a read that fails in the sandbox cuts it short.
ExportFiles(s) ==
  /\ Moves(s, {"ready"}, {"ready"})
  /\ \E n \in DOMAIN files[s] : Prefix(got', files[s][n])
  /\ UNCHANGED files

Fail(s) ==
  /\ Moves(s, {"new", "open", "ready"}, {"closing"})
  /\ Empties(s)
  /\ UNCHANGED got

\* The sandbox of an open session may be lost.
Lose(s) ==
  /\ Empties(s)
  /\ UNCHANGED <<view, got>>

Release(s) ==
  /\ Moves(s, {"closing"}, {"closed"})
  /\ Empties(s)
  /\ UNCHANGED got

Next == \E s \in Sessions :
  \/ CreateSession(s) \/ UploadFiles(s) \/ Exec(s) \/ ExportFiles(s)
  \/ Fail(s) \/ Lose(s) \/ Release(s)

Spec == Init /\ [][Next]_vars
=============================================================================
