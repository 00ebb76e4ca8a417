----------------------------- MODULE AtomicFile -----------------------------
(***************************************************************************)
(* What a caller of atomicWrite (guard/common.go) relies on: the file is a *)
(* register.  A save replaces the whole content in one step or leaves it   *)
(* as it was, says which, and a crash falls on one side of that step.      *)
(***************************************************************************)
CONSTANTS
    Callers,    \* processes that save the file
    Documents,  \* what they save
    Absent      \* the content of a file never saved, or no save under way

VARIABLES
    content,    \* the document in the file
    pending,    \* the document each caller is saving
    answer      \* what each caller's last save returned

fileVars == <<content, pending, answer>>

FileInit ==
    /\ content \in Documents \cup {Absent}
    /\ pending = [c \in Callers |-> Absent]
    /\ answer = [c \in Callers |-> "none"]

Begin(c, d) ==
    /\ pending[c] = Absent
    /\ pending' = [pending EXCEPT ![c] = d]
    /\ answer' = [answer EXCEPT ![c] = "none"]
    /\ UNCHANGED content

\* A save refused before it has started.
Refuse(c) ==
    /\ pending[c] = Absent
    /\ answer' = [answer EXCEPT ![c] = "err"]
    /\ UNCHANGED <<content, pending>>

\* The save is over for its caller.
End(c, a) ==
    /\ pending[c] # Absent
    /\ pending' = [pending EXCEPT ![c] = Absent]
    /\ answer' = [answer EXCEPT ![c] = a]

Commit(c) == End(c, "ok") /\ content' = pending[c]
Fail(c) == End(c, "err") /\ UNCHANGED content
Die(c) == End(c, "none") /\ UNCHANGED content

CrashAll ==
    /\ pending' = [c \in Callers |-> Absent]
    /\ answer' = [c \in Callers |-> "none"]
    /\ UNCHANGED content

FileNext ==
    \/ \E c \in Callers : Refuse(c) \/ Commit(c) \/ Fail(c) \/ Die(c)
    \/ \E c \in Callers, d \in Documents : Begin(c, d)
    \/ CrashAll

FileSpec == FileInit /\ [][FileNext]_fileVars
=============================================================================
