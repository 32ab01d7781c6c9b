----------------------------- MODULE CaptureLog -----------------------------
(***************************************************************************)
(* What the save modes promise of the captures: a log in which every       *)
(* capture that is reported as saved has been found.  With numbered names  *)
(* ("save numbered duplicates") the log only grows.  With overwriting a    *)
(* capture may be replaced, but only while another one is being saved.  A  *)
(* capture that is killed or fails may or may not have reached the log.    *)
(***************************************************************************)
CONSTANT Captures
VARIABLES kept,     \* the captures in the log
          verdict,  \* what became of each capture
          numbered  \* the save mode is that of numbered names

vars == <<kept, verdict, numbered>>

Init == /\ kept = {} /\ verdict = [c \in Captures |-> "waiting"]
        /\ numbered \in BOOLEAN

Start(c) ==
    /\ verdict[c] = "waiting"
    /\ \E v \in {"running", "skipped", "failed"} : verdict' = [verdict EXCEPT ![c] = v]
    /\ UNCHANGED <<kept, numbered>>

Keep(c) ==
    /\ verdict[c] = "running" /\ c \notin kept
    /\ kept' = kept \cup {c}
    /\ UNCHANGED <<verdict, numbered>>

Replace(c) ==
    /\ ~numbered
    /\ verdict[c] = "running" /\ c \notin kept
    /\ \E d \in kept : kept' = kept \ {d}
    /\ UNCHANGED <<verdict, numbered>>

Report(c) ==
    /\ verdict[c] = "running"
    /\ \/ c \in kept /\ \E v \in {"saved", "savedPngOnly"} : verdict' = [verdict EXCEPT ![c] = v]
       \/ c \notin kept /\ verdict' = [verdict EXCEPT ![c] = "failed"]
    /\ UNCHANGED <<kept, numbered>>

Crash ==
    /\ verdict' = [c \in Captures |-> IF verdict[c] = "running" THEN "lost" ELSE verdict[c]]
    /\ UNCHANGED <<kept, numbered>>

Next == Crash \/ \E c \in Captures : Start(c) \/ Keep(c) \/ Replace(c) \/ Report(c)

Spec == Init /\ [][Next]_vars
=============================================================================
