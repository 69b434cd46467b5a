------------------------------ MODULE EditRegister ------------------------------
(***************************************************************************)
(* What an atomic edit of a file promises, without temporary files: at any *)
(* moment the file holds one complete content, and the only way it changes *)
(* is that an editor replaces all of it by its own edit of a content that  *)
(* it read from the file.  Modify.tla is shown to implement this module.   *)
(***************************************************************************)

CONSTANT Editors

VARIABLES content,    \* the edits that have gone into the file
          read        \* [Editors -> the contents an editor may have read]

vars == <<content, read>>

Init ==
    /\ content = {}
    /\ read = [e \in Editors |-> {}]

\* The editor has yet to write, so what it reads is what it works from.
Read(e) ==
    /\ read' = [read EXCEPT ![e] = {content}]
    /\ UNCHANGED content

Replace(e) ==
    /\ \E base \in read[e] : content' = base \cup {e}
    /\ read' = [read EXCEPT ![e] = {}]

GiveUp(e) ==
    /\ read' = [read EXCEPT ![e] = {}]
    /\ UNCHANGED content

Next == \E e \in Editors : Read(e) \/ Replace(e) \/ GiveUp(e)

Spec == Init /\ [][Next]_vars
================================================================================
