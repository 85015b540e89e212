---------------------------- MODULE EditRegister ----------------------------
(***************************************************************************)
(* What the write path promises for one file: a versioned register to      *)
(* which edits are applied one at a time. An edit is added to the current  *)
(* content, an overwrite replaces it, and each makes the next version.     *)
(***************************************************************************)
EXTENDS Naturals

CONSTANTS
  NoFile,    \* the register has no content yet
  MaxEdits   \* edits are numbered 1..MaxEdits

VARIABLES
  version,   \* version of the content
  content    \* the edits in the content, or NoFile

vars == <<version, content>>

Init ==
  /\ version = 0
  /\ content \in {{}, NoFile}

\* An edit that is not in the content yet is merged into it.
Edit(e) ==
  /\ content' = (IF content = NoFile THEN {} ELSE content) \cup {e}
  /\ content' # content
  /\ version' = version + 1

\* The content is replaced as a whole.
Overwrite(e) ==
  /\ content' = {e}
  /\ content' # content
  /\ version' = version + 1

Next == \E e \in 1..MaxEdits : Edit(e) \/ Overwrite(e)

Spec == Init /\ [][Next]_vars

=============================================================================
