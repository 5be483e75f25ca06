---------------------------- MODULE NamedArchive ----------------------------
(***************************************************************************)
(* What an editing session on a ZIP archive promises, with no overlay, no  *)
(* offsets and no bytes: a directory that maps each entry name to what the *)
(* entry holds, and an archive comment.  An edit changes exactly the names *)
(* it is given; writing the archive out and opening the result again       *)
(* changes nothing.  ZipModifier is shown to implement this specification. *)
(***************************************************************************)
EXTENDS Integers

CONSTANTS
  Stems,      \* entry paths without their trailing slash, numbered in byte order
  Content,    \* what an entry can hold
  Empty,      \* the content of an entry of zero bytes
  Comments,   \* archive comments
  NoComment,  \* the comment of zero bytes
  Absent      \* no entry under this name

VARIABLES
  directory,  \* name -> content, or Absent
  remark      \* the archive comment

vars == <<directory, remark>>

(* A name is a path; a trailing slash makes it the name of a directory. *)
Name == [stem : Stems, slash : BOOLEAN]

Exists(n) == directory[n] # Absent

Init ==
  /\ directory \in [Name -> Content \cup {Absent}]
  /\ remark \in Comments

(* A new entry never shadows one that is there. *)
Add(n, c) ==
  /\ ~Exists(n)
  /\ directory' = [directory EXCEPT ![n] = c]
  /\ UNCHANGED remark

Replace(n, c) ==
  /\ Exists(n)
  /\ directory' = [directory EXCEPT ![n] = c]
  /\ UNCHANGED remark

Remove(n) ==
  /\ Exists(n)
  /\ directory' = [directory EXCEPT ![n] = Absent]
  /\ UNCHANGED remark

(* The entry moves to a free name.  Under the name of a directory it may   *)
(* lose its bytes, and only there.                                         *)
Rename(from, to) ==
  /\ Exists(from)
  /\ ~Exists(to)
  /\ \E c \in IF to.slash THEN {directory[from], Empty} ELSE {directory[from]} :
       directory' = [directory EXCEPT ![from] = Absent, ![to] = c]
  /\ UNCHANGED remark

SetRemark(t) ==
  /\ remark' = t
  /\ UNCHANGED directory

Next ==
  \/ \E n \in Name, c \in Content : Add(n, c) \/ Replace(n, c)
  \/ \E n \in Name : Remove(n)
  \/ \E from, to \in Name : Rename(from, to)
  \/ \E t \in Comments : SetRemark(t)

Spec == Init /\ [][Next]_vars
=============================================================================
