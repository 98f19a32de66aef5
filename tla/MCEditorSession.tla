--------------------------- MODULE MCEditorSession ---------------------------
(* Small instances of EditorSession for TLC. *)
EXTENDS EditorSession, TLC

(* Windows are alike to every definition. *)
WindowsAlike == Permutations(Windows)

(* Bound: calls and answers under way at once.                             *)
FewCalls == Cardinality(requests) + Cardinality(answers) <= 2
=============================================================================
