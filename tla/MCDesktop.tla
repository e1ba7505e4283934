------------------------------ MODULE MCDesktop ------------------------------
(* The desktop application for TLC: its native vault, its page of advanced *)
(* tools, and its library with the editor.                                 *)
(*                                                                         *)
(* The three share no state, so a step of one says nothing of the others:  *)
(* each runs while the others stay as they begin.                          *)
EXTENDS MCNativeVault, PromptListPage, LibraryPages

(* A label with a comma, and the two it becomes. *)
MCRetyped == [tags \in Taggings |-> "two labels"]
MCAtFirst == [p \in Kept |-> CHOOSE row \in Rows : ~row.favorite /\ row.tags = "one, label"]

MCListed == [p \in PagePrompts |-> IF p = "p1" THEN {} ELSE {"t1"}]

(* The part that runs. *)
VARIABLE part

DesktopInit ==
  /\ part \in {"vault", "list", "library"}
  /\ Init /\ PageInit /\ LibraryInit
  /\ part # "vault" => rebuilt
  /\ part # "list" => ~inBrowser

DesktopNext ==
  /\ \/ part = "vault" /\ Next /\ UNCHANGED <<pageVars, libraryVars>>
     \/ part = "list" /\ PageNext /\ UNCHANGED <<vars, libraryVars>>
     \/ part = "library" /\ LibraryNext /\ UNCHANGED <<vars, pageVars>>
  /\ UNCHANGED part

DesktopSpec == DesktopInit /\ [][DesktopNext]_<<part, vars, pageVars, libraryVars>>

=============================================================================
