------------------------------- MODULE MCSearch -------------------------------
(* Instances of Search for TLC. *)
EXTENDS Search

V(body, format) == [body |-> body, format |-> format]
P(title, labels, updated, versions) ==
  [title |-> title, labels |-> labels, trashed |-> FALSE, updated |-> updated, versions |-> versions]

(* Four prompts: two that changed their format, one of them with the words *)
(* spread over title and body, and one in the trash.                       *)
MCLibrary ==
  <<P("none", {"l1"}, 1, <<V("twice", "md")>>),
    P("phrase", {"l1", "p1"}, 4, <<V("none", "yaml"), V("phrase", "md")>>),
    P("head", {}, 3, <<V("phrase", "md"), V("tail", "yaml")>>),
    [P("none", {}, 2, <<V("phrase", "md")>>) EXCEPT !.trashed = TRUE]>>

(* Pages of two; a search for text; tags, one of them unknown; a project.  *)
MCQueries ==
  {Listing(FALSE, {"md"}, {}, {}, 2), ListTool({}, {}, 2),
   ListCommand(TRUE, {}, {}, 2), ListCommand(TRUE, {"md"}, {"l1"}, 2),
   Listing(FALSE, {}, {"l1", "unknown"}, {"p1"}, 1), SearchCommand(TRUE, {}, {"unknown"}, 4),
   SearchCommand(TRUE, {}, {}, 2), SearchCommand(FALSE, {}, {}, 2),
   SearchTool({}, {}, 3), PvSearchPrompts(TRUE, {}, {}, 1), PvSearchPrompts(FALSE, {}, {"p1"}, 2)}

MCNew == {P("words", {}, 0, <<V("inside", "md")>>)}
MCEdits == {V("twice", "yaml"), V("none", "md")}

=============================================================================
