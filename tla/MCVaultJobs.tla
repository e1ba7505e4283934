----------------------------- MODULE MCVaultJobs -----------------------------
(* Instances of VaultJobs for TLC. *)
EXTENDS VaultJobs

V(semver, body, format) == [semver |-> semver, body |-> body, format |-> format]
P(slug, trashed, versions) ==
  [slug |-> slug, title |-> "t0", labels |-> {}, trashed |-> trashed, versions |-> versions]
I(slug, body, format) ==
  [slug |-> slug, title |-> "t1", labels |-> {"l1"}, semver |-> 1, body |-> body,
   format |-> format, wellFormed |-> TRUE]
(* The clients are alike, and no property names one. *)
AnyClient == Permutations(Clients)

(* One prompt in use with a text that is not JSON, and one in the trash    *)
(* with a text that is YAML once trimmed.                                  *)
MCLibrary == 1 :> P("a", 0, <<V(1, "mapping", "json")>>) @@ 2 :> P("b", 1, <<V(1, "indented", "json")>>)

(* A bundle that names a slug twice, one that meets the trash, and files.  *)
Bundle1 == <<I("a", "text", "markdown"), I("c", "object", "json"), I("a", "object", "json")>>
Bundle2 == <<I("c", "text", "yaml"), I("b", "text", "markdown"), I("a", "text", "markdown")>>
Text == <<I("x", "text", "yaml")>>
MCRequests ==
  {ImportBundle(Bundle1, "addVersion"), ImportBundle(Bundle2, "skip"),
   ImportBundleFile("addVersion"), ImportBundleFile("skip"),
   ImportFile(I("c", "object", "json")), BulkImport(Bundle2, FALSE), ImportTool(Bundle2),
   PlannerBucket(<<I("b", "text", "markdown"), I("c", "text", "json")>>),
   OnPrompt("write", <<I("x", "mapping", "yaml")>>), OnPrompt("edit", Text),
   OnPrompt("update", Text), OnPrompt("version", Text),
   OnPrompt("duplicate", <<I("c", "text", "markdown")>>),
   OnPrompt("convert", <<I("c", "text", "json")>>),
   [OnPrompt("convert", Text) EXCEPT !.policy = "addVersion"],
   OnPrompt("trash", <<>>), OnPrompt("restore", <<>>), OnPrompt("purge", <<>>),
   OnPrompt("delete", <<>>),
   OnLibrary("restoreLatest"), OnLibrary("repair"), OnLibrary("export"),
   BulkExport("asIs", TRUE), BulkExport("json", FALSE),
   OnLibrary("snapshot"), OnLibrary("restoreSnapshot"), OnLibrary("migrate")}

MCDesktop == {V(2, "broken", "yaml")}

(* The source: a tag in two cases; then one renamed and one more tagging.  *)
Tag(id, word, case) == [id |-> id, name |-> [word |-> word, case |-> case], kind |-> "label"]
Tagging(id, tag, entity) == [id |-> id, tag |-> tag, entity |-> entity]
MCSources ==
  <<[tags |-> <<Tag("t1", "red", 1), Tag("t2", "red", 2)>>,
     taggings |-> <<Tagging("g1", "t1", "p"), Tagging("g2", "t2", "q"), Tagging("g3", "t9", "p")>>],
    [tags |-> <<Tag("t1", "red", 1), Tag("t2", "blue", 2), Tag("t3", "red", 3)>>,
     taggings |-> <<Tagging("g1", "t1", "p"), Tagging("g4", "t3", "q")>>]>>
MCAppTags == {[id |-> "a1", name |-> [word |-> "red", case |-> 3], kind |-> "label", entity |-> "q"]}

=============================================================================
