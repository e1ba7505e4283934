------------------------------ MODULE MCRecovery ------------------------------
(* Instances of Recovery for TLC. *)
EXTENDS Recovery

A == Original(10)
B == Original(20)
Imported == CopySlug(A, 1)

Plain == [title |-> "t1", copy |-> FALSE]
Other == [title |-> "t2", copy |-> FALSE]

V(semver, body, created) == [semver |-> semver, body |-> body, created |-> created]
P(slug, meta, vs) == [slug |-> slug, meta |-> meta, versions |-> vs]

MCUserSlugs == {A}
MCMetas == {Plain, Other}
MCDrafts == {[semver |-> 1, body |-> 1], [semver |-> 2, body |-> 1]}

(* A history of two versions listed newest first; a prompt and its copy; a *)
(* history with a version older than any edit; a file with one slug twice; *)
(* one with a prompt without versions.                                     *)
TwoVersions == <<P(A, Other, <<V(2, 2, 3), V(1, 1, 0)>>)>>
PromptAndCopy == <<P(Imported, Plain, <<V(1, 1, 1)>>), P(A, Plain, <<V(1, 1, 1)>>)>>
OldVersion == <<P(B, Plain, <<V(1, 1, 2)>>), P(A, Plain, <<V(2, 1, 0)>>)>>
SlugTwice == <<P(A, Plain, <<V(1, 1, 0)>>), P(A, Other, <<V(2, 1, 0)>>)>>
NoVersion == <<P(B, Plain, <<>>)>>

MCFiles == {TwoVersions, PromptAndCopy, OldVersion, SlugTwice, NoVersion}
OldFiles == {OldVersion}

=============================================================================
