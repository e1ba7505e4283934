---------------------------- MODULE MCNativeVault ----------------------------
(* Instances of NativeVault for TLC. *)
EXTENDS NativeVault

A == Original(10)
B == Original(20)

V(semver, body, created) == [semver |-> semver, body |-> body, created |-> created]
P(slug, vs) ==
  [slug |-> slug, meta |-> [title |-> "t1", copy |-> FALSE, labels |-> {}], versions |-> vs]

MCUserSlugs == {A}
MCDrafts == {[semver |-> 1, body |-> 1]}

(* A history of two versions, newest first, beside the prompt of the user. *)
MCBackups == {<<P(B, <<V(1, 1, 0)>>), P(A, <<V(2, 2, 3), V(1, 1, 0)>>)>>}

(* The earlier application adds a version, then a prompt. *)
First == <<P(B, <<V(1, 1, 0)>>)>>
Second_ == <<P(B, <<V(1, 1, 0), V(2, 2, 1)>>)>>
Third == Second_ \o <<P(A, <<V(3, 3, 2)>>)>>
MCLegacy == <<First, Second_, Third>>

=============================================================================
