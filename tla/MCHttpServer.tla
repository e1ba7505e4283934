----------------------------- MODULE MCHttpServer -----------------------------
(* Instances of HttpServer for TLC. *)
EXTENDS HttpServer

(* A token that may only read, and one that is dated in the future. *)
MCForeignTokens == {Token(0, 9, {"read"}), Token(4, 9, {"read", "write"})}

=============================================================================
