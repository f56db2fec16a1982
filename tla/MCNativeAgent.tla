--------------------------- MODULE MCNativeAgent ---------------------------
(* Small instances of NativeAgent for TLC. *)
EXTENDS NativeAgent

\* A batch superseded by a model server; one server; one batch.
BatchThenServer == <<"batch", "server">>
OneServer       == <<"server">>
OneBatch        == <<"batch">>
=============================================================================
