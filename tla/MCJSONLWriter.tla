---------------------------- MODULE MCJSONLWriter ----------------------------
(***************************************************************************)
(* Two writers that call Write twice and two closers on a channel that     *)
(* holds one request, so that writers queue on the lock, on the channel    *)
(* and on the answer.                                                      *)
(***************************************************************************)
EXTENDS JSONLWriter

CONSTANTS w1, w2, c1, c2

MCWriters == {w1, w2}
MCClosers == {c1, c2}
=============================================================================
