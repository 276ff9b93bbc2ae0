----------------------------- MODULE MCBlockLog -----------------------------
(* Two payloads, one of which looks like a length; logs of a few bytes.    *)
EXTENDS BlockLog

MCRecord == {<<0>>, <<1, 0>>}

MCCompaction == {<<>>, <<<<1, 0>>>>, <<<<0>>, <<0>>>>}
=============================================================================
