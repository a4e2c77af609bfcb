---------------------------- MODULE MCBaleClient ----------------------------
(* Small instances of BaleClient. *)
EXTENDS BaleClient

\* Negative, zero, one group, and several groups.
MCNumbers == {-70, 0, 300000}

\* Empty, a two-byte letter, and a text whose bytes are a message.
MCTexts == {<<>>, <<195, 169>>, <<10, 1>>}
=============================================================================
