------------------------------- MODULE MCChat -------------------------------
(* One letter and every byte linebuffer_push tells apart. *)
EXTENDS Chat

FewChars == {"q", CR, LF, NUL}
=============================================================================
