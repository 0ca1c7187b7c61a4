----------------------------- MODULE MCLogStream -----------------------------
(* stream_logs with a child that writes up to three lines.  Three lines   *)
(* let both pipes hold data when the child exits, with a non-UTF-8 line    *)
(* before or after valid ones.                                             *)
EXTENDS LogStream

MCMaxLines == 3
=============================================================================
