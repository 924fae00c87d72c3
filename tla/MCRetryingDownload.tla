------------------------- MODULE MCRetryingDownload -------------------------
(* Three threads over two permits; the delay reaches its cap before the    *)
(* last attempt.                                                           *)
EXTENDS RetryingDownload

CONSTANTS t1, t2, t3
=============================================================================
