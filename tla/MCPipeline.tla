----------------------------- MODULE MCPipeline -----------------------------
(***************************************************************************)
(* The applications around Pipeline.                                       *)
(***************************************************************************)
EXTENDS Pipeline

\* Two writers, like those of rtcmfilter.
TwoUnbuffered == <<0, 0>>
\* A writer like rtcmfilter's and a display like displayrtcm3's.
OneBuffered == <<0, 2>>
=============================================================================
