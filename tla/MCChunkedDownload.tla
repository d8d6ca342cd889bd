------------------------- MODULE MCChunkedDownload -------------------------
(* Small instances of ChunkedDownload: two jobs that share a local path. *)
EXTENDS ChunkedDownload, TLC

SamePath   == [j \in Jobs |-> "f"]
OwnSource  == [j \in Jobs |-> j]

\* Chunks of two: one job has a file of three positions, which is edited down to one; the
\* other a file of two, a whole number of chunks, which is edited down to nothing.
ShortAndEven == [o \in Jobs |-> [v \in 0 .. 1 |->
                    IF o = CHOOSE j \in Jobs : TRUE THEN 3 - 2 * v ELSE 2 - 2 * v]]
=============================================================================
