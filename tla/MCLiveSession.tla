---------------------------- MODULE MCLiveSession ---------------------------
EXTENDS LiveSession

\* Chunk a carries the words 2a - 1 and 2a; of the second it shares with the
\* chunk before, either the last word comes back, in one segment with a new one,
\* or both words do, in segments of their own.
MCTranscriptions ==
  [a \in 1..MaxAudio |->
     CASE a = 1 -> {<<>>, <<<<1, 2>>>>}
       [] a = 2 -> {<<<<2, 3>>, <<4>>>>, <<<<1>>, <<2>>, <<3, 4>>>>}
       [] a = 3 -> {<<>>, <<<<4, 5>>, <<6>>>>}]
=============================================================================
