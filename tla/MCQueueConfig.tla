--------------------------- MODULE MCQueueConfig ---------------------------
(* Instances of QueueConfig for TLC: the default queue and three classes.  *)
EXTENDS QueueConfig

CONSTANTS default, voice, video, bulk

FourQueues == <<default, voice, video, bulk>>
=============================================================================
