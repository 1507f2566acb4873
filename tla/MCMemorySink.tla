---------------------------- MODULE MCMemorySink ----------------------------
(* The symbol workers of match-spot share the topics of unmatched orders   *)
(* and of depth: two workers that send to one topic.                       *)
EXTENDS MemorySink

MCTopics == [w \in Workers |-> "deeps"]
=============================================================================
