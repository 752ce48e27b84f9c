------------------------ MODULE MCKnowledgeIngestion ------------------------
(* KnowledgeIngestion for TLC: the worker, one background task and one     *)
(* client, over one or two sources.                                        *)
EXTENDS KnowledgeIngestion
=============================================================================
