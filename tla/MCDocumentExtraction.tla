------------------------ MODULE MCDocumentExtraction ------------------------
(* One document of any size, and a server two of whose runs may overlap when  *)
(* the first has hung.                                                        *)
EXTENDS DocumentExtraction
CONSTANTS d1, i1, j1, j2
MCHome == [j \in Jobs |-> i1]
=============================================================================
