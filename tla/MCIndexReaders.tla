--------------------------- MODULE MCIndexReaders ---------------------------
(* Requests in the worlds of MCIndexRefresh, about a principal and a resource *)
(* with several rows; the names of entities are in the reverse order of their *)
(* ids.                                                                       *)
EXTENDS IndexReaders, MCIndexRefresh

MCListings == {file}
MCDetails == {ann}
Alphabet == <<ann, attic, auditor, bob, cal, dan, dept, file, folder, team, vault>>
MCIdRank == [e \in MCEntity |-> CHOOSE n \in 1..11 : Alphabet[n] = e]
MCNameRank == [e \in MCEntity |-> 11 - MCIdRank[e]]
=============================================================================
