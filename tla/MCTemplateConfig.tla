------------------------- MODULE MCTemplateConfig -------------------------
(* Instances of TemplateConfig for TLC.                                    *)
EXTENDS TemplateConfig, TLC

CONSTANTS a1, a2, p1, p2, x, y

Editing == {"delete", "set_copy", "update", "delete_qianchuan"}
Writing == {"cities", "account", "init"}
Creating == {"create", "create_qianchuan"}
CommandsOfRuns == [r \in Runs |-> CASE r = 1 -> Creating
                                     [] r = 2 -> {"create"} \cup Editing
                                     [] r = 3 -> {"delete"} \cup Writing]
AllOrNothing == {{}, {"creators", "titles", "links"}}
Interchangeable == Permutations(Advertisers) \cup Permutations(Products)
=============================================================================
