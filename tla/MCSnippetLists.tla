--------------------------- MODULE MCSnippetLists ---------------------------
(* Instances of SnippetLists for TLC. *)
EXTENDS SnippetLists

Ask(creator, facets, vis, limit, offset) ==
    [creator |-> creator, facets |-> facets, vis |-> vis, limit |-> limit,
     offset |-> offset]

Tag == <<"tags", "go">>
OneTag == {Tag}
Someone == CHOOSE u \in User : TRUE

\* The rows of a tag, in another spelling of public; their second page; one user's
\* private rows.
Inputs ==
    {Ask({}, {Tag}, "other", 0, 0), Ask({}, {Tag}, "public", 1, 1),
     Ask({Someone}, {}, "private", 0, 0)}
=============================================================================
