---------------------------- MODULE MCMetaCache ----------------------------
(* Instances of MetaCache: a directory with two files under the root.      *)
EXTENDS MetaCache, TLC

CONSTANTS d, f, g

MCParent == (d :> Root) @@ (f :> d) @@ (g :> d)

Full == {"full_metadata"}
Pinned == {"versioned_address"}

Do(op, n) == [op |-> op, node |-> n, to |-> n]
Rename(n, to) == [op |-> "rename", node |-> n, to |-> to]

Scenario(present, stats, lists, mutations, foreign) ==
  [present |-> present, stats |-> stats, lists |-> lists, mutations |-> mutations,
   foreign |-> foreign, paged |-> FALSE, watched |-> foreign # {}, ages |-> FALSE,
   max_entries |-> 3]

\* Stats and listings of one file against the mutations of it.
Objects == Scenario({d, f}, {<<f, {}>>, <<f, Full>>}, {<<d, Pinned>>},
                    {Do("write", f), Do("delete", f), Rename(f, g)}, {})

\* Listings at two depths against the mutations of a directory.
Folders == Scenario({d, f}, {<<f, {}>>, <<d, {}>>}, {<<Root, {}>>},
                    {Do("delete_directory", d), Do("rename_directory", d), Do("write", f)}, {})

\* A watch stream that lapses, breaks and ends.
Watched == Scenario({d, f}, {<<f, {}>>}, {<<d, {}>>},
                    {}, {Do("write", f), Do("delete", f), Do("delete_directory", d)})

\* Pages cut short, listings asked for every flag, rows that age, and a budget
\* that is too small for all of them.
Paged == [Scenario({d, f, g}, {<<f, {}>>, <<f, Full>>}, {<<d, Full \cup Pinned>>}, {}, {})
            EXCEPT !.paged = TRUE, !.ages = TRUE]

\* Listings of two files that are over the budget.
Tight == [Scenario({d, f}, {<<f, {}>>}, {<<d, {}>>}, {Do("write", g)}, {})
            EXCEPT !.max_entries = 1, !.ages = TRUE]

MCScenarios == {Objects, Folders, Watched, Paged, Tight}

Symmetry == Permutations(Callers)

=============================================================================
