--------------------------- MODULE MCRdbmsLoader ---------------------------
(* Any kind of loader.  A PostgresLoader does not look at dropTable; one   *)
(* of each database has an empty table to load.                            *)
EXTENDS RdbmsLoader

CONSTANT k1

MCJobs ==
    {j \in Job :
        /\ j.database = "postgres" => ~j.dropTable
        /\ j.empty => ~j.dropTable /\ j.layout = k1}

=============================================================================
