--------------------------- MODULE MCMigrations ---------------------------
EXTENDS Migrations

\* Thirds round down or up, eighths are ties at the second place, zero deaths
\* count as one.
MCScores == [points : 0..5, deaths : {0, 1, 3, 8}]

\* Six decimals in the service, five in the revision.
MCServiceUnits == [s \in Scores |-> 10000]
MCRevisionUnits == [s \in Scores |-> 1000]
============================================================================
