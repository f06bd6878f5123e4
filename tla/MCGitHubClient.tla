--------------------------- MODULE MCGitHubClient ---------------------------
EXTENDS GitHubClient

MCQuota       == [b \in Buckets |-> IF b = "search" THEN 4 ELSE 6]
MCYellowFloor == [b \in Buckets |-> IF b = "search" THEN 2 ELSE 3]
MCRedFloor    == [b \in Buckets |-> 1]
=============================================================================
