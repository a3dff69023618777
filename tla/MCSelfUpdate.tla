----------------------------- MODULE MCSelfUpdate -----------------------------
\* Releases for SelfUpdate: two of them bring the database to a new revision, and the
\* copies of the second sort before those of the first, as 1.2.10 does before 1.2.9.
EXTENDS SelfUpdate

Revisions == <<1, 2, 3>>
AsText    == <<2, 1, 3>>
=============================================================================
