--------------------------- MODULE MCNotifications ---------------------------
EXTENDS Notifications

CONSTANTS r1, r2, s1, p1, restart, t1

MCReplicas == {r1, r2}
MCSessions == {s1}
MCSpawns == {p1}
MCTools == {t1}
=============================================================================
