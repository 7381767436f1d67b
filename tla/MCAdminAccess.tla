---------------------------- MODULE MCAdminAccess ----------------------------
(* Small instances of AdminAccess.                                         *)
EXTENDS AdminAccess, TLC

CONSTANTS t1, t2

TwoTabs == {t1, t2}
=============================================================================
