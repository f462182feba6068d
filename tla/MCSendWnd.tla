----------------------------- MODULE MCSendWnd -----------------------------
(* Small instances of SendWnd. *)
EXTENDS SendWnd

CONSTANTS m1, m2, m3, fin

User    == {m1, m2, m3}
Control == {fin}
=============================================================================
