----------------------------- MODULE MCAttendance -----------------------------
(* Alice, whose phone and the counter's CLI clock her in and out, a screen she  *)
(* claims tickets at, and two admins who put cards on her.                      *)
EXTENDS Attendance

CONSTANTS alice, phone, counter, screen, office, manager
=============================================================================
