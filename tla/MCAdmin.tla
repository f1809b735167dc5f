------------------------------- MODULE MCAdmin -------------------------------
(* Small instances of Admin for TLC. *)
EXTENDS Admin, TLC

CONSTANTS u1, u2, root, guest, standard, other, third, n1, n2
TwoAdmins == {u1, u2}
Named2 == u1 :> root @@ u2 :> guest
NodeNames == {n1, n2}
FlowNames == {standard, other, third}
Mix == {
  {"login", "password", "createUser", "deleteUser", "logout", "apiToken",
   "manualDump", "restore", "restart"},
  {"createFlow", "updateFlow", "deleteFlow", "importFlow", "setDefault",
   "createTemplate", "updateTemplate", "deleteTemplate", "restart"},
  {"updateFlow", "setDefault", "deleteFlow", "patchSeries", "createJob",
   "patchJob", "resetTemplate", "restart"},
  {"createJob", "finishedJob", "createFlow", "deleteFlow", "deleteTemplate",
   "manualDump", "scheduledDump", "deleteBackup", "restore", "restart"},
  {"pairingCode", "pair", "createNode", "deleteNode", "provision", "manualDump", "restore",
   "restart"}}
=============================================================================
