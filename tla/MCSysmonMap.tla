---------------------------- MODULE MCSysmonMap ----------------------------
(* An instance of SysmonMap: a target and another process id, an executable  *)
(* whose image changes, an autostart key and one that weakens the host.  One *)
(* event of each way the mapping treats events: first of an object (files),  *)
(* counted (values set), by source process (remote thread).                  *)
EXTENDS SysmonMap

MCObj == {"exe", "file", "run", "weak"}

MCPayload ==
  [processCreate |-> {<<"exe", "h1">>, <<"exe", "h2">>},
   fileCreate    |-> {<<"file", "">>},
   registryKey   |-> {<<"run", "add">>, <<"run", "delete">>},
   registrySet   |-> {<<"weak", "">>},
   remoteThread  |-> {<<"exe", "">>}]

(* For the run about the subtree: processes that start and create files.     *)
MCSubtreePayload ==
  [processCreate |-> {<<"exe", "h1">>}, fileCreate |-> {<<"file", "">>}]
=============================================================================
