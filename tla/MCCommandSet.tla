---------------------------- MODULE MCCommandSet ----------------------------
(***************************************************************************)
(* The commands of CorePlugin::createCommands: three group modes, and      *)
(* "show offline", which is on the toolbar as well; four menus.            *)
(***************************************************************************)
EXTENDS CommandSet
=============================================================================
