---------------------------- MODULE MCHookQueue ----------------------------
(***************************************************************************)
(* HookQueue for TLC.                                                      *)
(***************************************************************************)
EXTENDS HookQueue

CONSTANTS chat, inv

\* Nothing under the key at first, as after an installation; then one of the
\* two message ids.
MCRegistries == {{}, {inv}}

MCMessageIds == {chat, inv}
=============================================================================
