------------------------------- MODULE MCHookIO -------------------------------
(***************************************************************************)
(* An instance of HookIO for TLC: reads of one fd, with and without a time.*)
(***************************************************************************)
EXTENDS HookIO, TLC

CONSTANTS f1, f2

MCMaxCalls == (f1 :> 2) @@ (f2 :> 1)
MCFds == {0}
MCNever == -1
MCTimeouts == {1, MCNever}
MCReads == {{"READ", "timeout"}}

=============================================================================
