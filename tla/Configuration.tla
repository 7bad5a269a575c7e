---------------------------- MODULE Configuration ----------------------------
(***************************************************************************)
(* What is configured and typed: the inventory with its file (Inventory),   *)
(* the jump hosts that its entries name (JumpHosts), and the texts that are *)
(* quoted on their way to a host (ShellQuote).  Inventory takes the content *)
(* of an entry as one value; the lists of jump hosts are in `via`, and      *)
(* change as the loaded copy of one command after the other does.           *)
(***************************************************************************)
EXTENDS Inventory

CONSTANTS
    Endpoints, MaxVia,    \* of JumpHosts
    MaxLength             \* of ShellQuote

VARIABLES
    via,                  \* of JumpHosts
    text                  \* of ShellQuote

Jumps == INSTANCE JumpHosts
Quoting == INSTANCE ShellQuote

ASSUME ConfigurationAssumption == Jumps!JumpHostsAssumption

-----------------------------------------------------------------------------
(* Properties *)

\* A host can be resolved exactly when it needs no host that is missing or that needs
\* itself.
FailsIffBroken == Jumps!FailsIffBroken

\* The hops that the entry of a hop asks for are directly before it, the target is not
\* among the hops, and --via flattens as the inventory does.
HopsInOrder == Jumps!HopsInOrder

\* exec and job run change to exactly the directory asked for, through two and three
\* shells.
DirectoryKept == Quoting!DirectoryKept
=============================================================================
