---------------------------- MODULE VmxOwnership ----------------------------
(***************************************************************************)
(* What KNHV promises about the memory VMX and its own code run from: it   *)
(* exists as long as any processor uses it, and once the driver cannot     *)
(* prove that it is unused it is kept for the life of the system.          *)
(***************************************************************************)
EXTENDS Naturals

CONSTANT Processors

VARIABLES
    users,      \* processors with VMX on, or with driver code or work pending
    storage,    \* VMX regions, contexts and work records
    halted      \* the machine was stopped by a bugcheck

ownershipVars == <<users, storage, halted>>

OwnershipInit ==
    /\ users = {}
    /\ storage = "none"
    /\ halted = FALSE

Allocate ==
    /\ storage = "none"
    /\ storage' = "held"
    /\ UNCHANGED <<users, halted>>

Enter(p) ==
    /\ storage # "none"
    /\ users' = users \cup {p}
    /\ UNCHANGED <<storage, halted>>

Leave(p) ==
    /\ users' = users \ {p}
    /\ UNCHANGED <<storage, halted>>

Free ==
    /\ storage = "held" /\ users = {}
    /\ storage' = "none"
    /\ UNCHANGED <<users, halted>>

\* There is no way back from "kept".
Keep ==
    /\ storage = "held"
    /\ storage' = "kept"
    /\ UNCHANGED <<users, halted>>

Halt ==
    /\ halted' = TRUE
    /\ UNCHANGED <<users, storage>>

OwnershipNext ==
    /\ ~halted
    /\ \/ Allocate \/ Free \/ Keep \/ Halt
       \/ \E p \in Processors : Enter(p) \/ Leave(p)

OwnershipSpec == OwnershipInit /\ [][OwnershipNext]_ownershipVars

=============================================================================
