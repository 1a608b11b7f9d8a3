-------------------------------- MODULE Trips --------------------------------
(***************************************************************************)
(* What becomes of one message between the programs of the system, three   *)
(* ways: of the arguments of a call between two components (WireTrip), of  *)
(* a call of the registry (RegistryCall), and of the names that bring a    *)
(* call to its provider (Addressing).  They share no state and one codec.  *)
(***************************************************************************)
EXTENDS WireTrip, RegistryCall, Addressing

VARIABLE trip

tripsVars == <<trip, vars, callVars, addressingVars>>

NoArguments ==
    /\ ours = <<>> /\ theirs = <<>> /\ phase = "idle"
    /\ func = "" /\ args = <<>> /\ wire = <<>> /\ got = <<>>

TripsInit ==
    \/ trip = "arguments" /\ Init /\ NoCall /\ AtRest
    \/ trip = "registry" /\ NoArguments /\ CallInit /\ AtRest
    \/ trip = "address" /\ NoArguments /\ NoCall /\ AtRest

TripsNext ==
    /\ UNCHANGED trip
    /\ \/ trip = "arguments" /\ Next /\ UNCHANGED <<callVars, addressingVars>>
       \/ trip = "registry" /\ CallNext /\ UNCHANGED <<vars, addressingVars>>
       \/ trip = "address" /\ AddressingNext /\ UNCHANGED <<vars, callVars>>

TripsSpec == TripsInit /\ [][TripsNext]_tripsVars

\* Each of the three is well formed.
TripsTypeOK == TypeOK /\ CallTypeOK /\ AddressingTypeOK
=============================================================================
