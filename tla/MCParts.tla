------------------------------- MODULE MCParts -------------------------------
(***************************************************************************)
(* Model checking of the parts that are small enough for one run: the NVMe *)
(* driver, the network card's driver, the keyboard, the programs of user   *)
(* space that Spring starts, and the ports of Ipc with a queue longer than *)
(* Ipc_safety.cfg has.  None of these modules reads or writes a variable   *)
(* of another and no property speaks of two of them, so a behaviour here   *)
(* runs one part, chosen at the start, while the others rest in an initial *)
(* state.                                                                  *)
(***************************************************************************)
EXTENDS Nvme, E1000, Ps2, Session

CONSTANTS Task, Spring, Name, MaxPort, MaxCapId, PortQueue, MAX_CAPS, ScanLimit

VARIABLES part,       \* the part that runs
          slots, next, queue, nextPort, registry, receiving, parked

Ports == INSTANCE Ipc WITH MAX_IN_FLIGHT <- PortQueue

ASSUME PartSizes == NetSizes /\ KbdSizes /\ SessionSizes

ipcVars == <<slots, next, queue, nextPort, registry, receiving, parked>>
partVars == <<part, vars, netVars, kbdVars, sesVars, ipcVars>>

PartsInit ==
    /\ part \in {"nvme", "e1000", "ps2", "session", "ipc"}
    /\ Init /\ NetInit /\ KbdInit /\ SessionInit /\ Ports!Init
    /\ part # "nvme" => LET d == CHOOSE e \in Data : TRUE
                        IN  /\ ~enabled
                            /\ dma = [i \in DOMAIN dma |-> d]
                            /\ disk = [l \in Lba |-> d]

PartsNext ==
    \/ /\ part = "nvme" /\ Next
       /\ UNCHANGED <<part, netVars, kbdVars, sesVars, ipcVars>>
    \/ /\ part = "e1000" /\ NetNext
       /\ UNCHANGED <<part, vars, kbdVars, sesVars, ipcVars>>
    \/ /\ part = "ps2" /\ KbdNext
       /\ UNCHANGED <<part, vars, netVars, sesVars, ipcVars>>
    \/ /\ part = "session" /\ SessionNext
       /\ UNCHANGED <<part, vars, netVars, kbdVars, ipcVars>>
    \/ /\ part = "ipc" /\ Ports!Next
       /\ UNCHANGED <<part, vars, netVars, kbdVars, sesVars>>

\* The fairness of each part, for the part that runs.
Fairness ==
    /\ WF_vars(part = "nvme" /\ Controller) /\ WF_vars(part = "nvme" /\ Driver)
    /\ WF_netVars(part = "e1000" /\ NetDriver)
    /\ WF_sesVars(part = "session" /\ Progress)
    /\ \A t \in Task :
          WF_ipcVars(part = "ipc" /\ \E room \in 0..MAX_CAPS : Ports!RecvResume(t, room))

PartsSpec == PartsInit /\ [][PartsNext]_partVars /\ Fairness

----------------------------------------------------------------------------
(* The properties that need a word about the part; the others are used as
   they are *)

\* The types of all the parts' state.
PartsTypeOK == TypeOK /\ NetTypeOK /\ KbdTypeOK /\ SessionTypeOK

\* Spring comes to its end, but for a Reflection that nobody tells to stop.
SessionEnds == part = "session" => SpringEnds

\* A message in the port of a blocked receiver is delivered: sys_recv returns.
ReceiverReturns == Ports!ReceiverReturns

=============================================================================
