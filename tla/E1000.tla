-------------------------------- MODULE E1000 --------------------------------
(***************************************************************************)
(* The network card and its driver: kernel/src/drivers/e1000.rs.           *)
(*                                                                         *)
(* configure sends a DHCPDISCOVER and looks for a DHCPOFFER in the frames  *)
(* that come in.  It runs with interrupts off and polls; the card          *)
(* (external) runs beside it and the network (external) behind that: it    *)
(* loses, delays and repeats what it likes, and brings frames that nobody  *)
(* has asked for.                                                          *)
(*                                                                         *)
(* Of a frame the model keeps whether it is a DHCP message for this machine*)
(* (addresses, ports, transaction id and cookie are as expected), its      *)
(* message type and the address it offers; router and DNS server go with   *)
(* the address.  A descriptor without the end-of-packet bit is no offer.   *)
(***************************************************************************)
EXTENDS Integers

CONSTANTS RX_COUNT, TX_COUNT,  \* descriptors of the rings, 16 in the code
          TX_POLLS,    \* turns of the wait for a transmission, 100 000 in the code
          RX_POLLS,    \* turns of the wait for an offer, 20 000 000 in the code
          COUNT_MAX,   \* the largest value of a counter, 2^32 - 1 in the code
          Address      \* addresses that a server offers, "0.0.0.0" perhaps among them

RxSlot == 0..(RX_COUNT - 1)
TxSlot == 0..(TX_COUNT - 1)
Frame  == [ours : BOOLEAN, type : {"offer", "other"}, yiaddr : Address]
NoAddress == "0.0.0.0"
Empty  == [present |-> FALSE, configured |-> FALSE, ipv4 |-> NoAddress, tx |-> 0, rx |-> 0]

\* What the proofs ask of the constants.  A transmit ring of one
\* descriptor could not tell a packet that waits from none.
NetSizes ==
    /\ RX_COUNT \in Nat \ {0} /\ TX_COUNT \in Nat \ {0, 1}
    /\ TX_POLLS \in Nat \ {0} /\ RX_POLLS \in Nat \ {0} /\ COUNT_MAX \in Nat \ {0}

VARIABLES state,      \* what configure is doing
          turns,      \* turns left of the loop that configure is in
          inner,      \* descriptors that poll_offer has taken in this turn
          rxRing, rxHead,  \* the receive descriptors, and Controller::rx_head
          rdh, rdt,   \* the registers RDH and RDT
          txDone,     \* the DD bit of the transmit descriptors
          txTail,     \* Controller::tx_tail
          tdh, tdt,   \* the registers TDH and TDT
          txPackets, rxPackets,  \* Controller
          info,       \* the NetInfo that configure prepares
          lastInfo,   \* LAST_INFO
          asked,      \* a DHCPDISCOVER has gone out
          gaveUp      \* some wait for a transmission has ended without it

rxVars  == <<rxRing, rxHead, rdh, rdt>>
txVars  == <<txDone, txTail, tdh, tdt>>
netVars == <<state, turns, inner, rxVars, txVars, txPackets, rxPackets, info, lastInfo,
             asked, gaveUp>>

NetInit ==
    /\ state = "probe" /\ turns = 0 /\ inner = 0
    /\ rxRing = [i \in RxSlot |-> [dd |-> FALSE]] /\ rxHead = 0 /\ rdh = 0 /\ rdt = 0
    /\ txDone = [i \in TxSlot |-> FALSE] /\ txTail = 0 /\ tdh = 0 /\ tdt = 0
    /\ txPackets = 0 /\ rxPackets = 0
    /\ info = Empty /\ lastInfo = Empty
    /\ asked = FALSE /\ gaveUp = FALSE

\* saturating_add(1)
Plus1(n) == IF n = COUNT_MAX THEN n ELSE n + 1

Snapshot(configured) ==
    [present |-> TRUE, configured |-> configured, ipv4 |-> NoAddress,
     tx |-> txPackets, rx |-> rxPackets]

\* Controller::new: the card is reset and its counters and indices begin at 0.
New ==
    /\ rxHead' = 0 /\ txTail' = 0
    /\ txPackets' = 0 /\ rxPackets' = 0

\* init_rings: all receive descriptors but one are handed to the card, and all
\* transmit descriptors are done.
InitRings ==
    /\ rxRing' = [i \in RxSlot |-> [dd |-> FALSE]]
    /\ rdh' = 0 /\ rdt' = RX_COUNT - 1
    /\ txDone' = [i \in TxSlot |-> TRUE]
    /\ tdh' = 0 /\ tdt' = 0

\* init_from_pci: there is no card, or no memory for it; or it is set up.
NetProbe ==
    /\ state = "probe"
    /\ \/ state' = "absent" /\ UNCHANGED <<rxVars, txVars, txPackets, rxPackets, lastInfo>>
       \/ state' = "idle" /\ New /\ InitRings /\ lastInfo' = Snapshot(FALSE)
    /\ UNCHANGED <<turns, inner, info, asked, gaveUp>>

----------------------------------------------------------------------------
(* configure *)

\* The call begins: the packet is built, and send_packet writes its descriptor.
Configure ==
    /\ state = "idle"
    /\ info' = Snapshot(FALSE)
    /\ txDone' = [txDone EXCEPT ![txTail] = FALSE]
    /\ state' = "doorbell"
    /\ UNCHANGED <<turns, inner, rxVars, txTail, tdh, tdt, txPackets, rxPackets, lastInfo,
                   asked, gaveUp>>

\* The rest of send_packet up to its loop.
RingTdt ==
    /\ state = "doorbell"
    /\ tdt' = (txTail + 1) % TX_COUNT
    /\ state' = "sending" /\ turns' = TX_POLLS
    /\ UNCHANGED <<inner, rxVars, txDone, txTail, tdh, txPackets, rxPackets, info, lastInfo,
                   asked, gaveUp>>

\* Faulty variant of PollSend: tx_tail stays.
PollSend_KeepsTail ==
    /\ state = "sending"
    /\ \/ /\ txDone[txTail]
          /\ txPackets' = Plus1(txPackets)
          /\ info' = [info EXCEPT !.tx = txPackets']
          /\ state' = "polling" /\ turns' = RX_POLLS /\ inner' = 0
          /\ UNCHANGED <<txTail, lastInfo, gaveUp>>
       \/ /\ ~txDone[txTail] /\ turns > 1
          /\ turns' = turns - 1
          /\ UNCHANGED <<state, inner, txTail, txPackets, info, lastInfo, gaveUp>>
       \/ /\ ~txDone[txTail] /\ turns = 1
          /\ lastInfo' = info /\ gaveUp' = TRUE
          /\ state' = "idle" /\ turns' = 0
          /\ UNCHANGED <<inner, txTail, txPackets, info>>
    /\ UNCHANGED <<rxVars, txDone, tdh, tdt, rxPackets, asked>>

\* One turn of the loop of send_packet.  If the descriptor is never done, the
\* call ends and tx_tail stays where it is, although TDT has moved.
PollSend ==
    /\ state = "sending"
    /\ \/ /\ txDone[txTail]
          /\ txTail' = (txTail + 1) % TX_COUNT
          /\ txPackets' = Plus1(txPackets)
          /\ info' = [info EXCEPT !.tx = txPackets']
          /\ state' = "polling" /\ turns' = RX_POLLS /\ inner' = 0
          /\ UNCHANGED <<lastInfo, gaveUp>>
       \/ /\ ~txDone[txTail] /\ turns > 1
          /\ turns' = turns - 1
          /\ UNCHANGED <<state, inner, txTail, txPackets, info, lastInfo, gaveUp>>
       \/ /\ ~txDone[txTail] /\ turns = 1
          /\ lastInfo' = info /\ gaveUp' = TRUE
          /\ state' = "idle" /\ turns' = 0
          /\ UNCHANGED <<inner, txTail, txPackets, info>>
    /\ UNCHANGED <<rxVars, txDone, tdh, tdt, rxPackets, asked>>

\* parse_dhcp_offer
IsOffer(f) == f.ours /\ f.type = "offer"

\* Faulty variant of TakeFrame: poll_offer takes frames as long as there are any.
TakeFrame_NoLimit ==
    /\ state = "polling" /\ rxRing[rxHead].dd
    /\ rxRing' = [rxRing EXCEPT ![rxHead] = [dd |-> FALSE]]
    /\ state' = IF IsOffer(rxRing[rxHead].frame) THEN "offered" ELSE "taken"
    /\ info' = IF IsOffer(rxRing[rxHead].frame)
               THEN [info EXCEPT !.ipv4 = rxRing[rxHead].frame.yiaddr] ELSE info
    /\ UNCHANGED <<turns, inner, rxHead, rdh, rdt, txVars, txPackets, rxPackets, lastInfo, asked,
                   gaveUp>>

\* poll_offer finds a frame, reads it and clears the descriptor.
TakeFrame ==
    /\ state = "polling" /\ inner < RX_COUNT /\ rxRing[rxHead].dd
    /\ rxRing' = [rxRing EXCEPT ![rxHead] = [dd |-> FALSE]]
    /\ state' = IF IsOffer(rxRing[rxHead].frame) THEN "offered" ELSE "taken"
    /\ info' = IF IsOffer(rxRing[rxHead].frame)
               THEN [info EXCEPT !.ipv4 = rxRing[rxHead].frame.yiaddr] ELSE info
    /\ inner' = inner + 1
    /\ UNCHANGED <<turns, rxHead, rdh, rdt, txVars, txPackets, rxPackets, lastInfo, asked, gaveUp>>

\* Faulty variant of GiveBack: RDT gets the index after the descriptor.
GiveBack_PastIt ==
    /\ state \in {"offered", "taken"}
    /\ rdt' = (rxHead + 1) % RX_COUNT
    /\ rxHead' = (rxHead + 1) % RX_COUNT
    /\ rxPackets' = Plus1(rxPackets)
    /\ \/ state = "taken" /\ state' = "polling" /\ UNCHANGED <<turns, inner, info, lastInfo>>
       \/ /\ state = "offered" /\ state' = "idle" /\ turns' = 0 /\ inner' = 0
          /\ info' = [Snapshot(TRUE) EXCEPT !.ipv4 = info.ipv4, !.rx = rxPackets']
          /\ lastInfo' = info'
    /\ UNCHANGED <<rxRing, rdh, txVars, txPackets, asked, gaveUp>>

\* It gives the descriptor back to the card and counts the frame; with an offer
\* configure returns.
GiveBack ==
    /\ state \in {"offered", "taken"}
    /\ rdt' = rxHead
    /\ rxHead' = (rxHead + 1) % RX_COUNT
    /\ rxPackets' = Plus1(rxPackets)
    /\ \/ state = "taken" /\ state' = "polling" /\ UNCHANGED <<turns, inner, info, lastInfo>>
       \/ /\ state = "offered" /\ state' = "idle" /\ turns' = 0 /\ inner' = 0
          /\ info' = [Snapshot(TRUE) EXCEPT !.ipv4 = info.ipv4, !.rx = rxPackets']
          /\ lastInfo' = info'
    /\ UNCHANGED <<rxRing, rdh, txVars, txPackets, asked, gaveUp>>

\* Faulty variant of NextTurn: the frames received are not counted.
NextTurn_OldCount ==
    /\ state = "polling" /\ (inner = RX_COUNT \/ ~rxRing[rxHead].dd)
    /\ turns' = turns - 1 /\ inner' = 0
    /\ \/ turns > 1 /\ UNCHANGED <<state, info, lastInfo>>
       \/ /\ turns = 1 /\ state' = "idle"
          /\ lastInfo' = info /\ UNCHANGED info
    /\ UNCHANGED <<rxVars, txVars, txPackets, rxPackets, asked, gaveUp>>

\* poll_offer returns without an offer.  The last time, configure returns.
NextTurn ==
    /\ state = "polling" /\ (inner = RX_COUNT \/ ~rxRing[rxHead].dd)
    /\ turns' = turns - 1 /\ inner' = 0
    /\ \/ turns > 1 /\ UNCHANGED <<state, info, lastInfo>>
       \/ /\ turns = 1 /\ state' = "idle"
          /\ info' = [info EXCEPT !.rx = rxPackets]
          /\ lastInfo' = info'
    /\ UNCHANGED <<rxVars, txVars, txPackets, rxPackets, asked, gaveUp>>

----------------------------------------------------------------------------
(* The card and the network *)

Transmit ==
    /\ tdh # tdt
    /\ txDone' = [txDone EXCEPT ![tdh] = TRUE]
    /\ tdh' = (tdh + 1) % TX_COUNT
    /\ asked' = TRUE
    /\ UNCHANGED <<state, turns, inner, rxVars, txTail, tdt, txPackets, rxPackets, info, lastInfo,
                   gaveUp>>

\* A frame comes in.  One for which no descriptor is free is dropped.
Receive(f) ==
    /\ f.ours => asked
    /\ rdh # rdt
    /\ rxRing' = [rxRing EXCEPT ![rdh] = [dd |-> TRUE, frame |-> f]]
    /\ rdh' = (rdh + 1) % RX_COUNT
    /\ UNCHANGED <<state, turns, inner, rxHead, rdt, txVars, txPackets, rxPackets, info, lastInfo,
                   asked, gaveUp>>

----------------------------------------------------------------------------
NetDriver == RingTdt \/ PollSend \/ TakeFrame \/ GiveBack \/ NextTurn
Card   == Transmit \/ \E f \in Frame : Receive(f)
NetNext   == NetProbe \/ Configure \/ NetDriver \/ Card

\* The driver runs on; of the card and the network nothing is assumed.
NetSpec == NetInit /\ [][NetNext]_netVars /\ WF_netVars(NetDriver)

----------------------------------------------------------------------------
(* Properties *)

NetTypeOK ==
    /\ state \in {"probe", "absent", "idle", "doorbell", "sending", "polling", "taken", "offered"}
    /\ turns \in 0..(TX_POLLS + RX_POLLS) /\ inner \in 0..RX_COUNT
    /\ DOMAIN rxRing = RxSlot
    /\ \A i \in RxSlot : rxRing[i].dd \in BOOLEAN /\ (rxRing[i].dd => rxRing[i].frame \in Frame)
    /\ {rxHead, rdh, rdt} \subseteq RxSlot /\ {txTail, tdh, tdt} \subseteq TxSlot
    /\ txDone \in [TxSlot -> BOOLEAN]
    /\ {txPackets, rxPackets} \subseteq 0..COUNT_MAX
    /\ \A n \in {info, lastInfo} :
          n \in [present : BOOLEAN, configured : BOOLEAN, ipv4 : Address \cup {NoAddress},
                 tx : 0..COUNT_MAX, rx : 0..COUNT_MAX]
    /\ asked \in BOOLEAN /\ gaveUp \in BOOLEAN

\* Slots from i up to j, the ring taken round.
Between(i, j) == {(i + d) % RX_COUNT : d \in 0..(((j - i + RX_COUNT) % RX_COUNT) - 1)}

\* Driver and card agree on the receive ring, on every turn through it: the
\* frames that wait are in the slots from rx_head up to RDH, and their DD bits
\* are the ones that are set, so the driver reads each frame once and in order;
\* and all other slots but one are the card's to fill (e1000.rs:428), so the
\* card never writes on a frame that waits and never runs dry.
RxRing ==
    state \notin {"probe", "absent"} =>
        LET head == IF state \in {"taken", "offered"} THEN (rxHead + 1) % RX_COUNT ELSE rxHead
        IN  /\ \A i \in RxSlot : rxRing[i].dd <=> i \in Between(head, rdh)
            /\ (rdt + 1) % RX_COUNT = rxHead

\* While send_packet waits the card has the packet to send, or has sent it; with
\* one exception: when an earlier wait was given up and the card has finished
\* that packet since, TDT does not move and the card sends nothing (e1000.rs:393).
SendingOrStuck == state = "sending" /\ tdh = tdt /\ ~txDone[txTail] => gaveUp

\* When configure returns, by whichever of its ways, what it has stored for
\* net_info (LAST_INFO) counts the packets that there have been, and shows an
\* address only if an offer was found after a DHCPDISCOVER: an earlier address
\* does not survive a call that found none.  The converse does not hold, for the
\* address of an offer is not looked at and may be 0.0.0.0 (e1000.rs:564).
InfoCurrent ==
    /\ state = "idle" => lastInfo.tx = txPackets /\ lastInfo.rx = rxPackets
    /\ lastInfo.ipv4 # NoAddress => lastInfo.configured
    /\ lastInfo.configured => asked

\* configure returns, whatever the card does and however many frames come in:
\* each turn of its loop takes RX_COUNT frames at most.
ConfigureReturns == state = "doorbell" ~> state = "idle"

=============================================================================
