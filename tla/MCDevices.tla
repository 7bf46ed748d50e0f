----------------------------- MODULE MCDevices -----------------------------
(***************************************************************************)
(* The devices around the harts, one at a time: `part' chooses the device  *)
(* that acts, the others stay as they were built.  They share no state, so *)
(* a behaviour of several is an interleaving of behaviours of each.        *)
(***************************************************************************)
EXTENDS MCAplic, Fe310Plic, Fu540Plic, Dma, Clint, RealClint, Uart, Slip

VARIABLE part

deviceVars == <<aplicVars, feVars, fuVars, dmaVars, clintVars, rcVars, uartVars, slipVars>>

Init ==
  /\ part \in {"aplic", "fe310", "fu540", "dma", "clint", "realclint", "uart", "slip"}
  /\ AplicInit /\ FeInit /\ FuInit /\ DmaInit /\ ClintInit /\ RcInit /\ UartInit
  /\ SlipInit /\ (part # "slip" => slipPacket = <<"data">>)
  /\ part # "uart" => uartKind = "terminal"

Others(p) ==
  /\ UNCHANGED part
  /\ p # "aplic" => UNCHANGED aplicVars
  /\ p # "fe310" => UNCHANGED feVars
  /\ p # "fu540" => UNCHANGED fuVars
  /\ p # "dma" => UNCHANGED dmaVars
  /\ p # "clint" => UNCHANGED clintVars
  /\ p # "realclint" => UNCHANGED rcVars
  /\ p # "uart" => UNCHANGED uartVars
  /\ p # "slip" => UNCHANGED slipVars

Next ==
  \/ part = "aplic" /\ AplicNext /\ Others("aplic")
  \/ part = "fe310" /\ FeStep /\ Others("fe310")
  \/ part = "fu540" /\ FuStep /\ Others("fu540")
  \/ part = "dma" /\ DmaStep /\ Others("dma")
  \/ part = "clint" /\ ClintStep /\ Others("clint")
  \/ part = "realclint" /\ RcStep /\ Others("realclint")
  \/ part = "uart" /\ UartStep /\ Others("uart")
  \/ part = "slip" /\ SlipStep /\ Others("slip")

Spec == Init /\ [][Next]_<<part, deviceVars>> /\ UartFairness

-----------------------------------------------------------------------------

\* The interrupt controllers neither forget nor invent a request.  Whatever
\* claims, completions and configuration writes come between the wire and the
\* run thread, a PLIC tells the hart of every enabled source that pends, but
\* for those its history variable names, which wait for the next trigger
\* (fe310_plic.h:190-231, fu540_plic.cpp:134-178), and its assertion holds for
\* software that claims one raised interrupt at a time; an inactive APLIC source
\* gains no pending bit, enable bit or target, and has none in mode INACTIVE
\* (aplic.h:533 claims so for every inactive source, see AplicInactiveFrozen).
ControllersExact == AplicInactiveFrozen /\ FeNotForgotten /\ FuNotForgotten

\* No timer interrupt is late: the CLINT compares again before the earliest
\* compare value can pass (clint.h:140), and the one-shot host timer of the
\* real-time CLINT, however early or late it fires and whatever is rewritten
\* meanwhile, leaves each expired compare value raised or a timer running
\* for it (real_clint.cpp:96-157).
TimersOnTime == ClintNeverLate /\ RcOneShotSuffices

\* The serial lines lose and reorder nothing: bytes pass the UART's FIFOs in
\* order between the hart and the host's threads, received ones that software
\* wants to know of are announced (uart_if.cpp), and SLIP packets arrive as
\* they were framed (slip.cpp).
SerialExact == UartInOrder /\ UartRxAnnounced /\ SlipDelivers
=============================================================================
