------------------------------ MODULE MCHartIrq ------------------------------
(***************************************************************************)
(* Instances of HartIrq.  Every interrupt is delivered as its own number;  *)
(* devices send identity 60.  Enables, delegation, injection and modes are *)
(* as software left them before the first interrupt.                       *)
(***************************************************************************)
EXTENDS HartIrq

MCIprio == [level \in Levels |-> [iid \in MajorIrqs |-> iid]]

\* The supervisor timer and external interrupts kept by the machine, both
\* delegated, or the timer delegated and the external one injected; the VS
\* external one delegated or not; every set of modes.  MTI is one of the bits
\* of mvip that cannot be written.
Routes == {<<{}, {}>>, <<{STI, SEI}, {}>>, <<{STI}, {SEI}>>}

Routing(writes) ==
  {[clint |-> [ClintReset EXCEPT
                 !.mie = MajorIrqs, !.sShadow = SupervisorIrqs,
                 !.mideleg = @ \union r[1], !.mvien = r[2], !.hideleg = v],
    modes |-> SUBSET Levels, hgeie |-> TRUE, connected |-> FALSE,
    hwIrqs |-> {STI}, writes |-> writes, minors |-> {60}] :
     r \in Routes, v \in SUBSET {VSEI}}

RoutingPrograms == Routing({<<"mvip", {}>>, <<"mvip", {SEI, MTI}>>})

\* Delegation and enables rewritten while timers pend.
Delegating ==
  [clint |-> [ClintReset EXCEPT !.mie = {STI, VSTI}],
   modes |-> {Levels}, hgeie |-> FALSE, connected |-> TRUE,
   hwIrqs |-> {STI, VSTI}, minors |-> {},
   writes |-> {<<"mideleg", {}>>, <<"mideleg", {STI}>>,
               <<"hideleg", {}>>, <<"hideleg", {VSTI}>>,
               <<"sie", {}>>, <<"sie", {STI}>>, <<"hie", {VSTI}>>,
               <<"vsie", {}>>}]

\* The supervisor's timer and the guest's watchdog injected by software of the
\* level above, and written by the level itself.
Injecting ==
  [clint |-> [ClintReset EXCEPT !.mie = {STI}, !.hvien = {WDT}],
   modes |-> {Levels}, hgeie |-> FALSE, connected |-> TRUE,
   hwIrqs |-> {STI}, minors |-> {},
   writes |-> {<<"mvien", {}>>, <<"mvien", {STI}>>,
               <<"mvip", {STI}>>, <<"sie", {STI}>>, <<"sip", {}>>,
               <<"hvip", {WDT}>>, <<"vsie", {WDT}>>, <<"vsip", {}>>}]

MCPrograms == RoutingPrograms \union {Delegating, Injecting}
=============================================================================
