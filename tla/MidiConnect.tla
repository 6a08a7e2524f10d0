----------------------------- MODULE MidiConnect ------------------------------
(***************************************************************************)
(* The wiring of the Captain and the Kemper in the ALSA sequencer.  A      *)
(* short program, run by udev when a device comes and by a timer, lists    *)
(* the clients and connects the two, in both directions.  The kernel gives *)
(* a client the lowest free number, and ends its connections with it.      *)
(***************************************************************************)
EXTENDS Naturals, FiniteSets, FiniteSetsExt

CONSTANTS Others,      \* devices that are neither
          MaxReplugs,  \* bound on the devices that come and go
          MaxCut       \* bound on the runs that do not finish

WiringAssumption ==
  /\ IsFiniteSet(Others) /\ Others \cap {"captain", "kemper"} = {}
  /\ {MaxReplugs, MaxCut} \subseteq Nat

VARIABLES
  number,   \* the client number of each device, 0 when it is away
  ported,   \* the devices whose ports are there
  wires,    \* connections, from one client number to another
  wiring,   \* where the run is
  found,    \* the numbers it found for the Captain and the Kemper, 0 for none
  replugs, cuts

deviceVars == <<number, ported>>
wiringVars == <<deviceVars, wires, wiring, found, replugs, cuts>>
-----------------------------------------------------------------------------
Devices == {"captain", "kemper"} \cup Others
Numbers == 1 .. Cardinality(Devices)

WiringTypeOK ==
  /\ number \in [Devices -> {0} \cup Numbers] /\ ported \subseteq Devices
  /\ \A d, e \in Devices : number[d] = number[e] => d = e \/ number[d] = 0
  /\ wires \subseteq Numbers \X Numbers
  /\ wiring \in {"idle", "listing", "out", "back"}
  /\ found \in [{"captain", "kemper"} -> {0} \cup Numbers]
  /\ replugs \in 0 .. MaxReplugs /\ cuts \in 0 .. MaxCut

WiringInit ==
  /\ number = [d \in Devices |-> 0] /\ ported = {} /\ wires = {}
  /\ wiring = "idle"
  /\ found = [captain |-> 0, kemper |-> 0]
  /\ replugs = 0 /\ cuts = 0

Come(d) ==
  /\ number[d] = 0 /\ replugs < MaxReplugs /\ replugs' = replugs + 1
  /\ number' = [number EXCEPT ![d] = Min(Numbers \ {number[e] : e \in Devices})]
  /\ UNCHANGED <<ported, wires, wiring, found, cuts>>

PortsCome(d) ==
  /\ number[d] # 0 /\ d \notin ported
  /\ ported' = ported \cup {d}
  /\ UNCHANGED <<number, wires, wiring, found, replugs, cuts>>

Go(d) ==
  /\ number[d] # 0
  /\ number' = [number EXCEPT ![d] = 0] /\ ported' = ported \ {d}
  /\ wires' = {w \in wires : number[d] \notin {w[1], w[2]}}
  /\ UNCHANGED <<wiring, found, replugs, cuts>>

\* By udev when a device comes, or by the timer.  A run that udev asks for while
\* one is at work is merged into it, so that a device may be left to the timer.
Begin ==
  /\ wiring = "idle"
  /\ wiring' = "listing"
  /\ UNCHANGED <<deviceVars, wires, found, replugs, cuts>>

\* _find: the first client of that name that has ports.
Find(d) == IF d \in ported THEN number[d] ELSE 0

\* list_endpoints and the first half of wire.
List ==
  /\ wiring = "listing"
  /\ found' = [captain |-> Find("captain"), kemper |-> Find("kemper")]
  /\ wiring' = IF 0 \in {found'.captain, found'.kemper} THEN "idle" ELSE "out"
  /\ UNCHANGED <<deviceVars, wires, replugs, cuts>>

\* _connect: aconnect refuses a client that is gone, and a pair that is
\* connected already; either way the run goes on.
Connected(from, to) ==
  IF {from, to} \subseteq {number[d] : d \in ported} THEN wires \cup {<<from, to>>} ELSE wires

\* Mutant: a pair that is connected already ends the run.
ConnectOutNew ==
  /\ wiring = "out"
  /\ wiring' = IF wires = Connected(found.captain, found.kemper) THEN "idle" ELSE "back"
  /\ wires' = Connected(found.captain, found.kemper)
  /\ UNCHANGED <<deviceVars, found, replugs, cuts>>

ConnectOut ==
  /\ wiring = "out" /\ wiring' = "back"
  /\ wires' = Connected(found.captain, found.kemper)
  /\ UNCHANGED <<deviceVars, found, replugs, cuts>>

ConnectBack ==
  /\ wiring = "back" /\ wiring' = "idle"
  /\ wires' = Connected(found.kemper, found.captain)
  /\ UNCHANGED <<deviceVars, found, replugs, cuts>>

\* aconnect is missing or fails to list, or the run is killed.
Cut ==
  /\ wiring # "idle" /\ cuts < MaxCut
  /\ cuts' = cuts + 1 /\ wiring' = "idle"
  /\ UNCHANGED <<deviceVars, wires, found, replugs>>

WiringStep == Begin \/ List \/ ConnectOut \/ ConnectBack

WiringNext ==
  \/ WiringStep \/ Cut
  \/ \E d \in Devices : Come(d) \/ PortsCome(d) \/ Go(d)

\* The timer, and the kernel.
WiringFairness ==
  /\ WF_wiringVars(WiringStep)
  /\ WF_wiringVars(\E d \in Devices : PortsCome(d))

WiringSpec == WiringInit /\ [][WiringNext]_wiringVars /\ WiringFairness
-----------------------------------------------------------------------------
\* Once devices stop coming and going, a Captain and a Kemper that are there
\* are connected both ways, whatever run was lost, cut short or saw an older
\* list (midi_connect.py:96-110).
MidiWired ==
  LET c == number["captain"]
      k == number["kemper"]
  IN <>[](c # 0 /\ k # 0 => {<<c, k>>, <<k, c>>} \subseteq wires)
=============================================================================
