--------------------------- MODULE DriversProofs ---------------------------
(***************************************************************************)
(* The drivers that share nothing, one after the other: of each the        *)
(* inductive invariant that it keeps, and what follows from that for a     *)
(* behaviour of all of them.                                               *)
(***************************************************************************)
EXTENDS Drivers, FiniteSetTheorems, SequenceTheorems, WellFoundedInduction, TLAPS

(* A step of one driver leaves the variables of the others alone. *)
LEMMA OnlyOneMoves ==
  ASSUME [Next]_vars
  PROVE  /\ [Rf!Next]_radio /\ [Settings!Next]_settings /\ [Sim!Next]_simulated
         /\ [Mock!Next]_mock /\ [Clocks!Next]_clocks /\ [Guarded!Next]_guarded
         /\ [Monitors!Next]_monitors /\ [Echo!Next]_echo /\ [BoardId!Next]_measurement
         /\ [Analog!Next]_analog /\ [Streaming!Next]_streaming
         /\ [Wire!Next]_wire /\ [Erasing!Next]_erasing /\ [Ring!Next]_callbacks
  <1>1. CASE UNCHANGED vars
    BY <1>1 DEF vars
  <1> DEFINE All == {"radio", "settings", "board id", "sensors", "clock tree", "simulation",
                     "wire", "pins", "ring", "spi", "mock radio", "can echo", "buffers",
                     "messages", "domains", "identifiers", "whole flash", "analog",
                     "watchdog", "streaming"}
  <1>2. ASSUME NEW d \in All, Others(d)
        PROVE  /\ d # "radio" => UNCHANGED radio
               /\ d # "settings" => UNCHANGED settings
               /\ d # "simulation" => UNCHANGED simulated
               /\ d # "mock radio" => UNCHANGED mock
               /\ d # "clock tree" => UNCHANGED clocks
               /\ d # "watchdog" => UNCHANGED guarded
               /\ d # "sensors" => UNCHANGED monitors
               /\ d # "can echo" => UNCHANGED echo
               /\ d # "board id" => UNCHANGED measurement
               /\ d # "analog" => UNCHANGED analog
               /\ d # "streaming" => UNCHANGED streaming
               /\ d # "wire" => UNCHANGED wire
               /\ d # "whole flash" => UNCHANGED erasing
               /\ d # "ring" => UNCHANGED callbacks
    BY <1>2 DEF Others
  <1>3. ASSUME Next
        PROVE  \E d \in All :
                 /\ Others(d)
                 /\ d = "radio" => Rf!Next
                 /\ d = "settings" => Settings!Next
                 /\ d = "simulation" => Sim!Next
                 /\ d = "mock radio" => Mock!Next
                 /\ d = "clock tree" => Clocks!Next
                 /\ d = "watchdog" => Guarded!Next
                 /\ d = "sensors" => Monitors!Next
                 /\ d = "can echo" => Echo!Next
                 /\ d = "board id" => BoardId!Next
                 /\ d = "analog" => Analog!Next
                 /\ d = "streaming" => Streaming!Next
                 /\ d = "wire" => Wire!Next
                 /\ d = "whole flash" => Erasing!Next
                 /\ d = "ring" => Ring!Next
    BY <1>3 DEF Next
  <1>4. CASE Next
    <2>1. PICK d \in All : /\ Others(d)
                           /\ d = "radio" => Rf!Next
                           /\ d = "settings" => Settings!Next
                           /\ d = "simulation" => Sim!Next
                           /\ d = "mock radio" => Mock!Next
                           /\ d = "clock tree" => Clocks!Next
                           /\ d = "watchdog" => Guarded!Next
                           /\ d = "sensors" => Monitors!Next
                           /\ d = "can echo" => Echo!Next
                           /\ d = "board id" => BoardId!Next
                           /\ d = "analog" => Analog!Next
                           /\ d = "streaming" => Streaming!Next
                           /\ d = "wire" => Wire!Next
                           /\ d = "whole flash" => Erasing!Next
                           /\ d = "ring" => Ring!Next
      BY <1>3, <1>4
    <2>2. d \in All /\ Others(d)
      BY <2>1
    <2> HIDE DEF All
    <2>3. [Rf!Next]_radio
      <3>1. d = "radio" => Rf!Next
        BY <2>1
      <3>2. d # "radio" => UNCHANGED radio
        BY <1>2, <2>2
      <3> QED
        BY <3>1, <3>2
    <2>4. [Settings!Next]_settings
      <3>1. d = "settings" => Settings!Next
        BY <2>1
      <3>2. d # "settings" => UNCHANGED settings
        BY <1>2, <2>2
      <3> QED
        BY <3>1, <3>2
    <2>5. [Sim!Next]_simulated
      <3>1. d = "simulation" => Sim!Next
        BY <2>1
      <3>2. d # "simulation" => UNCHANGED simulated
        BY <1>2, <2>2
      <3> QED
        BY <3>1, <3>2
    <2>6. [Mock!Next]_mock
      <3>1. d = "mock radio" => Mock!Next
        BY <2>1
      <3>2. d # "mock radio" => UNCHANGED mock
        BY <1>2, <2>2
      <3> QED
        BY <3>1, <3>2
    <2>7. [Clocks!Next]_clocks
      <3>1. d = "clock tree" => Clocks!Next
        BY <2>1
      <3>2. d # "clock tree" => UNCHANGED clocks
        BY <1>2, <2>2
      <3> QED
        BY <3>1, <3>2
    <2>8. [Guarded!Next]_guarded
      <3>1. d = "watchdog" => Guarded!Next
        BY <2>1
      <3>2. d # "watchdog" => UNCHANGED guarded
        BY <1>2, <2>2
      <3> QED
        BY <3>1, <3>2
    <2>9. [Monitors!Next]_monitors
      <3>1. d = "sensors" => Monitors!Next
        BY <2>1
      <3>2. d # "sensors" => UNCHANGED monitors
        BY <1>2, <2>2
      <3> QED
        BY <3>1, <3>2
    <2>10. [Echo!Next]_echo
      <3>1. d = "can echo" => Echo!Next
        BY <2>1
      <3>2. d # "can echo" => UNCHANGED echo
        BY <1>2, <2>2
      <3> QED
        BY <3>1, <3>2
    <2>11. [BoardId!Next]_measurement
      <3>1. d = "board id" => BoardId!Next
        BY <2>1
      <3>2. d # "board id" => UNCHANGED measurement
        BY <1>2, <2>2
      <3> QED
        BY <3>1, <3>2
    <2>12. [Analog!Next]_analog
      <3>1. d = "analog" => Analog!Next
        BY <2>1
      <3>2. d # "analog" => UNCHANGED analog
        BY <1>2, <2>2
      <3> QED
        BY <3>1, <3>2
    <2>13. [Streaming!Next]_streaming
      <3>1. d = "streaming" => Streaming!Next
        BY <2>1
      <3>2. d # "streaming" => UNCHANGED streaming
        BY <1>2, <2>2
      <3> QED
        BY <3>1, <3>2
    <2>14. [Wire!Next]_wire
      <3>1. d = "wire" => Wire!Next
        BY <2>1
      <3>2. d # "wire" => UNCHANGED wire
        BY <1>2, <2>2
      <3> QED
        BY <3>1, <3>2
    <2>15. [Erasing!Next]_erasing
      <3>1. d = "whole flash" => Erasing!Next
        BY <2>1
      <3>2. d # "whole flash" => UNCHANGED erasing
        BY <1>2, <2>2
      <3> QED
        BY <3>1, <3>2
    <2>16. [Ring!Next]_callbacks
      <3>1. d = "ring" => Ring!Next
        BY <2>1
      <3>2. d # "ring" => UNCHANGED callbacks
        BY <1>2, <2>2
      <3> QED
        BY <3>1, <3>2
    <2> QED
      BY <2>3, <2>4, <2>5, <2>6, <2>7, <2>8, <2>9, <2>10, <2>11, <2>12, <2>13, <2>14, <2>15,
         <2>16
  <1> QED
    BY <1>1, <1>4

(* Each driver begins in its own initial state. *)
LEMMA DriversInit ==
  ASSUME Init
  PROVE  /\ Rf!Init /\ Settings!Init /\ Sim!Init
         /\ Mock!Init /\ Clocks!Init /\ Guarded!Init
         /\ Monitors!Init /\ Echo!Init /\ BoardId!Init /\ Analog!Init /\ Streaming!Init
         /\ Wire!Init /\ Erasing!Init /\ Ring!Init
  BY DEF Init

-----------------------------------------------------------------------------
Places ==
  {"loop", "receive", "transmit", "copy", "send", "load", "sending", "sent", "opmode"}

RadioTypeOK ==
  /\ pc \in [Rf!Stations -> Places \union {"assign"}]
  /\ goal \in [Rf!Stations -> [mode : Rf!Modes, next : Places]]
  /\ op_mode \in [Rf!Stations -> Rf!Modes] /\ chip \in [Rf!Stations -> Rf!Modes]
  /\ edge \in [Rf!Stations -> BOOLEAN]

(* Between the two writes of a mode change no interrupt is waiting, which  *)
(* would undo the first and be overruled by the second.                    *)
Undisturbed(s) ==
  IF pc[s] = "assign" THEN ~edge[s] /\ chip[s] = goal[s].mode
                      ELSE op_mode[s] = chip[s]

RadioInv == RadioTypeOK /\ \A s \in Rf!Stations : Undisturbed(s)

LEMMA RadioInvInit == Rf!Init => RadioInv
  <1> SUFFICES ASSUME Rf!Init PROVE RadioInv
    OBVIOUS
  <1>1. pc \in [Rf!Stations -> Places \union {"assign"}]
    BY DEF Rf!Init, Places, Rf!Stations
  <1>2. goal \in [Rf!Stations -> [mode : Rf!Modes, next : Places]]
    BY DEF Rf!Init, Places, Rf!Modes
  <1>3. op_mode \in [Rf!Stations -> Rf!Modes] /\ chip \in [Rf!Stations -> Rf!Modes]
        /\ edge \in [Rf!Stations -> BOOLEAN]
    BY DEF Rf!Init, Rf!Modes
  <1>4. \A s \in Rf!Stations : pc[s] # "assign" /\ op_mode[s] = chip[s]
    BY DEF Rf!Init, Rf!Stations
  <1> QED BY <1>1, <1>2, <1>3, <1>4 DEF RadioInv, RadioTypeOK, Undisturbed

LEMMA SetModeKeeps ==
  ASSUME RadioInv, NEW s \in Rf!Stations, NEW m \in Rf!Modes, NEW l \in Places,
         Rf!SetMode(s, m, l), pc[s] # "assign", UNCHANGED <<op_mode, chip, edge>>
  PROVE  RadioInv'
  <1>1. RadioTypeOK'
    BY DEF RadioInv, RadioTypeOK, Rf!SetMode, Places
  <1>2. ASSUME NEW t \in Rf!Stations
        PROVE  Undisturbed(t)'
    BY <1>1 DEF RadioInv, RadioTypeOK, Rf!SetMode, Places, Undisturbed
  <1> QED BY <1>1, <1>2 DEF RadioInv

LEMMA GotoKeeps ==
  ASSUME RadioInv, NEW s \in Rf!Stations, NEW l \in Places,
         Rf!Goto(s, l), pc[s] # "assign", UNCHANGED <<op_mode, chip, edge>>
  PROVE  RadioInv'
  <1>1. RadioTypeOK'
    BY DEF RadioInv, RadioTypeOK, Rf!Goto
  <1>2. ASSUME NEW t \in Rf!Stations
        PROVE  Undisturbed(t)'
    BY <1>1 DEF RadioInv, RadioTypeOK, Rf!Goto, Places, Undisturbed
  <1> QED BY <1>1, <1>2 DEF RadioInv

LEMMA WriteKeeps ==
  ASSUME RadioInv, NEW s \in Rf!Stations, Rf!WriteOpMode(s)
  PROVE  RadioInv'
  <1>1. RadioTypeOK'
    BY DEF RadioInv, RadioTypeOK, Rf!WriteOpMode, Rf!Goto
  <1>2. ASSUME NEW t \in Rf!Stations
        PROVE  Undisturbed(t)'
    BY <1>1 DEF RadioInv, RadioTypeOK, Rf!WriteOpMode, Rf!At, Rf!Goto, Undisturbed
  <1> QED BY <1>1, <1>2 DEF RadioInv

LEMMA AssignKeeps ==
  ASSUME RadioInv, NEW s \in Rf!Stations, Rf!AssignOpMode(s)
  PROVE  RadioInv'
  <1>1. RadioTypeOK'
    BY DEF RadioInv, RadioTypeOK, Rf!AssignOpMode, Rf!Goto
  <1>2. ASSUME NEW t \in Rf!Stations
        PROVE  Undisturbed(t)'
    BY <1>1 DEF RadioInv, RadioTypeOK, Rf!AssignOpMode, Rf!At, Rf!Goto, Undisturbed
  <1> QED BY <1>1, <1>2 DEF RadioInv

(* An interrupt does not come between the two writes, and changes both. *)
LEMMA InterruptKeeps ==
  ASSUME RadioInv, NEW s \in Rf!Stations, Rf!Interrupt(s)
  PROVE  RadioInv'
  <1>1. pc[s] # "assign" /\ op_mode[s] = chip[s]
    BY DEF RadioInv, Undisturbed, Rf!Interrupt
  <1>2. RadioTypeOK'
    BY DEF RadioInv, RadioTypeOK, Rf!Interrupt, Rf!Modes
  <1>3. op_mode'[s] = chip'[s] /\ pc' = pc /\ goal' = goal /\ ~edge'[s]
    BY <1>1 DEF RadioInv, RadioTypeOK, Rf!Interrupt
  <1>4. ASSUME NEW t \in Rf!Stations, t # s
        PROVE  op_mode'[t] = op_mode[t] /\ chip'[t] = chip[t] /\ edge'[t] = edge[t]
    BY <1>4 DEF RadioInv, RadioTypeOK, Rf!Interrupt
  <1>5. ASSUME NEW t \in Rf!Stations
        PROVE  Undisturbed(t)'
    BY <1>1, <1>3, <1>4 DEF RadioInv, Undisturbed
  <1> QED BY <1>2, <1>5 DEF RadioInv

LEMMA PacketKeeps ==
  ASSUME WindowIsShort, RadioInv, NEW s \in Rf!Stations, Rf!PacketSent(s)
  PROVE  RadioInv'
  <1> DEFINE r == CHOOSE t \in Rf!Stations : t # s
  <1>1. UNCHANGED <<pc, goal, op_mode, chip>>
    BY DEF Rf!PacketSent
  <1>2. \/ edge' = [edge EXCEPT ![s] = TRUE] /\ pc[s] # "assign"
        \/ edge' = [edge EXCEPT ![s] = TRUE, ![r] = TRUE] /\ pc[s] # "assign"
           /\ pc[r] # "assign"
    BY DEF Rf!PacketSent
  <1> HIDE DEF r
  <1>3. RadioTypeOK'
    BY <1>1, <1>2 DEF RadioInv, RadioTypeOK
  <1>4. ASSUME NEW t \in Rf!Stations
        PROVE  Undisturbed(t)'
    BY <1>1, <1>2 DEF RadioInv, RadioTypeOK, Undisturbed
  <1> QED BY <1>3, <1>4 DEF RadioInv

(* The steps of a program that only move on, or ask for a mode. *)
LEMMA ProgramKeeps ==
  ASSUME RadioInv, NEW s \in Rf!Stations,
         \/ Rf!BeginTransmit(s) \/ Rf!LoadFifo(s) \/ Rf!SendSucceeds(s) \/ Rf!SendTimesOut(s)
         \/ s = "client" /\ (Rf!NextFragment \/ Rf!Pause)
         \/ s = "server" /\ (\/ Rf!ReceiveFragment \/ Rf!FinishCopy
                             \/ Rf!TransmitFragment \/ Rf!Listen)
  PROVE  RadioInv'
  <1>1. pc[s] # "assign" /\ UNCHANGED <<op_mode, chip, edge>>
    BY DEF Rf!BeginTransmit, Rf!LoadFifo, Rf!SendSucceeds, Rf!SendTimesOut,
       Rf!NextFragment, Rf!Pause,
       Rf!ReceiveFragment, Rf!FinishCopy, Rf!TransmitFragment, Rf!Listen, Rf!At, Rf!radio
  <1>2. ASSUME NEW m \in Rf!Modes, NEW l \in Places, Rf!SetMode(s, m, l)
        PROVE  RadioInv'
    BY <1>1, <1>2, SetModeKeeps
  <1>3. ASSUME NEW l \in Places, Rf!Goto(s, l)
        PROVE  RadioInv'
    BY <1>1, <1>3, GotoKeeps
  <1>4. CASE Rf!BeginTransmit(s)
    BY <1>2, <1>4 DEF Rf!BeginTransmit, Rf!Modes, Places
  <1>5. CASE Rf!LoadFifo(s)
    BY <1>2, <1>5 DEF Rf!LoadFifo, Rf!Modes, Places
  <1>6. CASE Rf!SendSucceeds(s) \/ Rf!SendTimesOut(s)
    BY <1>3, <1>6 DEF Rf!SendSucceeds, Rf!SendTimesOut, Places
  <1>7. CASE s = "client" /\ (Rf!NextFragment \/ Rf!Pause)
    BY <1>2, <1>3, <1>7 DEF Rf!NextFragment, Rf!Pause, Rf!Modes, Places
  <1>8. CASE s = "server" /\ Rf!ReceiveFragment
    <2>1. Rf!Goto(s, IF valid THEN "copy" ELSE "transmit")
      BY <1>8 DEF Rf!ReceiveFragment
    <2>2. (IF valid THEN "copy" ELSE "transmit") \in Places
      BY DEF Places
    <2> QED BY ONLY <2>1, <2>2, <1>3
  <1>9. CASE s = "server" /\ Rf!TransmitFragment
    <2>1. Rf!Goto(s, IF have THEN "send" ELSE "sent")
      BY <1>9 DEF Rf!TransmitFragment
    <2>2. (IF have THEN "send" ELSE "sent") \in Places
      BY DEF Places
    <2> QED BY ONLY <2>1, <2>2, <1>3
  <1>10. CASE s = "server" /\ (Rf!FinishCopy \/ Rf!Listen)
    BY <1>2, <1>3, <1>10 DEF Rf!FinishCopy, Rf!Listen, Rf!Modes, Places
  <1> QED BY <1>4, <1>5, <1>6, <1>7, <1>8, <1>9, <1>10

LEMMA RadioInvNext ==
  ASSUME WindowIsShort, RadioInv, [Rf!Next]_Rf!vars
  PROVE  RadioInv'
  <1>1. ASSUME NEW s \in Rf!Stations, Rf!Program(s) \/ Rf!SendTimesOut(s)
        PROVE  RadioInv'
    BY <1>1, WriteKeeps, AssignKeeps, ProgramKeeps DEF Rf!Program
  <1>2. CASE UNCHANGED Rf!vars
    BY <1>2 DEF Rf!vars, Rf!radio, RadioInv, RadioTypeOK, Undisturbed
  <1> QED BY <1>1, <1>2, InterruptKeeps, PacketKeeps DEF Rf!Next

-----------------------------------------------------------------------------
(* Fragments are numbered from 1, and a number on the air is one of Word. *)
Numbers == MaxSequence \in Nat /\ Word \in Nat \ {0}

Packets == [first : Nat, last : Nat]

(* The client is between the choice of a number and the end of its         *)
(* transmission.                                                           *)
Asking ==
  \/ pc["client"] \in {"send", "load", "sending"}
  \/ pc["client"] \in {"opmode", "assign"} /\ goal["client"].next \in {"load", "sending"}

PacketsTypeOK ==
  /\ flag \in [Rf!Stations -> {"none", "sent", "ready"}]
  /\ fifo \in [Rf!Stations -> Packets] /\ buffer \in Packets /\ fragment \in Packets
  /\ sequence \in Nat /\ heard \subseteq Nat

(* The client never listens, and the copy is entered from ReceiveFragment. *)
RolesAreKept ==
  /\ chip["client"] # "rx" /\ op_mode["client"] # "rx" /\ goal["client"].mode # "rx"
  /\ goal["client"].next \in {"loop", "load", "sending"}
  /\ goal["server"].next # "copy"

(* A payload in the FIFO is one whose interrupt is waiting. *)
PayloadIsTold == flag["server"] = "ready" => edge["server"] /\ chip["server"] = "rx"
                 /\ flag["client"] # "ready"

(* What has come further is not older, and whole.  The client takes back   *)
(* a number only to use it again.                                          *)
OnTheAir == fifo["client"].first
FragmentsInOrder ==
  /\ Asking => sequence >= 1 /\ OnTheAir <= sequence
  /\ OnTheAir <= sequence + 1
  /\ fifo["client"].first = fifo["client"].last
  /\ flag["server"] = "ready" =>
       /\ fifo["server"].first = fifo["server"].last
       /\ buffer.first <= fifo["server"].first /\ fifo["server"].first <= OnTheAir
  /\ buffer.first = buffer.last /\ buffer.first <= OnTheAir
  /\ \A k \in heard : k <= buffer.first
  /\ pc["server"] = "copy" =>
       /\ \A k \in heard : k <= fragment.first
       /\ fragment.first <= buffer.first
       /\ AtomicBlock => fragment.first = buffer.first

(* previous_sequence_number_ is that of the last fragment read. *)
PreviousIsLast ==
  \/ heard = {} /\ previous = 0
  \/ \E l \in heard : (\A k \in heard : k <= l) /\ previous = Rf!Number(l)

PacketsInv ==
  /\ PacketsTypeOK /\ RolesAreKept /\ PayloadIsTold /\ FragmentsInOrder
  /\ PreviousIsLast /\ Rf!LossIsNoticed /\ (AtomicBlock => Rf!EchoIsWhole)

-----------------------------------------------------------------------------
(* A gap in the numbers is seen if less than a round of them is missing. *)
LEMMA GapIsSeen ==
  ASSUME Numbers, NEW m \in Nat, NEW n \in Nat, m + 1 < n, n - m <= Word
  PROVE  Rf!Number(n) # Rf!Number(m) + 1
  <1> DEFINE w == Word  q == m \div w  p == n \div w  a == m % w  b == n % w
  <1>1. w \in Nat \ {0}
    BY DEF Numbers
  <1>2. /\ q \in Int /\ p \in Int /\ a \in Int /\ b \in Int
        /\ m = w * q + a /\ n = w * p + b
    BY <1>1, SMT
  <1> HIDE DEF w, q, p, a, b
  <1> SUFFICES ASSUME b = a + 1 PROVE FALSE
    BY DEF Rf!Number, w, a, b
  <1> DEFINE d == p - q
  <1>3. d \in Int /\ w * d = n - m - 1
    <2>1. w * p - w * q = n - m - 1
      BY <1>1, <1>2
    <2>2. w * (p - q) = w * p - w * q
      BY <1>1, <1>2, SMT
    <2> QED
      BY <1>1, <1>2, <2>1, <2>2
  <1> HIDE DEF d
  <1>4. w * d > 0 /\ w * d < w
    BY <1>1, <1>3 DEF w
  <1>5. CASE d <= 0
    <2>1. w * d <= 0
      BY <1>1, <1>3, <1>5, SMT
    <2> QED
      BY <1>1, <1>3, <1>4, <2>1
  <1>6. CASE d >= 1
    <2>1. w * d >= w
      BY <1>1, <1>3, <1>6, SMT
    <2> QED
      BY <1>1, <1>3, <1>4, <2>1
  <1> QED
    BY <1>3, <1>5, <1>6

LEMMA PacketsInit ==
  ASSUME Rf!Init
  PROVE  PacketsInv
  <1>1. PacketsTypeOK
    BY DEF Rf!Init, PacketsTypeOK, Packets, Rf!Whole, Rf!Stations
  <1>2. RolesAreKept /\ PayloadIsTold
    BY DEF Rf!Init, RolesAreKept, PayloadIsTold, Rf!Stations
  <1>3. FragmentsInOrder /\ PreviousIsLast
    BY DEF Rf!Init, FragmentsInOrder, PreviousIsLast, Asking, OnTheAir, Rf!Whole,
       Rf!Stations
  <1>4. Rf!LossIsNoticed /\ Rf!EchoIsWhole
    BY DEF Rf!Init, Rf!LossIsNoticed, Rf!EchoIsWhole
  <1> QED
    BY <1>1, <1>2, <1>3, <1>4 DEF PacketsInv

(* What no step on the way of a fragment disturbs. *)
Traffic == <<fifo, buffer, fragment, sequence, heard, previous, counted>>

LEMMA OrderKeeps ==
  ASSUME PacketsInv, UNCHANGED Traffic,
         flag'["server"] = "ready" => flag["server"] = "ready",
         pc'["server"] = "copy" => pc["server"] = "copy",
         Asking' => Asking
  PROVE  FragmentsInOrder' /\ PreviousIsLast' /\ Rf!LossIsNoticed'
  <1>1. FragmentsInOrder'
    BY DEF PacketsInv, FragmentsInOrder, OnTheAir, Traffic
  <1>2. PreviousIsLast' /\ Rf!LossIsNoticed'
    BY DEF PacketsInv, PreviousIsLast, Rf!LossIsNoticed, Rf!Number, Traffic
  <1> QED
    BY <1>1, <1>2

(* A program moves on from one place to another. *)
LEMMA MovesKeep ==
  ASSUME RadioInv, PacketsInv, NEW s \in Rf!Stations, NEW l \in Places,
         pc' = [pc EXCEPT ![s] = l], l # "copy", pc[s] # "copy",
         \/ goal' = goal
         \/ \E m \in Rf!Modes, n \in Places \ {"copy"} :
              /\ goal' = [goal EXCEPT ![s] = [mode |-> m, next |-> n]]
              /\ s = "client" => m # "rx" /\ n \in {"loop", "load", "sending"},
         UNCHANGED <<Traffic, op_mode, chip, flag, edge>>, have' = have \/ have' = FALSE,
         Asking' => Asking
  PROVE  PacketsInv'
  <1>1. PacketsTypeOK' /\ PayloadIsTold'
    BY DEF PacketsInv, PacketsTypeOK, PayloadIsTold, Traffic
  <1>2. RolesAreKept'
    BY DEF RadioInv, RadioTypeOK, PacketsInv, RolesAreKept, Rf!Stations
  <1>3. pc'["server"] = "copy" <=> pc["server"] = "copy"
    BY DEF RadioInv, RadioTypeOK, Rf!Stations
  <1>4. FragmentsInOrder' /\ PreviousIsLast' /\ Rf!LossIsNoticed'
    BY <1>3, OrderKeeps
  <1>5. AtomicBlock => Rf!EchoIsWhole'
    BY <1>3 DEF PacketsInv, Rf!EchoIsWhole, Traffic
  <1> QED
    BY <1>1, <1>2, <1>4, <1>5 DEF PacketsInv

LEMMA MovesOn ==
  ASSUME RadioInv, PacketsInv, NEW s \in Rf!Stations,
         \/ Rf!BeginTransmit(s) \/ Rf!SendSucceeds(s)
         \/ s = "client" /\ Rf!Pause
         \/ s = "server" /\ (Rf!TransmitFragment \/ Rf!Listen \/ Rf!SendTimesOut(s))
  PROVE  PacketsInv'
  <1>1. ASSUME NEW l \in Places, Rf!Goto(s, l), l # "copy", pc[s] # "copy",
               UNCHANGED <<Traffic, op_mode, chip, flag, edge>>, have' = have \/ have' = FALSE,
               Asking' => Asking
        PROVE  PacketsInv'
    BY <1>1, MovesKeep DEF Rf!Goto
  <1>2. ASSUME NEW m \in Rf!Modes, NEW l \in Places \ {"copy"}, Rf!SetMode(s, m, l),
               s = "client" => m # "rx" /\ l \in {"loop", "load", "sending"}, pc[s] # "copy",
               UNCHANGED <<Traffic, op_mode, chip, flag, edge>>, have' = have,
               Asking' => Asking
        PROVE  PacketsInv'
    <2> DEFINE p == IF op_mode[s] = m THEN l ELSE "opmode"
    <2>1. p \in Places /\ p # "copy"
      BY DEF Places
    <2>2. pc' = [pc EXCEPT ![s] = p] /\ goal' = [goal EXCEPT ![s] = [mode |-> m, next |-> l]]
      BY <1>2 DEF Rf!SetMode
    <2> HIDE DEF p
    <2> QED
      BY <1>2, <2>1, <2>2, MovesKeep
  <1>3. /\ pc \in [Rf!Stations -> Places \union {"assign"}]
        /\ goal \in [Rf!Stations -> [mode : Rf!Modes, next : Places]]
    BY DEF RadioInv, RadioTypeOK
  <1>4. CASE Rf!BeginTransmit(s)
    <2>1. Asking' => Asking
      BY <1>3, <1>4 DEF Rf!BeginTransmit, Rf!SetMode, Rf!At, Asking, Rf!Stations
    <2> QED
      BY <1>2, <1>4, <2>1 DEF Rf!BeginTransmit, Rf!At, Traffic, Rf!radio, Rf!server,
         Rf!Modes, Places
  <1>5. CASE Rf!SendSucceeds(s)
    <2>1. Asking' => Asking
      BY <1>3, <1>5 DEF Rf!SendSucceeds, Rf!Goto, Rf!At, Asking, Rf!Stations
    <2> QED
      BY <1>1, <1>5, <2>1 DEF Rf!SendSucceeds, Rf!At, Traffic, Rf!radio, Places
  <1>6. CASE s = "client" /\ Rf!Pause
    <2>1. ~Asking'
      BY <1>3, <1>6 DEF Rf!Pause, Rf!SetMode, Rf!At, Asking, Rf!Stations
    <2> QED
      BY <1>2, <1>6, <2>1 DEF Rf!Pause, Rf!At, Traffic, Rf!radio, Rf!server, Rf!Modes,
         Places
  <1>7. CASE s = "server" /\ Rf!TransmitFragment
    <2> DEFINE p == IF have THEN "send" ELSE "sent"
    <2>1. p \in Places /\ p # "copy" /\ Rf!Goto(s, p)
      BY <1>7 DEF Rf!TransmitFragment, Places
    <2> HIDE DEF p
    <2>2. Asking' => Asking
      BY <1>3, <1>7, <2>1 DEF Rf!Goto, Asking, Rf!Stations
    <2> QED
      BY <1>1, <1>7, <2>1, <2>2 DEF Rf!TransmitFragment, Rf!At, Traffic, Rf!radio, Rf!server
  <1>8. CASE s = "server" /\ Rf!Listen
    <2>1. Asking' => Asking
      BY <1>3, <1>8 DEF Rf!Listen, Rf!SetMode, Asking, Rf!Stations
    <2> QED
      BY <1>2, <1>8, <2>1 DEF Rf!Listen, Rf!At, Traffic, Rf!radio, Rf!server, Rf!Modes,
         Places
  <1>9. CASE s = "server" /\ Rf!SendTimesOut(s)
    <2>1. Asking' => Asking
      BY <1>3, <1>9 DEF Rf!SendTimesOut, Rf!Goto, Asking, Rf!Stations
    <2> QED
      BY <1>1, <1>9, <2>1 DEF Rf!SendTimesOut, Rf!At, Traffic, Rf!radio, Rf!server, Places
  <1> QED
    BY <1>4, <1>5, <1>6, <1>7, <1>8, <1>9

(* A change of mode, in which no interrupt is waiting. *)
LEMMA ModeChangeKeeps ==
  ASSUME RadioInv, PacketsInv, NEW s \in Rf!Stations, Rf!WriteOpMode(s) \/ Rf!AssignOpMode(s)
  PROVE  PacketsInv'
  <1>1. ~edge[s] /\ pc[s] \in {"opmode", "assign"} /\ UNCHANGED <<Traffic, have, edge, goal>>
    BY DEF Rf!WriteOpMode, Rf!AssignOpMode, Rf!At, Rf!Goto, Traffic, Rf!server
  <1>2. /\ pc \in [Rf!Stations -> Places \union {"assign"}]
        /\ goal \in [Rf!Stations -> [mode : Rf!Modes, next : Places]]
        /\ op_mode \in [Rf!Stations -> Rf!Modes] /\ chip \in [Rf!Stations -> Rf!Modes]
        /\ flag \in [Rf!Stations -> {"none", "sent", "ready"}]
    BY DEF RadioInv, RadioTypeOK, PacketsInv, PacketsTypeOK
  <1>3. \/ flag' = flag
        \/ \E f \in {"none", flag[s]} : flag' = [flag EXCEPT ![s] = f]
    BY DEF Rf!WriteOpMode, Rf!AssignOpMode
  <1>4. PacketsTypeOK'
    BY <1>1, <1>2, <1>3 DEF PacketsInv, PacketsTypeOK, Traffic
  <1>5. /\ flag'["server"] \in {"none", flag["server"]}
        /\ flag'["client"] \in {"none", flag["client"]}
    BY <1>2, <1>3 DEF Rf!Stations
  <1>6. flag'["server"] = "ready" => s = "client" /\ chip'["server"] = chip["server"]
    BY <1>1, <1>2, <1>5 DEF PacketsInv, PayloadIsTold, Rf!WriteOpMode, Rf!AssignOpMode,
       Rf!Stations
  <1>7. PayloadIsTold'
    BY <1>1, <1>5, <1>6 DEF PacketsInv, PayloadIsTold
  <1>8. RolesAreKept'
    BY <1>1, <1>2 DEF PacketsInv, RolesAreKept, Rf!WriteOpMode, Rf!AssignOpMode, Rf!Stations
  <1>9. (pc'["server"] = "copy" <=> pc["server"] = "copy")
    BY <1>1, <1>2 DEF PacketsInv, RolesAreKept, Rf!WriteOpMode, Rf!AssignOpMode, Rf!Goto,
       Rf!Stations
  <1>10. Asking' => Asking
    <2>1. CASE s = "server"
      <3>1. pc'["client"] = pc["client"]
        BY <1>2, <2>1 DEF Rf!WriteOpMode, Rf!AssignOpMode, Rf!Goto, Rf!Stations
      <3> QED
        BY <1>1, <3>1 DEF Asking
    <2>2. CASE s = "client"
      <3>1. /\ pc["client"] \in {"opmode", "assign"}
            /\ pc'["client"] = "assign" \/ pc'["client"] = goal["client"].next
        BY <1>1, <1>2, <2>2 DEF Rf!WriteOpMode, Rf!AssignOpMode, Rf!Goto, Rf!Stations
      <3>2. goal["client"].next \in {"loop", "load", "sending"} /\ goal' = goal
        BY <1>1 DEF PacketsInv, RolesAreKept
      <3> QED
        BY <3>1, <3>2 DEF Asking
    <2> QED
      BY <2>1, <2>2 DEF Rf!Stations
  <1>11. AtomicBlock => Rf!EchoIsWhole'
    BY <1>1, <1>9 DEF PacketsInv, Rf!EchoIsWhole, Traffic
  <1> QED
    BY <1>1, <1>4, <1>5, <1>7, <1>8, <1>9, <1>10, <1>11, OrderKeeps DEF PacketsInv

(* The client takes a number, and takes it back. *)
LEMMA NumberKeeps ==
  ASSUME Numbers, RadioInv, PacketsInv, Rf!NextFragment \/ Rf!SendTimesOut("client")
  PROVE  PacketsInv'
  <1>1. UNCHANGED <<goal, op_mode, chip, flag, edge, fifo, buffer, fragment, have, heard,
                    previous, counted>>
    BY DEF Rf!NextFragment, Rf!SendTimesOut, Rf!Goto, Rf!radio, Rf!server
  <1>2. /\ pc \in [Rf!Stations -> Places \union {"assign"}] /\ sequence \in Nat
        /\ OnTheAir \in Nat
    BY DEF RadioInv, RadioTypeOK, PacketsInv, PacketsTypeOK, Packets, OnTheAir, Rf!Stations
  <1>3. /\ pc'["server"] = pc["server"]
        /\ \/ pc["client"] = "loop" /\ pc'["client"] = "send" /\ sequence' = sequence + 1
           \/ pc["client"] = "sending" /\ pc'["client"] = "sent" /\ sequence' = sequence - 1
    BY <1>2 DEF Rf!NextFragment, Rf!SendTimesOut, Rf!Goto, Rf!At, Rf!Stations
  <1>4. Asking => sequence >= 1 /\ OnTheAir <= sequence
    BY DEF PacketsInv, FragmentsInOrder
  <1>5. OnTheAir <= sequence + 1 /\ OnTheAir' = OnTheAir
    BY <1>1 DEF PacketsInv, FragmentsInOrder, OnTheAir
  <1>6. /\ sequence' \in Nat
        /\ Asking' => sequence' >= 1 /\ OnTheAir' <= sequence'
        /\ OnTheAir' <= sequence' + 1
    BY <1>2, <1>3, <1>4, <1>5 DEF Asking
  <1>7. /\ PacketsTypeOK' /\ PayloadIsTold' /\ RolesAreKept'
        /\ PreviousIsLast' /\ Rf!LossIsNoticed'
    BY <1>1, <1>6 DEF PacketsInv, PacketsTypeOK, PayloadIsTold, RolesAreKept,
       PreviousIsLast,
       Rf!LossIsNoticed, Rf!Number
  <1>8. FragmentsInOrder'
    BY <1>1, <1>3, <1>5, <1>6 DEF PacketsInv, FragmentsInOrder
  <1>9. AtomicBlock => Rf!EchoIsWhole'
    BY <1>1, <1>3 DEF PacketsInv, Rf!EchoIsWhole
  <1> QED
    BY <1>7, <1>8, <1>9 DEF PacketsInv

(* The FIFO is loaded with the client's number, or with the server's echo. *)
LEMMA LoadKeeps ==
  ASSUME RadioInv, PacketsInv, NEW s \in Rf!Stations, Rf!LoadFifo(s)
  PROVE  PacketsInv'
  <1> DEFINE p == IF op_mode[s] = "tx" THEN "sending" ELSE "opmode"
  <1>1. /\ pc[s] = "load" /\ ~edge[s] /\ pc' = [pc EXCEPT ![s] = p]
        /\ goal' = [goal EXCEPT ![s] = [mode |-> "tx", next |-> "sending"]]
        /\ UNCHANGED <<op_mode, chip, flag, edge, buffer, fragment, have, sequence, heard,
                       previous, counted>>
        /\ p \in {"sending", "opmode"}
    BY DEF Rf!LoadFifo, Rf!SetMode, Rf!At, Rf!server
  <1> HIDE DEF p
  <1>2. /\ pc \in [Rf!Stations -> Places \union {"assign"}]
        /\ goal \in [Rf!Stations -> [mode : Rf!Modes, next : Places]]
        /\ fifo \in [Rf!Stations -> Packets] /\ buffer \in Packets /\ fragment \in Packets
        /\ sequence \in Nat
    BY DEF RadioInv, RadioTypeOK, PacketsInv, PacketsTypeOK
  <1>3. fifo' = [fifo EXCEPT ![s] = IF s = "client" THEN Rf!Whole(sequence) ELSE fragment]
    BY DEF Rf!LoadFifo
  <1>4. fifo' \in [Rf!Stations -> Packets]
    <2>1. Rf!Whole(sequence) \in Packets
      BY <1>2 DEF Rf!Whole, Packets
    <2> QED
      BY <1>2, <1>3, <2>1
  <1>5. PacketsTypeOK' /\ PayloadIsTold'
    BY <1>1, <1>4 DEF PacketsInv, PacketsTypeOK, PayloadIsTold
  <1>6. RolesAreKept'
    BY <1>1, <1>2 DEF PacketsInv, RolesAreKept, Rf!Stations
  <1>7. PreviousIsLast' /\ Rf!LossIsNoticed'
    BY <1>1 DEF PacketsInv, PreviousIsLast, Rf!LossIsNoticed, Rf!Number
  <1>8. pc["server"] # "copy" => pc'["server"] # "copy"
    BY <1>1, <1>2 DEF Rf!Stations
  <1>9. pc'["server"] = "copy" => pc["server"] = "copy"
    BY <1>8
  <1>10. AtomicBlock => Rf!EchoIsWhole'
    <2>1. pc["server"] = "copy" => pc'["server"] = "copy"
      BY <1>1, <1>2 DEF Rf!Stations
    <2> QED
      BY <1>1, <2>1 DEF PacketsInv, Rf!EchoIsWhole
  <1>11. CASE s = "client"
    <2>1. Asking
      BY <1>1, <1>11 DEF Asking
    <2>2. fifo'["client"] = Rf!Whole(sequence) /\ fifo'["server"] = fifo["server"]
      BY <1>2, <1>3, <1>11 DEF Rf!Stations
    <2>3. /\ fifo'["client"].first = sequence /\ fifo'["client"].last = sequence
          /\ OnTheAir' = sequence
      BY <2>2 DEF Rf!Whole, OnTheAir
    <2>4. /\ fifo["server"].first \in Nat /\ buffer.first \in Nat /\ OnTheAir \in Nat
      BY <1>2 DEF Packets, OnTheAir, Rf!Stations
    <2>5. FragmentsInOrder'
      BY <1>1, <1>2, <1>9, <2>1, <2>2, <2>3, <2>4 DEF PacketsInv, FragmentsInOrder
    <2> QED
      BY <1>5, <1>6, <1>7, <1>10, <2>5 DEF PacketsInv
  <1>12. CASE s = "server"
    <2>1. flag["server"] # "ready"
      BY <1>1, <1>12 DEF PacketsInv, PayloadIsTold
    <2>2. fifo'["client"] = fifo["client"] /\ pc'["client"] = pc["client"]
          /\ goal'["client"] = goal["client"]
      BY <1>1, <1>2, <1>3, <1>12 DEF Rf!Stations
    <2>3. (Asking' => Asking) /\ OnTheAir' = OnTheAir
      BY <2>2 DEF Asking, OnTheAir
    <2>4. FragmentsInOrder'
      BY <1>1, <1>9, <2>1, <2>2, <2>3 DEF PacketsInv, FragmentsInOrder
    <2> QED
      BY <1>5, <1>6, <1>7, <1>10, <2>4 DEF PacketsInv
  <1> QED
    BY <1>11, <1>12 DEF Rf!Stations

(* The server begins to copy the buffer. *)
LEMMA ReceiveKeeps ==
  ASSUME RadioInv, PacketsInv, Rf!ReceiveFragment
  PROVE  PacketsInv'
  <1>1. /\ pc["server"] = "receive"
        /\ UNCHANGED <<goal, op_mode, chip, flag, edge, fifo, buffer, have, sequence, heard,
                       previous, counted>>
    BY DEF Rf!ReceiveFragment, Rf!At, Rf!Goto, Rf!radio
  <1>2. /\ pc \in [Rf!Stations -> Places \union {"assign"}]
        /\ buffer \in Packets /\ fragment \in Packets
    BY DEF RadioInv, RadioTypeOK, PacketsInv, PacketsTypeOK
  <1>3. \/ /\ fragment' = [fragment EXCEPT !.first = buffer.first]
           /\ pc' = [pc EXCEPT !["server"] = "copy"]
        \/ fragment' = fragment /\ pc' = [pc EXCEPT !["server"] = "transmit"]
    BY DEF Rf!ReceiveFragment, Rf!Goto
  <1>4. fragment' \in Packets
    BY <1>2, <1>3 DEF Packets
  <1>5. /\ PacketsTypeOK' /\ PayloadIsTold' /\ RolesAreKept'
        /\ PreviousIsLast' /\ Rf!LossIsNoticed'
    BY <1>1, <1>4 DEF PacketsInv, PacketsTypeOK, PayloadIsTold, RolesAreKept,
       PreviousIsLast,
       Rf!LossIsNoticed, Rf!Number
  <1>6. pc'["client"] = pc["client"]
    BY <1>2, <1>3 DEF Rf!Stations
  <1>7. Asking' = Asking /\ OnTheAir' = OnTheAir
    BY <1>1, <1>6 DEF Asking, OnTheAir
  <1>8. pc'["server"] = "copy" => fragment'.first = buffer.first
    BY <1>2, <1>3 DEF Rf!Stations, Packets
  <1>9. FragmentsInOrder'
    <2>1. buffer.first \in Nat
      BY <1>2 DEF Packets
    <2> QED
      BY <1>1, <1>7, <1>8, <2>1 DEF PacketsInv, FragmentsInOrder
  <1>10. AtomicBlock => Rf!EchoIsWhole'
    BY <1>1, <1>2, <1>3 DEF PacketsInv, Rf!EchoIsWhole, Rf!Stations
  <1> QED
    BY <1>5, <1>9, <1>10 DEF PacketsInv

(* The server ends its copy, and counts a drop where it sees a gap. *)
LEMMA FinishKeeps ==
  ASSUME Numbers, RadioInv, PacketsInv, Rf!FinishCopy
  PROVE  PacketsInv'
  <1> DEFINE f == fragment.first
  <1>1. /\ pc["server"] = "copy"
        /\ UNCHANGED <<goal, op_mode, chip, flag, edge, fifo, buffer, sequence>>
        /\ fragment' = [fragment EXCEPT !.last = buffer.last]
        /\ counted' = IF Rf!Gap(f) THEN counted \union {f} ELSE counted
        /\ previous' = Rf!Number(f) /\ heard' = heard \union {f}
        /\ pc' = [pc EXCEPT !["server"] = "transmit"]
    BY DEF Rf!FinishCopy, Rf!Goto
  <1>2. /\ pc \in [Rf!Stations -> Places \union {"assign"}]
        /\ buffer \in Packets /\ fragment \in Packets /\ heard \subseteq Nat
    BY DEF RadioInv, RadioTypeOK, PacketsInv, PacketsTypeOK
  <1>3. f \in Nat /\ buffer.first \in Nat
    BY <1>2 DEF Packets
  <1>4. /\ \A k \in heard : k <= f
        /\ f <= buffer.first /\ (AtomicBlock => f = buffer.first)
    BY <1>1 DEF PacketsInv, FragmentsInOrder
  <1>5. fragment' \in Packets /\ fragment'.first = f /\ fragment'.last = buffer.last
    BY <1>1, <1>2 DEF Packets
  <1>6. heard' \subseteq Nat /\ \A k \in heard' : k <= f
    BY <1>1, <1>2, <1>3, <1>4
  <1>7. pc'["client"] = pc["client"] /\ pc'["server"] = "transmit"
    BY <1>1, <1>2 DEF Rf!Stations
  <1>8. PacketsTypeOK' /\ PayloadIsTold' /\ RolesAreKept'
    BY <1>1, <1>5, <1>6 DEF PacketsInv, PacketsTypeOK, PayloadIsTold, RolesAreKept
  <1>9. FragmentsInOrder'
    <2>1. Asking' = Asking /\ OnTheAir' = OnTheAir
      BY <1>1, <1>7 DEF Asking, OnTheAir
    <2>2. \A k \in heard' : k <= buffer.first
      BY <1>2, <1>3, <1>4, <1>6
    <2> QED
      BY <1>1, <1>7, <2>1, <2>2 DEF PacketsInv, FragmentsInOrder
  <1>10. PreviousIsLast'
    <2>1. f \in heard'
      BY <1>1
    <2> QED
      BY <1>1, <1>6, <2>1 DEF PreviousIsLast, Rf!Number
  <1>11. AtomicBlock => Rf!EchoIsWhole'
    BY <1>1, <1>4, <1>5 DEF PacketsInv, FragmentsInOrder, Rf!EchoIsWhole
  <1>12. Rf!LossIsNoticed'
    <2> SUFFICES ASSUME NEW m \in heard', NEW n \in heard', m + 1 < n,
                        \A k \in heard' : k <= m \/ k >= n,
                        Rf!Number(m) # 0, n - m <= Word
                 PROVE  n \in counted'
      BY DEF Rf!LossIsNoticed, Rf!Number
    <2>1. m \in Nat /\ n \in Nat /\ n <= f
      BY <1>6
    <2>2. m # f /\ m \in heard
      <3>1. m # f
        BY <1>3, <2>1
      <3> QED
        BY <1>1, <3>1
    <2>3. CASE n \in heard
      <3>1. \A k \in heard : k <= m \/ k >= n
        BY <1>1
      <3>2. n \in counted
        BY <2>2, <2>3, <3>1 DEF PacketsInv, Rf!LossIsNoticed
      <3> QED
        BY <1>1, <3>2
    <2>4. CASE n \notin heard
      <3>1. n = f
        BY <1>1, <2>4
      <3>2. \A k \in heard : k <= m
        <4> SUFFICES ASSUME NEW k \in heard PROVE k <= m
          OBVIOUS
        <4>1. k \in heard' /\ k # n /\ k <= f /\ k \in Nat
          BY <1>1, <1>2, <1>4, <2>4
        <4> QED
          BY <1>3, <2>1, <3>1, <4>1
      <3>3. PICK l \in heard : (\A k \in heard : k <= l) /\ previous = Rf!Number(l)
        BY <2>2 DEF PacketsInv, PreviousIsLast
      <3>4. l = m
        <4>1. l <= m /\ m <= l /\ l \in Nat
          BY <1>2, <2>2, <3>2, <3>3
        <4> QED
          BY <2>1, <4>1
      <3>5. Rf!Gap(f)
        BY <2>1, <3>1, <3>3, <3>4, GapIsSeen DEF Rf!Gap
      <3> QED
        BY <1>1, <3>1, <3>5
    <2> QED
      BY <2>3, <2>4
  <1> QED
    BY <1>8, <1>9, <1>10, <1>11, <1>12 DEF PacketsInv

(* A payload comes into the buffer, unless a copy of it is protected. *)
LEMMA PayloadKeeps ==
  ASSUME RadioInv, PacketsInv, NEW s \in Rf!Stations, Rf!Interrupt(s)
  PROVE  PacketsInv'
  <1> DEFINE complete == op_mode[s] = "tx" /\ flag[s] = "sent"
             payload == op_mode[s] = "rx" /\ flag[s] = "ready"
  <1>1. /\ edge[s] /\ ~Rf!Masked(s)
        /\ edge' = [edge EXCEPT ![s] = FALSE]
        /\ op_mode' = [op_mode EXCEPT ![s] = IF complete \/ payload THEN "standby" ELSE @]
        /\ chip' = [chip EXCEPT ![s] = IF complete \/ payload THEN "standby" ELSE @]
        /\ flag' = [flag EXCEPT ![s] = IF complete \/ payload THEN "none" ELSE @]
        /\ UNCHANGED <<pc, goal, fifo, fragment, have, sequence, heard, previous, counted>>
    BY DEF Rf!Interrupt, Rf!server
  <1>2. buffer' = IF payload THEN fifo[s] ELSE buffer
    BY DEF Rf!Interrupt
  <1>3. /\ pc \in [Rf!Stations -> Places \union {"assign"}]
        /\ op_mode \in [Rf!Stations -> Rf!Modes] /\ chip \in [Rf!Stations -> Rf!Modes]
        /\ edge \in [Rf!Stations -> BOOLEAN]
        /\ flag \in [Rf!Stations -> {"none", "sent", "ready"}]
        /\ fifo \in [Rf!Stations -> Packets] /\ buffer \in Packets /\ fragment \in Packets
        /\ heard \subseteq Nat
    BY DEF RadioInv, RadioTypeOK, PacketsInv, PacketsTypeOK
  <1>4. payload => s = "server"
    BY DEF PacketsInv, RolesAreKept, Rf!Stations
  <1>5. flag["server"] = "ready" /\ s = "server" => payload
    BY <1>1 DEF PacketsInv, PayloadIsTold, RadioInv, Undisturbed, Rf!Stations
  <1> HIDE DEF complete, payload
  <1>6. PacketsTypeOK'
    <2>1. buffer' \in Packets
      BY <1>2, <1>3
    <2>2. flag' \in [Rf!Stations -> {"none", "sent", "ready"}]
      BY <1>1, <1>3
    <2> QED
      BY <1>1, <2>1, <2>2 DEF PacketsInv, PacketsTypeOK
  <1>7. RolesAreKept'
    BY <1>1, <1>3 DEF PacketsInv, RolesAreKept, Rf!Stations
  <1>8. flag'["server"] = "ready" => flag["server"] = "ready" /\ s = "client"
    BY <1>1, <1>3, <1>5 DEF Rf!Stations
  <1>9. PayloadIsTold'
    <2> SUFFICES ASSUME flag'["server"] = "ready"
                 PROVE  edge'["server"] /\ chip'["server"] = "rx" /\ flag'["client"] # "ready"
      BY DEF PayloadIsTold
    <2>1. edge["server"] /\ chip["server"] = "rx" /\ flag["client"] # "ready"
      BY <1>8 DEF PacketsInv, PayloadIsTold
    <2> QED
      BY <1>1, <1>3, <1>8, <2>1 DEF Rf!Stations
  <1>10. PreviousIsLast' /\ Rf!LossIsNoticed' /\ (AtomicBlock => Rf!EchoIsWhole')
    BY <1>1 DEF PacketsInv, PreviousIsLast, Rf!LossIsNoticed, Rf!EchoIsWhole, Rf!Number
  <1>11. Asking' = Asking /\ OnTheAir' = OnTheAir
    BY <1>1 DEF Asking, OnTheAir
  <1>12. FragmentsInOrder'
    <2>1. CASE ~payload
      BY <1>1, <1>2, <1>8, <1>11, <2>1 DEF PacketsInv, FragmentsInOrder
    <2>2. CASE payload
      <3>1. s = "server" /\ flag["server"] = "ready" /\ buffer' = fifo["server"]
        BY <1>2, <1>4, <2>2 DEF payload
      <3>2. /\ fifo["server"].first = fifo["server"].last
            /\ buffer.first <= fifo["server"].first /\ fifo["server"].first <= OnTheAir
            /\ \A k \in heard : k <= buffer.first
        BY <3>1 DEF PacketsInv, FragmentsInOrder
      <3>3. /\ buffer.first \in Nat /\ fifo["server"].first \in Nat /\ OnTheAir \in Nat
            /\ fragment.first \in Nat
        BY <1>3 DEF Packets, OnTheAir, Rf!Stations
      <3>4. \A k \in heard : k <= buffer'.first
        <4> SUFFICES ASSUME NEW k \in heard PROVE k <= buffer'.first
          OBVIOUS
        <4>1. k \in Nat /\ k <= buffer.first
          BY <1>3, <3>2
        <4> QED
          BY <3>1, <3>2, <3>3, <4>1
      <3>5. pc["server"] = "copy" => fragment.first <= buffer'.first /\ ~AtomicBlock
        <4>1. pc["server"] = "copy" => ~AtomicBlock
          BY <1>1, <3>1 DEF Rf!Masked
        <4>2. pc["server"] = "copy" => fragment.first <= buffer.first
          BY DEF PacketsInv, FragmentsInOrder
        <4> QED
          BY <3>1, <3>2, <3>3, <4>1, <4>2
      <3> QED
        BY <1>1, <1>8, <1>11, <3>1, <3>2, <3>4, <3>5 DEF PacketsInv, FragmentsInOrder
    <2> QED
      BY <2>1, <2>2
  <1> QED
    BY <1>6, <1>7, <1>9, <1>10, <1>12 DEF PacketsInv

(* A packet arrives at the server or is lost, and never at the client. *)
LEMMA AirKeeps ==
  ASSUME RadioInv, PacketsInv, NEW s \in Rf!Stations, Rf!PacketSent(s)
  PROVE  PacketsInv'
  <1> DEFINE r == CHOOSE t \in Rf!Stations : t # s
  <1>1. /\ chip[s] = "tx" /\ flag[s] = "none"
        /\ UNCHANGED <<pc, goal, op_mode, chip, buffer, fragment, have, sequence, heard,
                       previous, counted>>
        /\ \/ /\ chip[r] = "rx" /\ flag[r] = "none"
              /\ fifo' = [fifo EXCEPT ![r] = fifo[s]]
              /\ flag' = [flag EXCEPT ![s] = "sent", ![r] = "ready"]
              /\ edge' = [edge EXCEPT ![s] = TRUE, ![r] = TRUE]
           \/ /\ flag' = [flag EXCEPT ![s] = "sent"]
              /\ edge' = [edge EXCEPT ![s] = TRUE]
              /\ fifo' = fifo
    BY DEF Rf!PacketSent, Rf!server
  <1>2. r \in Rf!Stations /\ r # s
    BY DEF Rf!Stations
  <1> HIDE DEF r
  <1>3. /\ chip \in [Rf!Stations -> Rf!Modes] /\ edge \in [Rf!Stations -> BOOLEAN]
        /\ flag \in [Rf!Stations -> {"none", "sent", "ready"}]
        /\ fifo \in [Rf!Stations -> Packets] /\ buffer \in Packets /\ heard \subseteq Nat
    BY DEF RadioInv, RadioTypeOK, PacketsInv, PacketsTypeOK
  <1>4. Asking' = Asking
    BY <1>1 DEF Asking
  <1>5. /\ RolesAreKept' /\ PreviousIsLast' /\ Rf!LossIsNoticed'
        /\ AtomicBlock => Rf!EchoIsWhole'
    BY <1>1 DEF PacketsInv, RolesAreKept, PreviousIsLast, Rf!LossIsNoticed, Rf!EchoIsWhole,
       Rf!Number
  <1>6. PacketsTypeOK'
    <2>1. /\ fifo' \in [Rf!Stations -> Packets]
          /\ flag' \in [Rf!Stations -> {"none", "sent", "ready"}]
      BY <1>1, <1>2, <1>3
    <2> QED
      BY <1>1, <2>1 DEF PacketsInv, PacketsTypeOK
  <1>7. CASE /\ flag' = [flag EXCEPT ![s] = "sent"]
             /\ edge' = [edge EXCEPT ![s] = TRUE]
             /\ fifo' = fifo
    <2>1. flag'["server"] = "ready" => flag["server"] = "ready"
      BY <1>3, <1>7 DEF Rf!Stations
    <2>2. PayloadIsTold'
      BY <1>1, <1>3, <1>7, <2>1 DEF PacketsInv, PayloadIsTold, Rf!Stations
    <2>3. OnTheAir' = OnTheAir
      BY <1>7 DEF OnTheAir
    <2>4. FragmentsInOrder'
      BY <1>1, <1>4, <1>7, <2>1, <2>3 DEF PacketsInv, FragmentsInOrder
    <2> QED
      BY <1>5, <1>6, <2>2, <2>4 DEF PacketsInv
  <1>8. CASE /\ chip[r] = "rx" /\ flag[r] = "none"
             /\ fifo' = [fifo EXCEPT ![r] = fifo[s]]
             /\ flag' = [flag EXCEPT ![s] = "sent", ![r] = "ready"]
             /\ edge' = [edge EXCEPT ![s] = TRUE, ![r] = TRUE]
    <2>1. s = "client" /\ r = "server"
      BY <1>2, <1>8 DEF PacketsInv, RolesAreKept, Rf!Stations
    <2>2. /\ fifo'["server"] = fifo["client"] /\ fifo'["client"] = fifo["client"]
          /\ flag'["client"] = "sent" /\ edge'["server"]
      BY <1>3, <1>8, <2>1 DEF Rf!Stations
    <2>3. PayloadIsTold'
      BY <1>1, <1>8, <2>1, <2>2 DEF PayloadIsTold
    <2>4. OnTheAir' = OnTheAir /\ fifo'["server"].first = OnTheAir
          /\ fifo'["server"].last = fifo["client"].last /\ OnTheAir \in Nat
      BY <1>3, <2>2 DEF OnTheAir, Packets, Rf!Stations
    <2>5. FragmentsInOrder'
      BY <1>1, <1>4, <2>2, <2>4 DEF PacketsInv, FragmentsInOrder, OnTheAir
    <2> QED
      BY <1>5, <1>6, <2>3, <2>5 DEF PacketsInv
  <1> QED
    BY <1>1, <1>7, <1>8

LEMMA PacketsNext ==
  ASSUME Numbers, RadioInv, PacketsInv, [Rf!Next]_Rf!vars
  PROVE  PacketsInv'
  <1>1. ASSUME NEW s \in Rf!Stations, Rf!Program(s)
        PROVE  PacketsInv'
    BY <1>1, ModeChangeKeeps, MovesOn, LoadKeeps, NumberKeeps, ReceiveKeeps, FinishKeeps
       DEF Rf!Program
  <1>2. ASSUME NEW s \in Rf!Stations, Rf!SendTimesOut(s)
        PROVE  PacketsInv'
    BY <1>2, MovesOn, NumberKeeps DEF Rf!Stations
  <1>3. CASE UNCHANGED Rf!vars
    BY <1>3 DEF Rf!vars, Rf!radio, Rf!server, PacketsInv, PacketsTypeOK, RolesAreKept,
       PayloadIsTold, FragmentsInOrder, OnTheAir, Asking, PreviousIsLast, Rf!LossIsNoticed,
       Rf!EchoIsWhole, Rf!Number
  <1> QED
    BY <1>1, <1>2, <1>3, PayloadKeeps, AirKeeps DEF Rf!Next

(* With atomic blocks and the short window that WindowIsShort allows, the  *)
(* interrupt handler of rf69hcw.h may come between any two of the          *)
(* program's transactions: op_mode_ is the mode of the chip, no fragment   *)
(* is put together from two, and echo_server.cc counts what is missing.    *)
THEOREM RadioStaysSound ==
  ASSUME WindowIsShort, AtomicBlock, Numbers
  PROVE  Spec => []RadioIsSound
  <1>1. Init => RadioInv /\ PacketsInv
    BY RadioInvInit, PacketsInit, DriversInit
  <1>2. RadioInv /\ PacketsInv /\ [Next]_vars => RadioInv' /\ PacketsInv'
    <2> SUFFICES ASSUME RadioInv, PacketsInv, [Next]_vars PROVE RadioInv' /\ PacketsInv'
      OBVIOUS
    <2>1. [Rf!Next]_Rf!vars
      BY OnlyOneMoves DEF radio, Rf!vars, Rf!radio, Rf!server
    <2> QED
      BY <2>1, RadioInvNext, PacketsNext
  <1>3. RadioInv /\ PacketsInv => RadioIsSound
    BY DEF RadioInv, Undisturbed, Rf!ModesAgree, PacketsInv, RadioIsSound
  <1> QED
    BY <1>1, <1>2, <1>3, PTL DEF Spec

-----------------------------------------------------------------------------
(* The program's arguments: int powers, unsigned lengths. *)
Arguments == Powers \subseteq Int /\ Lengths \subseteq Nat \ {0} /\ ~PowerAnytime

Codings == {"none", "whitening", "manchester"}

PowerIsSet ==
  /\ power \in -2..20
  /\ amplifiers = Settings!Amplifiers(power)
  /\ register_mode \in Settings!Modes
  /\ boost \in BOOLEAN /\ (boost <=> register_mode = "tx" /\ power >= 18)

BitsAreSet ==
  /\ wanted = [power |-> wanted.power, length |-> wanted.length, coding |-> wanted.coding,
              threshold |-> wanted.threshold]
  /\ wanted.coding \in Codings /\ coding = {wanted.coding} \ {"none"}
  /\ wanted.length \in Nat
  /\ sync = [on |-> TRUE, manual |-> FALSE, size |-> Settings!Clamped(wanted.length, 1, 8) - 1]
  /\ power = Settings!Clamped(wanted.power, -2, 20)

ThresholdIsKept ==
  /\ measuring \in BOOLEAN
  /\ measuring => saved = wanted.threshold
  /\ ~measuring => threshold = wanted.threshold

ChannelIsSet == channel \in {Settings!Channel(12500, 17500), Settings!Channel(290000, 355000)}

SettingsInv == PowerIsSet /\ BitsAreSet /\ ThresholdIsKept /\ ChannelIsSet

-----------------------------------------------------------------------------
(* From 200 bit/s on every bandwidth of the table is too small, so that    *)
(* the filter is always the widest.                                        *)
LEMMA WidestFilter ==
  ASSUME NEW rate \in Nat, rate >= 200
  PROVE  Settings!RxBandwidth(rate) = [mantissa |-> 0, exponent |-> 0]
  <1>1. \A i \in DOMAIN Settings!Bandwidths : ~(20 * rate < Settings!Bandwidths[i])
    <2>1. DOMAIN Settings!Bandwidths = 1..23
      BY DEF Settings!Bandwidths
    <2> SUFFICES ASSUME NEW i \in 1..23 PROVE ~(20 * rate < Settings!Bandwidths[i])
      BY <2>1
    <2>2. 20 * rate >= 4000
      OBVIOUS
    <2>3. CASE i \in 1..8
      BY <2>2, <2>3 DEF Settings!Bandwidths
    <2>4. CASE i \in 9..16
      BY <2>2, <2>4 DEF Settings!Bandwidths
    <2>5. CASE i \in 17..23
      BY <2>2, <2>5 DEF Settings!Bandwidths
    <2> QED BY <2>3, <2>4, <2>5
  <1>2. {i \in DOMAIN Settings!Bandwidths : 20 * rate < Settings!Bandwidths[i]} = {}
    BY <1>1
  <1>3. 2 - (23 % 3) = 0 /\ 7 - (23 \div 3) = 0
    OBVIOUS
  <1> QED BY <1>2, <1>3 DEF Settings!RxBandwidth

LEMMA FilterFits == ChannelIsSet => Settings!FitsReceiver
  <1>1. Settings!Width([mantissa |-> 0, exponent |-> 0]) = 500000
    <2>1. <<16, 20, 24>>[0 + 1] * 2^(0 + 2) = 64
      BY 2^2 = 4
    <2> QED BY <2>1 DEF Settings!Width
  <1>2. Settings!RxBandwidth(12500) = [mantissa |-> 0, exponent |-> 0]
        /\ Settings!RxBandwidth(290000) = [mantissa |-> 0, exponent |-> 0]
    BY WidestFilter
  <1> QED BY <1>1, <1>2 DEF ChannelIsSet, Settings!FitsReceiver, Settings!Channel

LEMMA PowerIsTold == PowerIsSet => Settings!AmplifiersAgree
  <1> SUFFICES ASSUME PowerIsSet PROVE Settings!AmplifiersAgree
    OBVIOUS
  <1>1. CASE power <= 13
    <2>1. (power + 18) % 32 = power + 18
      BY <1>1 DEF PowerIsSet
    <2> QED BY <1>1, <2>1
               DEF PowerIsSet, Settings!AmplifiersAgree, Settings!Amplifiers,
                  Settings!Emitted
  <1>2. CASE power >= 18
    <2>1. (power + 11) % 32 = power + 11
      BY <1>2 DEF PowerIsSet
    <2> QED BY <1>2, <2>1
               DEF PowerIsSet, Settings!AmplifiersAgree, Settings!Amplifiers,
                  Settings!Emitted
  <1>3. CASE power \in 14..17
    <2>1. (power + 14) % 32 = power + 14
      BY <1>3
    <2> QED BY <1>3, <2>1
               DEF PowerIsSet, Settings!AmplifiersAgree, Settings!Amplifiers,
                  Settings!Emitted
  <1> QED BY <1>1, <1>2, <1>3 DEF PowerIsSet

LEMMA BitsAreRead == BitsAreSet /\ ThresholdIsKept => Settings!SettingsReadBack
  <1> SUFFICES ASSUME BitsAreSet, ThresholdIsKept PROVE Settings!SettingsReadBack
    OBVIOUS
  <1>1. Settings!GetLineCoding = wanted.coding
    BY DEF BitsAreSet, Codings, Settings!GetLineCoding
  <1>2. sync.on /\ ~sync.manual
        /\ Settings!GetSyncWordsLength = Settings!Clamped(wanted.length, 1, 8)
    BY DEF BitsAreSet, Settings!GetSyncWordsLength, Settings!Clamped
  <1>3. (IF measuring THEN saved ELSE threshold) = wanted.threshold
    BY Zenon DEF ThresholdIsKept
  <1> QED BY <1>1, <1>2, <1>3 DEF BitsAreSet, Settings!SettingsReadBack

LEMMA SettingsInvInit == Settings!Init => SettingsInv
  <1> SUFFICES ASSUME Settings!Init PROVE SettingsInv
    OBVIOUS
  <1>1. PowerIsSet
    <2>1. power = 13 /\ register_mode = "standby" /\ boost = FALSE
          /\ amplifiers = Settings!Amplifiers(13)
      BY DEF Settings!Init
    <2>2. power \in -2..20 /\ ~(power >= 18)
      BY <2>1
    <2> QED BY <2>1, <2>2, Zenon DEF PowerIsSet, Settings!Modes
  <1>2. BitsAreSet
    <2>1. wanted = [power |-> 13, length |-> 8, coding |-> "whitening", threshold |-> 190]
          /\ coding = {"whitening"} /\ sync = [on |-> TRUE, manual |-> FALSE, size |-> 7]
          /\ power = 13
      BY DEF Settings!Init
    <2>2. Settings!Clamped(8, 1, 8) = 8 /\ Settings!Clamped(13, -2, 20) = 13
      BY DEF Settings!Clamped
    <2>3. wanted.power = 13 /\ wanted.length = 8 /\ wanted.coding = "whitening"
          /\ wanted.threshold = 190
      BY <2>1
    <2>4. wanted.coding \in Codings /\ coding = {wanted.coding} \ {"none"}
      BY <2>1, <2>3 DEF Codings
    <2>5. wanted = [power |-> wanted.power, length |-> wanted.length, coding |-> wanted.coding,
                   threshold |-> wanted.threshold]
      BY <2>1, <2>3
    <2>6. power = Settings!Clamped(wanted.power, -2, 20)
      BY <2>1, <2>2, <2>3, Zenon
    <2>7. wanted.length \in Nat /\ Settings!Clamped(wanted.length, 1, 8) - 1 = 7
      BY <2>2, <2>3
    <2>8. sync = [on |-> TRUE, manual |-> FALSE, size |-> Settings!Clamped(wanted.length, 1,
       8) - 1]
      BY <2>1, <2>7, Zenon
    <2> QED BY <2>4, <2>5, <2>6, <2>7, <2>8, Zenon DEF BitsAreSet
  <1>3. ThresholdIsKept
    <2>1. measuring = FALSE /\ threshold = 190 /\ wanted.threshold = 190
      BY DEF Settings!Init
    <2> QED BY <2>1 DEF ThresholdIsKept
  <1> QED BY <1>1, <1>2, <1>3 DEF Settings!Init, SettingsInv, ChannelIsSet

(* Both ways out of reset leave the same invariant. *)
LEMMA ResetKeeps ==
  ASSUME NEW rate, NEW deviation, NEW length \in 1..8, NEW scheme,
         Settings!AfterReset(rate, deviation, length, scheme)
  PROVE  PowerIsSet' /\ BitsAreSet' /\ ThresholdIsKept'
         /\ channel' = Settings!Channel(rate, deviation)
  <1>1. PowerIsSet'
    <2>1. power' = 13 /\ register_mode' = "standby" /\ boost' = FALSE
          /\ amplifiers' = Settings!Amplifiers(13)
      BY DEF Settings!AfterReset
    <2>2. power' \in -2..20 /\ ~(power' >= 18)
      BY <2>1
    <2> QED BY <2>1, <2>2, Zenon DEF PowerIsSet, Settings!Modes
  <1>2. wanted' = [power |-> 13, length |-> length, coding |-> "whitening",
                  threshold |-> threshold']
    BY DEF Settings!AfterReset
  <1>3. coding' = {"whitening"} /\ sync' = [on |-> TRUE, manual |-> FALSE, size |-> length - 1]
        /\ power' = 13 /\ channel' = Settings!Channel(rate, deviation)
    BY DEF Settings!AfterReset
  <1>4. Settings!Clamped(length, 1, 8) = length /\ Settings!Clamped(13, -2, 20) = 13
    BY DEF Settings!Clamped
  <1>5. BitsAreSet'
    <2>1. wanted'.power = 13 /\ wanted'.length = length /\ wanted'.coding = "whitening"
          /\ wanted'.threshold = threshold'
      BY <1>2
    <2>2. coding' = {wanted'.coding} \ {"none"} /\ wanted'.coding \in Codings
      BY <1>3, <2>1 DEF Codings
    <2>3. length \in Nat
      OBVIOUS
    <2> QED BY <1>2, <1>3, <1>4, <2>1, <2>2, <2>3 DEF BitsAreSet
  <1>6. ThresholdIsKept'
    <2>1. measuring' = FALSE /\ wanted'.threshold = threshold'
      BY <1>2 DEF Settings!AfterReset
    <2> QED BY <2>1 DEF ThresholdIsKept
  <1> QED BY <1>1, <1>3, <1>5, <1>6

LEMMA SettingsInvNext ==
  ASSUME Arguments, SettingsInv, [Settings!Next]_Settings!vars
  PROVE  SettingsInv'
  <1>1. CASE Settings!Reset \/ Settings!HighThroughput
    BY <1>1, ResetKeeps DEF Settings!Reset, Settings!HighThroughput, SettingsInv,
       ChannelIsSet
  <1>2. ASSUME NEW m \in Settings!Modes, Settings!SetMode(m)
        PROVE  SettingsInv'
    <2>1. UNCHANGED <<power, amplifiers, sync, threshold, channel, coding, measuring, saved,
                      wanted>>
          /\ register_mode' = m
      BY <1>2 DEF Settings!SetMode
    <2>2. boost' \in BOOLEAN /\ (boost' <=> m = "tx" /\ power >= 18)
      <3>1. CASE power >= 18
        BY <1>2, <3>1, Zenon DEF Settings!SetMode
      <3>2. CASE ~(power >= 18)
        BY <1>2, <3>2, Zenon DEF Settings!SetMode, SettingsInv, PowerIsSet
      <3> QED BY <3>1, <3>2
    <2>3. PowerIsSet'
      BY <2>1, <2>2, Zenon DEF SettingsInv, PowerIsSet
    <2> QED BY <2>1, <2>3 DEF SettingsInv, BitsAreSet, ThresholdIsKept, ChannelIsSet
  <1>3. ASSUME NEW p \in Powers, Settings!SetPower(p)
        PROVE  SettingsInv'
    <2>1. register_mode # "tx" /\ ~boost /\ p \in Int
      BY <1>3 DEF Settings!SetPower, Arguments, SettingsInv, PowerIsSet
    <2>2. PowerIsSet'
      BY <1>3, <2>1 DEF Settings!SetPower, SettingsInv, PowerIsSet, Settings!Clamped
    <2>3. BitsAreSet' /\ ThresholdIsKept' /\ ChannelIsSet'
      BY <1>3, <2>1
         DEF Settings!SetPower, SettingsInv, BitsAreSet, ThresholdIsKept, ChannelIsSet
    <2> QED BY <2>2, <2>3 DEF SettingsInv
  <1>4. ASSUME NEW n \in Lengths, Settings!SetSyncWordsLength(n)
        PROVE  SettingsInv'
    <2>1. n \in Nat /\ n # 0
      BY DEF Arguments
    <2>2. sync' = [on |-> TRUE, manual |-> FALSE, size |-> Settings!Clamped(n, 1, 8) - 1]
          /\ wanted' = [wanted EXCEPT !.length = n]
         
          /\ UNCHANGED <<register_mode, power, threshold, amplifiers, boost, channel, coding,
                       measuring, saved>>
      BY <1>4, <2>1 DEF Settings!SetSyncWordsLength, SettingsInv, BitsAreSet
    <2>3. wanted'.length = n /\ wanted'.coding = wanted.coding
          /\ wanted'.threshold = wanted.threshold /\ wanted'.power = wanted.power
      BY <2>2 DEF SettingsInv, BitsAreSet
    <2> QED BY <2>1, <2>2, <2>3
               DEF SettingsInv, PowerIsSet, BitsAreSet, ThresholdIsKept, ChannelIsSet
  <1>5. ASSUME NEW c \in Codings, Settings!SetLineCoding(c)
        PROVE  SettingsInv'
    BY <1>5
       DEF Settings!SetLineCoding, SettingsInv, PowerIsSet, BitsAreSet, ThresholdIsKept,
       ChannelIsSet
  <1>6. ASSUME NEW s \in {"ook", "fsk", "gfsk"}, Settings!SetModulation(s)
        PROVE  SettingsInv'
    BY <1>6
       DEF Settings!SetModulation, SettingsInv, PowerIsSet, BitsAreSet, ThresholdIsKept,
       ChannelIsSet
  <1>7. ASSUME NEW t \in Thresholds, Settings!SetThreshold(t)
        PROVE  SettingsInv'
    BY <1>7
       DEF Settings!SetThreshold, SettingsInv, PowerIsSet, BitsAreSet, ThresholdIsKept,
       ChannelIsSet
  <1>8. CASE Settings!BeginRssi \/ Settings!EndRssi
    <2>1. UNCHANGED <<register_mode, power, sync, amplifiers, boost, channel, coding, wanted>>
      BY <1>8 DEF Settings!BeginRssi, Settings!EndRssi
    <2>2. ThresholdIsKept'
      <3>1. CASE Settings!BeginRssi
        BY <3>1, Zenon DEF Settings!BeginRssi, SettingsInv, ThresholdIsKept
      <3>2. CASE Settings!EndRssi
        BY <3>2, Zenon DEF Settings!EndRssi, SettingsInv, ThresholdIsKept
      <3> QED BY <1>8, <3>1, <3>2
    <2> QED BY <2>1, <2>2 DEF SettingsInv, PowerIsSet, BitsAreSet, ChannelIsSet
  <1>9. CASE UNCHANGED Settings!vars
    BY <1>9
       DEF Settings!vars, SettingsInv, PowerIsSet, BitsAreSet, ThresholdIsKept, ChannelIsSet
  <1> QED BY <1>1, <1>2, <1>3, <1>4, <1>5, <1>6, <1>7, <1>8, <1>9 DEF Settings!Next, Codings

(* rf69hcw.h keeps its settings, whatever is set and in whatever order,    *)
(* unless the length of the sync words is set to 0 (line 787) or the power *)
(* while a packet is transmitted (line 803).                               *)
THEOREM SettingsAreKept ==
  ASSUME Arguments
  PROVE  Spec => []SettingsHold
  <1>1. SettingsInv => SettingsHold
    BY FilterFits, PowerIsTold, BitsAreRead
       DEF SettingsInv, SettingsHold, Settings!SettingsHold
  <1>2. SettingsInv /\ [Next]_vars => SettingsInv'
    BY SettingsInvNext, OnlyOneMoves DEF settings, Settings!vars
  <1> QED
    BY <1>1, <1>2, SettingsInvInit, DriversInit, PTL DEF Spec

-----------------------------------------------------------------------------
(* Intervals are positive, and time moves forward. *)
Forward == Interval \in [Generators -> Nat \ {0}] /\ Steps \subseteq Nat

SimTypeOK ==
  /\ time \in Nat \ {0} /\ requested \in Nat /\ capped \in Nat
  /\ next_event_time \in [Generators -> Nat] /\ added \in [Generators -> Nat]
  /\ calls \in [Generators -> Nat]

(* The time that the core is about to set is not behind, nor beyond what   *)
(* it is to reach or the first event; there is none when it is not moving. *)
CapIsBetween ==
  /\ time <= requested
  /\ capped # 0 =>
       /\ core = "advancing" /\ time <= capped /\ capped <= requested
       /\ \A g \in Sim!Known : capped <= next_event_time[g]

NobodyWasCalledEarly == \A g \in Generators \ Sim!Known : calls[g] = 0

Exact == SimTypeOK /\ CapIsBetween /\ NobodyWasCalledEarly /\ Sim!InterruptsAreExact

LEMMA Distributes ==
  ASSUME NEW n \in Nat, NEW i \in Nat
  PROVE  n * i + i = (n + 1) * i /\ n * i \in Nat
  BY SMT

LEMMA ExactInit == Sim!Init => Exact
  BY DEF Sim!Init, Exact, SimTypeOK, CapIsBetween, NobodyWasCalledEarly,
         Sim!InterruptsAreExact, Sim!Known

(* GenerateInterrupt is the only step that changes next of a known         *)
(* generator, and it is made at exactly the time that next tells.          *)
LEMMA ExactGenerate ==
  ASSUME Forward, Exact, NEW g \in Generators, Sim!GenerateInterrupt(g)
  PROVE  Exact'
  <1> DEFINE i == Interval[g]
  <1>1. g \in Sim!Known /\ next_event_time[g] = time
    BY DEF Exact, Sim!GenerateInterrupt, Sim!IsDue, Sim!InterruptsAreExact, SimTypeOK,
           Sim!Known
  <1>2. i \in Nat \ {0}
    BY DEF Forward
  <1>3. /\ next_event_time' = [next_event_time EXCEPT ![g] = time + i]
        /\ calls' = [calls EXCEPT ![g] = @ + 1]
    BY DEF Sim!GenerateInterrupt, Sim!NextEvent
  <1>4. SimTypeOK' /\ Sim!Known' = Sim!Known
    BY <1>1, <1>2, <1>3 DEF Sim!GenerateInterrupt, Exact, SimTypeOK, Sim!Known
  <1>5. CapIsBetween'
    BY <1>1, <1>2, <1>3, <1>4 DEF Sim!GenerateInterrupt, Exact, SimTypeOK, CapIsBetween
  <1>6. NobodyWasCalledEarly'
    BY <1>1, <1>3, <1>4 DEF Exact, NobodyWasCalledEarly, SimTypeOK
  <1>7. ASSUME NEW h \in Sim!Known
        PROVE  /\ next_event_time'[h] >= time
               /\ next_event_time'[h] = added[h] + (calls'[h] + 1) * Interval[h]
    <2>1. CASE h # g
      BY <1>3, <2>1 DEF Exact, Sim!InterruptsAreExact, SimTypeOK, Sim!Known
    <2>2. CASE h = g
      <3>1. time = added[g] + (calls[g] + 1) * i
        BY <1>1 DEF Exact, Sim!InterruptsAreExact
      <3>2. calls[g] + 1 \in Nat /\ added[g] \in Nat
        BY DEF Exact, SimTypeOK
      <3>3. (calls[g] + 1) * i + i = (calls[g] + 1 + 1) * i /\ (calls[g] + 1) * i \in Nat
        BY <1>2, <3>2, Distributes
      <3>4. next_event_time'[g] = time + i /\ calls'[g] = calls[g] + 1
        BY <1>3 DEF Exact, SimTypeOK
      <3> HIDE DEF i
      <3>5. next_event_time'[g] = added[g] + (calls'[g] + 1) * i
        BY <1>2, <3>1, <3>2, <3>3, <3>4
      <3>6. next_event_time'[g] >= time
        BY <1>2, <3>4 DEF Exact, SimTypeOK
      <3> QED BY <2>2, <3>5, <3>6 DEF i
    <2> QED BY <2>1, <2>2
  <1>8. Sim!InterruptsAreExact'
    BY <1>4, <1>7 DEF Sim!InterruptsAreExact, Sim!GenerateInterrupt
  <1> QED BY <1>4, <1>5, <1>6, <1>8 DEF Exact

LEMMA ExactAdd ==
  ASSUME Forward, Exact, NEW g \in Generators, Sim!AddGenerator(g)
  PROVE  Exact'
  <1>1. next_event_time[g] = 0 /\ calls[g] = 0 /\ capped = 0
    BY DEF Sim!AddGenerator, Exact, NobodyWasCalledEarly, CapIsBetween, Sim!Known
  <1>2. Interval[g] \in Nat \ {0}
    BY DEF Forward
  <1>3. /\ next_event_time' = [next_event_time EXCEPT ![g] = time + Interval[g]]
        /\ added' = [added EXCEPT ![g] = time]
        /\ UNCHANGED <<time, calls, requested, capped, core>>
    BY DEF Sim!AddGenerator, Sim!NextEvent
  <1>4. SimTypeOK' /\ Sim!Known' = Sim!Known \union {g}
    BY <1>2, <1>3 DEF Exact, SimTypeOK, Sim!Known
  <1>5. CapIsBetween' /\ NobodyWasCalledEarly'
    BY <1>1, <1>3, <1>4 DEF Exact, CapIsBetween, NobodyWasCalledEarly
  <1>6. Sim!InterruptsAreExact'
    BY <1>1, <1>2, <1>3, <1>4 DEF Exact, Sim!InterruptsAreExact, SimTypeOK
  <1> QED BY <1>4, <1>5, <1>6 DEF Exact

LEMMA ExactCore ==
  ASSUME Forward, Exact,
         \/ \E d \in Steps : Sim!IncrementCurrentTime(d)
         \/ Sim!Cap \/ Sim!SetTime
  PROVE  Exact'
  <1>1. CASE \E d \in Steps : Sim!IncrementCurrentTime(d)
    <2>1. PICK d \in Steps : Sim!IncrementCurrentTime(d)
      BY <1>1
    <2>2. d \in Nat
      BY DEF Forward
    <2> QED
      BY <2>1, <2>2 DEF Sim!IncrementCurrentTime, Exact, SimTypeOK, CapIsBetween,
         NobodyWasCalledEarly, Sim!InterruptsAreExact, Sim!Known
  <1>2. CASE Sim!Cap
    <2>1. PICK t \in {requested} \union {next_event_time[g] : g \in Sim!Known} :
            t <= requested /\ (\A g \in Sim!Known : t <= next_event_time[g]) /\ capped' = t
      BY <1>2 DEF Sim!Cap
    <2>2. t \in Nat /\ time <= t
      BY <2>1 DEF Exact, SimTypeOK, CapIsBetween, Sim!InterruptsAreExact, Sim!Known
    <2> QED
      BY <1>2, <2>1, <2>2 DEF Sim!Cap, Exact, SimTypeOK, CapIsBetween,
         NobodyWasCalledEarly, Sim!InterruptsAreExact, Sim!Known
  <1>3. CASE Sim!SetTime
    <2>1. capped \in Nat \ {0} /\ time' = capped /\ capped' = 0
      BY <1>3 DEF Sim!SetTime, Exact, SimTypeOK
    <2>2. UNCHANGED <<next_event_time, added, calls, requested>>
      BY <1>3 DEF Sim!SetTime
    <2> QED
      BY <2>1, <2>2 DEF Exact, SimTypeOK, CapIsBetween,
         NobodyWasCalledEarly, Sim!InterruptsAreExact, Sim!Known
  <1> QED BY <1>1, <1>2, <1>3

(* The other steps change none of the variables, or core and nothing else. *)
LEMMA ExactOther ==
  ASSUME Exact,
         \/ Sim!Start \/ Sim!EndOfWait \/ Sim!EndOfRound \/ Sim!Stop \/ Sim!Join
         \/ UNCHANGED Sim!vars
  PROVE  Exact'
  <1>1. UNCHANGED <<time, next_event_time, added, calls, requested, capped>>
    BY DEF Sim!Start, Sim!EndOfWait, Sim!EndOfRound, Sim!Stop, Sim!Join, Sim!vars
  <1>2. core = "advancing" => core' = core
    BY DEF Sim!Start, Sim!EndOfWait, Sim!EndOfRound, Sim!Stop, Sim!Join, Sim!vars
  <1> QED
    BY <1>1, <1>2 DEF Exact, SimTypeOK, CapIsBetween, NobodyWasCalledEarly,
       Sim!InterruptsAreExact, Sim!Known

LEMMA ExactNext ==
  ASSUME Forward, Exact, [Sim!Next]_Sim!vars
  PROVE  Exact'
  <1>1. CASE \E g \in Generators : Sim!GenerateInterrupt(g)
    BY <1>1, ExactGenerate
  <1>2. CASE \E g \in Generators : Sim!AddGenerator(g)
    BY <1>2, ExactAdd
  <1>3. CASE (\E d \in Steps : Sim!IncrementCurrentTime(d)) \/ Sim!Cap \/ Sim!SetTime
    BY <1>3, ExactCore
  <1>4. CASE \/ Sim!Start \/ Sim!EndOfWait \/ Sim!EndOfRound \/ Sim!Stop \/ Sim!Join
             \/ UNCHANGED Sim!vars
    BY <1>4, ExactOther
  <1> QED BY <1>1, <1>2, <1>3, <1>4 DEF Sim!Next, Sim!Generation

(* The interrupts of a simulated board come exactly at their intervals,    *)
(* although one thread moves the clock and another makes them: the clock   *)
(* is held back at each event by update_time (reactor.h:80) until the      *)
(* generation thread is past it.                                           *)
THEOREM NoInterruptIsLate ==
  ASSUME Forward
  PROVE  Spec => []InterruptsAreExact
  <1>1. Exact => InterruptsAreExact
    BY DEF Exact, InterruptsAreExact
  <1>2. Exact /\ [Next]_vars => Exact'
    BY ExactNext, OnlyOneMoves DEF simulated, Sim!vars
  <1> QED
    BY <1>1, <1>2, ExactInit, DriversInit, PTL DEF Spec

-----------------------------------------------------------------------------
(* Of finitely many instants, one is the last. *)
LEMMA LastExists ==
  ASSUME NEW n \in Nat, NEW S, S \subseteq 0..n, S # {}
  PROVE  \E x \in S : \A y \in S : x >= y
  <1> DEFINE back == {k \in Nat : k <= n /\ n - k \in S}
  <1>1. back \subseteq Nat /\ back # {}
    <2>1. PICK x \in S : TRUE
      OBVIOUS
    <2>2. n - x \in back
      BY <2>1
    <2> QED
      BY <2>2
  <1>2. PICK k \in back : \A j \in back : ~(<<j, k>> \in OpToRel(<, Nat))
    BY <1>1, NatLessThanWellFounded, WFMin, Zenon
  <1>3. \A j \in back : ~(j < k)
    BY <1>2 DEF OpToRel
  <1>4. \A y \in S : n - y \in back
    OBVIOUS
  <1>5. n - k \in S /\ \A y \in S : n - k >= y
    BY <1>3, <1>4
  <1> QED
    BY <1>5

LEMMA FirstExists ==
  ASSUME NEW S, S \subseteq Nat, S # {}
  PROVE  \E x \in S : \A y \in S : x =< y
  <1>1. PICK k \in S : \A j \in S : ~(<<j, k>> \in OpToRel(<, Nat))
    BY NatLessThanWellFounded, WFMin, Zenon
  <1>2. \A j \in S : ~(j < k)
    BY <1>1 DEF OpToRel
  <1>3. \A j \in S : k =< j
    BY <1>2
  <1> QED
    BY <1>3

(* What is counted of the fragments is the number of elements of a set. *)
LEMMA SameCardinality == \A S : Mock!Cardinality(S) = Cardinality(S)
  BY DEF Mock!Cardinality, Cardinality

(* Transmissions take some time. *)
Takes == TransmitTime \in Nat \ {0}

MockTypeOK ==
  /\ now \in Nat /\ mode \in {"standby", "rx", "tx"} /\ have_fragment \in BOOLEAN
  /\ planned \subseteq Nat /\ IsFiniteSet(planned)
  /\ rx \subseteq planned /\ got \subseteq planned /\ dropped \in Nat
  /\ buffered \in Nat /\ switched \in Nat /\ intact \in Nat
  /\ sent_fragments \in Seq(Nat) /\ corrupted \in Nat /\ submitted \in Nat

(* Every fragment that was sent is an earlier one than that in the buffer, *)
(* which has been in TX since last_switch_to_tx_mode_us_.                  *)
SentBefore ==
  \A i \in 1..Len(sent_fragments) :
    sent_fragments[i] <= submitted /\ (have_fragment => sent_fragments[i] < submitted)
InTxSince == have_fragment => switched <= now /\ intact = now - switched

MockInv == MockTypeOK /\ Mock!FragmentsAreAccountedFor /\ SentBefore /\ InTxSince

Fates == /\ Cardinality(planned) = Cardinality(rx) + Cardinality(got) + dropped
         /\ rx \intersect got = {}

(* What is read or dropped is no longer planned to arrive. *)
LEMMA DroppedIsCounted ==
  ASSUME MockTypeOK, NEW D, D \subseteq rx
  PROVE  /\ IsFiniteSet(rx) /\ IsFiniteSet(got) /\ IsFiniteSet(D) /\ IsFiniteSet(rx \ D)
         /\ Cardinality(rx) \in Nat /\ Cardinality(got) \in Nat
         /\ Cardinality(planned) \in Nat
         /\ Cardinality(D) \in Nat /\ Cardinality(rx \ D) \in Nat
         /\ Cardinality(rx \ D) + Cardinality(D) = Cardinality(rx)
  <1>1. IsFiniteSet(rx) /\ IsFiniteSet(got) /\ IsFiniteSet(planned)
    BY FS_Subset DEF MockTypeOK
  <1>2. IsFiniteSet(D)
    BY <1>1, FS_Subset
  <1>3. IsFiniteSet(rx \ D)
          /\ Cardinality(rx \ D) = Cardinality(rx) - Cardinality(rx \cap D)
    BY <1>1, FS_Difference
  <1>4. rx \cap D = D
    OBVIOUS
  <1>5. /\ Cardinality(rx) \in Nat /\ Cardinality(got) \in Nat /\ Cardinality(D) \in Nat
        /\ Cardinality(rx \ D) \in Nat /\ Cardinality(planned) \in Nat
    BY <1>1, <1>2, <1>3, FS_CardinalityType
  <1>6. Cardinality(rx \ D) + Cardinality(D) = Cardinality(rx)
    <2>1. Cardinality(rx \ D) = Cardinality(rx) - Cardinality(D)
      BY <1>3, <1>4, Zenon
    <2> QED
      BY <1>5, <2>1
  <1> QED
    BY <1>1, <1>2, <1>3, <1>5, <1>6, Zenon

LEMMA MockInvInit == ASSUME Takes, Mock!Init PROVE MockInv
  <1>1. IsFiniteSet({}) /\ Cardinality({}) = 0
    BY FS_EmptySet
  <1>2. MockTypeOK
    <2>1. IsFiniteSet(planned)
      BY <1>1, Zenon DEF Mock!Init
    <2>2. sent_fragments \in Seq(Nat)
      BY DEF Mock!Init
    <2> QED
      BY <2>1, <2>2 DEF Mock!Init, MockTypeOK
  <1>3. Mock!FragmentsAreAccountedFor
    BY <1>1, SameCardinality DEF Mock!Init, Mock!FragmentsAreAccountedFor
  <1> QED
    BY <1>2, <1>3 DEF Mock!Init, MockInv, SentBefore, InTxSince

LEMMA FatesUpdate ==
  ASSUME MockInv, NEW m, NEW t, Mock!Update(m, t), UNCHANGED <<planned, got>>
  PROVE  Fates' /\ rx' \subseteq planned' /\ dropped' \in Nat
  <1> DEFINE D == Mock!Missed(m, t)
  <1>1. D \subseteq rx
    BY DEF Mock!Missed
  <1>2. rx' = rx \ D /\ dropped' = dropped + Cardinality(D)
    BY SameCardinality DEF Mock!Update
  <1> HIDE DEF D
  <1>3. MockTypeOK /\ Fates
    BY SameCardinality DEF MockInv, Mock!FragmentsAreAccountedFor, Fates
  <1>4. /\ Cardinality(rx) \in Nat /\ Cardinality(got) \in Nat
        /\ Cardinality(D) \in Nat /\ Cardinality(rx \ D) \in Nat
        /\ Cardinality(rx \ D) + Cardinality(D) = Cardinality(rx)
    BY <1>1, <1>3, DroppedIsCounted
  <1>5. dropped \in Nat /\ rx \subseteq planned
    BY <1>3 DEF MockTypeOK
  <1>6. Cardinality(planned') = Cardinality(rx') + Cardinality(got') + dropped'
    BY <1>2, <1>3, <1>4, <1>5 DEF Fates
  <1> QED
    BY <1>2, <1>3, <1>4, <1>5, <1>6 DEF Fates

Sending == /\ submitted = Len(sent_fragments) + corrupted + IF have_fragment THEN 1 ELSE 0
           /\ \A i \in 1..Len(sent_fragments) :
                /\ sent_fragments[i] > 0
                /\ i > 1 => sent_fragments[i - 1] < sent_fragments[i]
           /\ have_fragment => mode = "tx" /\ buffered = submitted /\ intact < TransmitTime
           /\ mode = "tx" => have_fragment
           /\ \A i \in DOMAIN sent_fragments :
                sent_fragments[i] = submitted /\ intact > 0 => intact >= TransmitTime
           /\ SentBefore /\ InTxSince

SendingTypeOK ==
  /\ now \in Nat /\ mode \in {"standby", "rx", "tx"} /\ have_fragment \in BOOLEAN
  /\ buffered \in Nat /\ switched \in Nat /\ intact \in Nat
  /\ sent_fragments \in Seq(Nat) /\ corrupted \in Nat /\ submitted \in Nat

(* update at a later time, in the mode the radio is in, and at the same    *)
(* time in a mode that it enters.                                          *)
LEMMA ClockKeeps ==
  ASSUME Takes, MockInv, NEW t \in 0..MaxTime, Mock!SetTime(t)
  PROVE  SendingTypeOK' /\ Sending'
  <1>1. SendingTypeOK /\ Sending /\ t \in Nat /\ t > now
    BY DEF MockInv, MockTypeOK, Mock!FragmentsAreAccountedFor, SendingTypeOK, Sending,
       Mock!SetTime
  <1>2. /\ now' = t /\ submitted' = submitted
        /\ intact' = IF mode = "tx" THEN intact + t - now ELSE 0
    BY DEF Mock!SetTime
  <1>3. CASE Mock!Outcome(mode, t) = "none"
    <2>1. UNCHANGED <<sent_fragments, corrupted, have_fragment, mode, buffered, switched>>
      BY <1>1, <1>3 DEF Mock!SetTime, Mock!Update, Mock!Rest, Mock!Clears, SendingTypeOK
    <2>2. have_fragment => t - switched < TransmitTime
      BY <1>1, <1>3 DEF Mock!Outcome, SendingTypeOK, Takes, Sending
    <2>3. SendingTypeOK' /\ SentBefore'
      BY <1>1, <1>2, <2>1 DEF SendingTypeOK, Sending, SentBefore, Takes
    <2>4. have_fragment => intact' = t - switched /\ intact' < TransmitTime
      BY <1>1, <1>2, <2>2 DEF SendingTypeOK, Sending, InTxSince
    <2>5. InTxSince'
      BY <1>1, <1>2, <2>1, <2>4 DEF SendingTypeOK, Sending, InTxSince
    <2>6. ASSUME NEW i \in DOMAIN sent_fragments, sent_fragments[i] = submitted, intact' > 0
          PROVE  intact' >= TransmitTime
      <3>1. have_fragment /\ i \in 1..Len(sent_fragments)
        BY <1>1, <1>2, <2>6 DEF SendingTypeOK, Sending
      <3>2. sent_fragments[i] < submitted /\ submitted \in Nat
        BY <1>1, <3>1 DEF SendingTypeOK, Sending, SentBefore
      <3> QED
        BY <2>6, <3>2
    <2> QED
      BY <1>1, <1>2, <2>1, <2>3, <2>4, <2>5, <2>6 DEF Sending
  <1>4. CASE Mock!Outcome(mode, t) # "none"
    <2>1. have_fragment /\ mode = "tx" /\ t - switched >= TransmitTime
            /\ Mock!Outcome(mode, t) = "sent"
      BY <1>1, <1>4 DEF Mock!Outcome, Sending
    <2>2. /\ sent_fragments' = Append(sent_fragments, submitted)
          /\ corrupted' = corrupted /\ have_fragment' = FALSE
          /\ mode' = "standby" /\ buffered' = 0 /\ switched' = 0
      <3>1. Mock!Update(mode, t) /\ Mock!Rest(mode, t) /\ buffered = submitted
              /\ corrupted \in Nat
        BY <1>1, <2>1 DEF Mock!SetTime, SendingTypeOK, Sending
      <3>2. sent_fragments' = Append(sent_fragments, submitted) /\ ~have_fragment'
              /\ mode' = "standby" /\ have_fragment' \in BOOLEAN
        BY <2>1, <3>1, Zenon DEF Mock!Update
      <3>3. corrupted' = corrupted
        BY <2>1, <3>1 DEF Mock!Update
      <3> QED
        BY <2>1, <3>1, <3>2, <3>3 DEF Mock!Rest, Mock!Clears
    <2>3. intact' >= TransmitTime /\ intact' \in Nat
      BY <1>1, <1>2, <2>1 DEF Sending, InTxSince, SendingTypeOK, Takes
    <2>4. /\ sent_fragments' \in Seq(Nat) /\ Len(sent_fragments') = Len(sent_fragments) + 1
          /\ sent_fragments'[Len(sent_fragments) + 1] = submitted
          /\ \A i \in 1..Len(sent_fragments) : sent_fragments'[i] = sent_fragments[i]
      BY <1>1, <2>1, <2>2 DEF SendingTypeOK, Sending
    <2>5. Len(sent_fragments) \in Nat /\ submitted = Len(sent_fragments) + corrupted + 1
            /\ submitted \in Nat
      BY <1>1, <2>1 DEF Sending, SendingTypeOK
    <2>6. \A i \in 1..Len(sent_fragments) :
            /\ sent_fragments[i] \in Nat
            /\ sent_fragments[i] < submitted /\ sent_fragments[i] > 0
      BY <1>1, <2>1 DEF Sending, SendingTypeOK, SentBefore
    <2>7. \A i \in 1..Len(sent_fragments') :
            /\ sent_fragments'[i] > 0 /\ sent_fragments'[i] <= submitted
            /\ i > 1 => sent_fragments'[i - 1] < sent_fragments'[i]
      <3> SUFFICES ASSUME NEW i \in 1..Len(sent_fragments')
                   PROVE  /\ sent_fragments'[i] > 0 /\ sent_fragments'[i] <= submitted
                          /\ i > 1 => sent_fragments'[i - 1] < sent_fragments'[i]
        OBVIOUS
      <3>1. CASE i \in 1..Len(sent_fragments)
        <4>1. /\ sent_fragments'[i] = sent_fragments[i]
              /\ i > 1 => sent_fragments'[i - 1] = sent_fragments[i - 1]
          BY <2>4, <2>5, <3>1
        <4> QED
          BY <1>1, <2>5, <2>6, <3>1, <4>1 DEF Sending
      <3>2. CASE i = Len(sent_fragments) + 1
        <4>1. sent_fragments'[i] = submitted /\ submitted > 0
          BY <1>1, <2>4, <2>5, <3>2 DEF SendingTypeOK
        <4>2. ASSUME i > 1 PROVE sent_fragments'[i - 1] < submitted
          <5>1. i - 1 \in 1..Len(sent_fragments)
            BY <2>5, <3>2, <4>2
          <5> QED
            BY <2>4, <2>6, <5>1
        <4> QED
          BY <2>5, <4>1, <4>2
      <3> QED
        BY <2>4, <2>5, <3>1, <3>2
    <2>8. SendingTypeOK' /\ SentBefore' /\ InTxSince'
      BY <1>1, <1>2, <2>2, <2>3, <2>4, <2>7 DEF SendingTypeOK, SentBefore, InTxSince
    <2>9. submitted' = Len(sent_fragments') + corrupted' + IF have_fragment' THEN 1 ELSE 0
      <3> DEFINE n == Len(sent_fragments)  k == Len(sent_fragments')
      <3>1. n \in Nat /\ k = n + 1 /\ submitted = n + corrupted + 1 /\ corrupted \in Nat
        BY <1>1, <2>4, <2>5 DEF SendingTypeOK
      <3> HIDE DEF n, k
      <3>2. submitted' = k + corrupted' + 0
        BY <1>2, <2>2, <3>1
      <3> QED
        BY <2>2, <3>2 DEF k
    <2> QED
      BY <1>2, <2>2, <2>3, <2>7, <2>8, <2>9 DEF Sending
  <1> QED
    BY <1>3, <1>4

(* Every mode but TX corrupts what is being sent. *)
LEMMA LeavingCorrupts ==
  ASSUME Takes, MockInv, NEW m \in {"standby", "rx"}, Mock!Update(m, now),
         buffered' \in Nat, switched' \in Nat, intact' = 0, UNCHANGED <<now, submitted>>
  PROVE  SendingTypeOK' /\ Sending'
  <1>1. SendingTypeOK /\ Sending
    BY DEF MockInv, MockTypeOK, Mock!FragmentsAreAccountedFor, SendingTypeOK, Sending
  <1>2. Mock!Outcome(m, now) = IF have_fragment THEN "corrupted" ELSE "none"
    BY <1>1 DEF Mock!Outcome, SendingTypeOK
  <1>3. /\ sent_fragments' = sent_fragments
        /\ corrupted' = corrupted + (IF have_fragment THEN 1 ELSE 0)
        /\ have_fragment' = FALSE /\ mode' = m
    BY <1>1, <1>2 DEF Mock!Update, SendingTypeOK
  <1>4. SendingTypeOK'
    <2>1. corrupted' \in Nat
      BY <1>1, <1>3 DEF SendingTypeOK
    <2> QED
      BY <1>1, <1>3, <2>1 DEF SendingTypeOK
  <1>5. submitted' = Len(sent_fragments') + corrupted' + IF have_fragment' THEN 1 ELSE 0
    <2> DEFINE n == Len(sent_fragments)  k == IF have_fragment THEN 1 ELSE 0
    <2>1. submitted' = n + corrupted + k /\ n \in Nat /\ k \in Nat /\ corrupted \in Nat
      BY <1>1 DEF SendingTypeOK, Sending
    <2>2. corrupted' = corrupted + k /\ Len(sent_fragments') = n /\ have_fragment' = FALSE
      BY <1>3
    <2> HIDE DEF n, k
    <2>3. submitted' = n + corrupted' + 0
      BY <2>1, <2>2
    <2> QED
      BY <2>2, <2>3
  <1> QED
    BY <1>1, <1>3, <1>4, <1>5 DEF Sending, SentBefore, InTxSince

(* A step changes what is planned and received, or what is sent, or both. *)
LEMMA MockInvFrom ==
  ASSUME MockInv, Fates', rx' \subseteq planned', dropped' \in Nat,
         SendingTypeOK', Sending',
         planned' \subseteq Nat, IsFiniteSet(planned'), got' \subseteq planned'
  PROVE  MockInv'
  BY SameCardinality DEF MockInv, MockTypeOK, Mock!FragmentsAreAccountedFor, Fates,
     Sending, SendingTypeOK

(* Steps of the fragments that arrive leave those to be sent alone. *)
LEMMA NothingSent ==
  ASSUME MockInv,
         UNCHANGED <<now, mode, have_fragment, buffered, switched, intact, sent_fragments,
                     corrupted, submitted>>
  PROVE  SendingTypeOK' /\ Sending'
  BY DEF MockInv, MockTypeOK, Mock!FragmentsAreAccountedFor, SendingTypeOK, Sending,
         SentBefore, InTxSince

LEMMA PlannedStays ==
  ASSUME MockInv, UNCHANGED <<planned, got>>
  PROVE  planned' \subseteq Nat /\ IsFiniteSet(planned') /\ got' \subseteq planned'
  BY DEF MockInv, MockTypeOK

LEMMA MockModeKeeps ==
  ASSUME Takes, MockInv, NEW m \in {"standby", "rx"},
         Mock!SetMode(m) \/ (Mock!Reset /\ m = "standby")
  PROVE  MockInv'
  <1>1. /\ Mock!Update(m, now) /\ intact' = 0
        /\ UNCHANGED <<now, planned, got, submitted>>
        /\ buffered' \in {0, buffered} /\ switched' \in {0, switched}
    BY DEF Mock!SetMode, Mock!Reset, Mock!Rest
  <1>2. SendingTypeOK' /\ Sending'
    BY <1>1, LeavingCorrupts DEF MockInv, MockTypeOK
  <1> QED
    BY <1>1, <1>2, FatesUpdate, PlannedStays, MockInvFrom

LEMMA AddKeeps ==
  ASSUME MockInv, NEW t \in 0..MaxTime, Mock!AddRxFragment(t)
  PROVE  MockInv'
  <1>1. /\ t \notin planned /\ rx' = rx \union {t} /\ planned' = planned \union {t}
        /\ got' = got /\ dropped' = dropped
    BY DEF Mock!AddRxFragment
  <1>2. MockTypeOK /\ Fates
    BY SameCardinality DEF MockInv, Mock!FragmentsAreAccountedFor, Fates
  <1>3. rx \subseteq planned /\ got \subseteq planned /\ IsFiniteSet(planned)
          /\ dropped \in Nat
    BY <1>2 DEF MockTypeOK
  <1>4. IsFiniteSet(planned') /\ Cardinality(planned') = Cardinality(planned) + 1
    BY <1>1, <1>3, FS_AddElement, Zenon
  <1>5. t \notin rx /\ IsFiniteSet(rx)
    BY <1>1, <1>3, FS_Subset
  <1>6. Cardinality(rx') = Cardinality(rx) + 1
    BY <1>1, <1>5, FS_AddElement, Zenon
  <1>7. /\ Cardinality(planned) \in Nat /\ Cardinality(rx) \in Nat
        /\ Cardinality(got) \in Nat
    BY <1>2, DroppedIsCounted
  <1>8. Cardinality(planned') = Cardinality(rx') + Cardinality(got') + dropped'
    BY <1>1, <1>2, <1>3, <1>4, <1>6, <1>7 DEF Fates
  <1>9. Fates'
    BY <1>1, <1>2, <1>3, <1>8 DEF Fates
  <1>10. SendingTypeOK' /\ Sending'
    BY NothingSent DEF Mock!AddRxFragment
  <1>11. /\ planned' \subseteq Nat /\ rx' \subseteq planned' /\ got' \subseteq planned'
         /\ dropped' \in Nat
    BY <1>1, <1>2, <1>3 DEF MockTypeOK
  <1> QED
    BY <1>4, <1>9, <1>10, <1>11, MockInvFrom

LEMMA ReadKeeps ==
  ASSUME MockInv, Mock!ReadReceivedFragment
  PROVE  MockInv'
  <1> DEFINE D == {f \in rx : f <= now}  last == Mock!Max(D)
  <1>1. MockTypeOK /\ Fates
    BY SameCardinality DEF MockInv, Mock!FragmentsAreAccountedFor, Fates
  <1>2. /\ rx # {} /\ Mock!Min(rx) <= now
        /\ got' = got \union {last} /\ dropped' = dropped + Cardinality(D) - 1
        /\ rx' = rx \ D /\ planned' = planned
    BY SameCardinality DEF Mock!ReadReceivedFragment, Mock!HasFragmentAvailable
  <1>3. now \in Nat /\ rx \subseteq planned /\ got \subseteq planned /\ dropped \in Nat
        /\ planned \subseteq Nat
    BY <1>1 DEF MockTypeOK
  <1>4. D \subseteq rx /\ D \subseteq 0..now
    <2>1. ASSUME NEW f \in D PROVE f \in rx /\ f \in 0..now
      BY <1>3
    <2> QED
      BY <2>1
  <1>5. /\ IsFiniteSet(D) /\ IsFiniteSet(got) /\ Cardinality(D) \in Nat
        /\ Cardinality(rx) \in Nat /\ Cardinality(got) \in Nat
        /\ Cardinality(planned) \in Nat /\ Cardinality(rx \ D) \in Nat
        /\ Cardinality(rx \ D) + Cardinality(D) = Cardinality(rx)
    BY <1>1, <1>4, DroppedIsCounted
  <1>6. D # {}
    <2>1. \E x \in rx : \A y \in rx : x =< y
      BY <1>2, <1>3, FirstExists
    <2>2. Mock!Min(rx) \in rx
      BY <2>1 DEF Mock!Min
    <2> QED
      BY <1>2, <2>2
  <1>7. last \in D
    <2>1. \E x \in D : \A y \in D : x >= y
      BY <1>3, <1>4, <1>6, LastExists
    <2> QED
      BY <2>1 DEF Mock!Max
  <1> HIDE DEF D, last
  <1>8. Cardinality(D) >= 1
    BY <1>5, <1>6, FS_EmptySet
  <1>9. last \notin got /\ last \in planned
    BY <1>1, <1>3, <1>4, <1>7 DEF Fates
  <1>10. Cardinality(got') = Cardinality(got) + 1
    BY <1>2, <1>5, <1>9, FS_AddElement, Zenon
  <1>11. Cardinality(planned') = Cardinality(rx') + Cardinality(got') + dropped'
    BY <1>1, <1>2, <1>3, <1>5, <1>8, <1>10 DEF Fates
  <1>12. Fates' /\ dropped' \in Nat /\ rx' \subseteq planned' /\ got' \subseteq planned'
    BY <1>1, <1>2, <1>3, <1>5, <1>7, <1>8, <1>9, <1>11 DEF Fates
  <1>13. SendingTypeOK' /\ Sending'
    BY NothingSent DEF Mock!ReadReceivedFragment
  <1> QED
    BY <1>1, <1>2, <1>12, <1>13, MockInvFrom DEF MockTypeOK

LEMMA TransmitKeeps ==
  ASSUME Takes, MockInv, Mock!TransmitFragment
  PROVE  MockInv'
  <1> DEFINE D == Mock!Missed("standby", now)
  <1>1. D \subseteq rx
    BY DEF Mock!Missed
  <1>2. /\ rx' = rx \ D /\ dropped' = dropped + Cardinality(D)
        /\ submitted' = submitted + 1
        /\ corrupted' = corrupted + (IF have_fragment THEN 1 ELSE 0)
        /\ buffered' = submitted' /\ have_fragment' = TRUE
        /\ mode' = "tx" /\ switched' = now /\ intact' = 0
        /\ UNCHANGED <<now, sent_fragments, planned, got>>
    BY SameCardinality DEF Mock!TransmitFragment
  <1> HIDE DEF D
  <1>3. MockTypeOK /\ Fates /\ SendingTypeOK /\ Sending
    BY SameCardinality DEF MockInv, Mock!FragmentsAreAccountedFor, Fates, MockTypeOK,
       SendingTypeOK, Sending
  <1>4. /\ Cardinality(rx) \in Nat /\ Cardinality(got) \in Nat
        /\ Cardinality(D) \in Nat /\ Cardinality(rx \ D) \in Nat
        /\ Cardinality(rx \ D) + Cardinality(D) = Cardinality(rx)
    BY <1>1, <1>3, DroppedIsCounted
  <1>5. dropped \in Nat /\ rx \subseteq planned
    BY <1>3 DEF MockTypeOK
  <1>6. Cardinality(planned') = Cardinality(rx') + Cardinality(got') + dropped'
    BY <1>2, <1>3, <1>4, <1>5 DEF Fates
  <1>7. Fates' /\ rx' \subseteq planned' /\ dropped' \in Nat
    BY <1>2, <1>3, <1>4, <1>5, <1>6 DEF Fates
  <1>8. corrupted' \in Nat /\ submitted' \in Nat
    BY <1>2, <1>3 DEF SendingTypeOK
  <1>9. SendingTypeOK'
    BY <1>2, <1>3, <1>8 DEF SendingTypeOK
  <1>10. submitted' = Len(sent_fragments') + corrupted' + 1
    BY <1>2, <1>3 DEF SendingTypeOK, Sending
  <1>11. SentBefore' /\ InTxSince'
    BY <1>2, <1>3 DEF SendingTypeOK, Sending, SentBefore, InTxSince
  <1>12. Sending'
    BY <1>2, <1>3, <1>10, <1>11 DEF Takes, SendingTypeOK, Sending
  <1> QED
    BY <1>2, <1>7, <1>9, <1>12, PlannedStays, MockInvFrom

LEMMA MockInvNext ==
  ASSUME Takes, MockInv, [Mock!Next]_Mock!vars
  PROVE  MockInv'
  <1>1. CASE UNCHANGED Mock!vars
    BY <1>1 DEF Mock!vars, MockInv, MockTypeOK, Mock!FragmentsAreAccountedFor, SentBefore,
       InTxSince
  <1>2. ASSUME NEW t \in 0..MaxTime, Mock!SetTime(t) PROVE MockInv'
    <2>1. Fates' /\ rx' \subseteq planned' /\ dropped' \in Nat
      BY <1>2, FatesUpdate DEF Mock!SetTime
    <2>2. SendingTypeOK' /\ Sending'
      BY <1>2, ClockKeeps
    <2> QED
      BY <1>2, <2>1, <2>2, PlannedStays, MockInvFrom DEF Mock!SetTime
  <1>3. ASSUME Mock!SetStandbyMode \/ Mock!SetReceiveMode \/ Mock!ReadRssi \/ Mock!Reset
        PROVE MockInv'
    BY <1>3, MockModeKeeps DEF Mock!SetStandbyMode, Mock!SetReceiveMode, Mock!ReadRssi
  <1> QED
    BY <1>1, <1>2, <1>3, AddKeeps, ReadKeeps, TransmitKeeps DEF Mock!Next

(* mock_radio.h, whatever a test does with it: each fragment that is to    *)
(* arrive waits, is read or is counted as dropped, and each that is to be  *)
(* sent waits, is sent once and in its turn, or is counted as corrupted.   *)
THEOREM FragmentsHaveOneFate ==
  ASSUME Takes
  PROVE  Spec => []FragmentsAreAccountedFor
  <1>1. MockInv => FragmentsAreAccountedFor
    BY DEF MockInv, FragmentsAreAccountedFor
  <1>2. MockInv /\ [Next]_vars => MockInv'
    BY MockInvNext, OnlyOneMoves DEF mock, Mock!vars
  <1> QED
    BY <1>1, <1>2, MockInvInit, DriversInit, PTL DEF Spec

-----------------------------------------------------------------------------
(* ClockTree.tla: the settings are sequences of steps, and before each of *)
(* them something has been reached.                                        *)
Speeds == {"MAX", "EFFICIENT", "MIN"}

Length(c) == IF c = "EFFICIENT" THEN 6 ELSE 7

(* What set_clock_to_... still has to do before its p-th step. *)
From(c, p) == [i \in 1..(Length(c) - p + 1) |-> Clocks!Setting(c)[p - 1 + i]]

(* What has been reached before that step. *)
Reached(p) ==
  /\ asked = "MAX" =>
       /\ p >= 2 => "HSI" \in on
       /\ p >= 3 => full
       /\ p >= 5 => source = "PLL" \/ "PLL" \notin on
  /\ asked = "EFFICIENT" =>
       /\ p >= 2 => "HSI" \in on
       /\ p >= 3 => source = "HSI"
  /\ asked = "MIN" =>
       /\ p >= 2 => "MSI" \in on
       /\ p >= 3 => ~fast
       /\ p >= 4 => source = "MSI"

ClockTypeOK ==
  /\ asked \in Speeds /\ source \in {"MSI", "HSI", "PLL"} /\ wakeup \in {"MSI", "HSI"}
  /\ fast \in BOOLEAN /\ full \in BOOLEAN /\ latency \in {0, 4}

Supported ==
  /\ source \in on
  /\ source = "PLL" => "HSI" \in on /\ full /\ latency = 4

AtStep(p) ==
  /\ p \in 1..(Length(asked) + 1) /\ todo = From(asked, p) /\ Reached(p)
  /\ p = Length(asked) + 1 => clock_configuration = asked

ClockInv == ClockTypeOK /\ Supported /\ \E p \in Nat : AtStep(p)

(* The three settings, and the number of their steps. *)
LEMMA SettingSteps ==
  /\ Clocks!Setting("MAX") = Clocks!Maximum
  /\ Clocks!Setting("EFFICIENT") = Clocks!Efficient
  /\ Clocks!Setting("MIN") = Clocks!Minimum
  /\ Len(Clocks!Maximum) = 7 /\ Len(Clocks!Efficient) = 6 /\ Len(Clocks!Minimum) = 7
  BY DEF Clocks!Setting, Clocks!Maximum, Clocks!Efficient, Clocks!Minimum

(* A step takes its own operation off what is to be done. *)
LEMMA FromStep ==
  ASSUME NEW c \in Speeds
  PROVE  /\ Length(c) \in Nat /\ Len(Clocks!Setting(c)) = Length(c)
         /\ From(c, 1) = Clocks!Setting(c)
         /\ From(c, Length(c) + 1) = <<>>
         /\ \A p \in 1..Length(c) :
              /\ From(c, p) # <<>> /\ Head(From(c, p)) = Clocks!Setting(c)[p]
              /\ Tail(From(c, p)) = From(c, p + 1)
  <1> DEFINE s == Clocks!Setting(c)
  <1>1. PICK U : s \in Seq(U)
    <2>1. Clocks!Maximum \in
            Seq({Clocks!Maximum[1], Clocks!Maximum[2], Clocks!Maximum[3], Clocks!Maximum[4],
                 Clocks!Maximum[5], Clocks!Maximum[6], Clocks!Maximum[7]})
      BY DEF Clocks!Maximum
    <2>2. Clocks!Efficient \in
            Seq({Clocks!Efficient[1], Clocks!Efficient[2], Clocks!Efficient[3], Clocks!Efficient[4],
                 Clocks!Efficient[5], Clocks!Efficient[6]})
      BY DEF Clocks!Efficient
    <2>3. Clocks!Minimum \in
            Seq({Clocks!Minimum[1], Clocks!Minimum[2], Clocks!Minimum[3], Clocks!Minimum[4],
                 Clocks!Minimum[5], Clocks!Minimum[6], Clocks!Minimum[7]})
      BY DEF Clocks!Minimum
    <2> QED
      BY <2>1, <2>2, <2>3, Zenon DEF Clocks!Setting
  <1> HIDE DEF s
  <1>2. Len(s) = Length(c)
    BY SettingSteps DEF Speeds, Length, s
  <1>3. Len(s) \in Nat /\ s = [i \in 1..Len(s) |-> s[i]]
    BY <1>1
  <1>4. PICK n \in Nat : n = Len(s)
    BY <1>3
  <1>5. ASSUME NEW p PROVE From(c, p) = [i \in 1..(n - p + 1) |-> s[p - 1 + i]]
    BY <1>2, <1>4, Zenon DEF From, s
  <1>6. s = [i \in 1..n |-> s[i]]
    BY <1>3, <1>4
  <1>7. From(c, 1) = s
    <2>1. From(c, 1) = [i \in 1..n |-> s[i]]
      BY <1>5
    <2> QED
      BY <1>6, <2>1
  <1>8. From(c, n + 1) = <<>>
    BY <1>5
  <1>9. ASSUME NEW p \in 1..n
        PROVE  /\ From(c, p) # <<>> /\ Head(From(c, p)) = s[p]
               /\ Tail(From(c, p)) = From(c, p + 1)
    <2> DEFINE f == From(c, p)
    <2>1. f = [i \in 1..(n - p + 1) |-> s[p - 1 + i]]
      BY <1>5
    <2>2. f \in Seq(U) /\ Len(f) = n - p + 1
      <3>1. \A i \in 1..n : s[i] \in U
        BY <1>1, <1>4
      <3>2. n - p + 1 \in Nat /\ \A i \in 1..(n - p + 1) : p - 1 + i \in 1..n
        OBVIOUS
      <3> QED
        BY <2>1, <3>1, <3>2
    <2>3. f # <<>> /\ Head(f) = s[p]
      BY <2>1, <2>2
    <2>4. /\ Tail(f) \in Seq(U) /\ Len(Tail(f)) = n - p
          /\ \A i \in 1..(n - p) : Tail(f)[i] = f[i + 1]
      BY <2>2
    <2>5. From(c, p + 1) = [i \in 1..(n - p) |-> s[p + i]]
      <3> DEFINE q == p + 1
      <3>1. n - q + 1 = n - p /\ \A i \in 1..(n - p) : q - 1 + i = p + i
        OBVIOUS
      <3> HIDE DEF q
      <3>2. From(c, q) = [i \in 1..(n - q + 1) |-> s[q - 1 + i]]
        BY <1>5, Zenon
      <3>3. From(c, q) = [i \in 1..(n - p) |-> s[p + i]]
        BY <3>1, <3>2
      <3> QED
        BY <3>3 DEF q
    <2>6. \A i \in 1..(n - p) : f[i + 1] = s[p + i]
      BY <2>1
    <2>7. Tail(f) = [i \in 1..(n - p) |-> Tail(f)[i]]
      <3>1. Tail(f) \in [1..Len(Tail(f)) -> U]
        BY <2>4, LenProperties
      <3> QED
        BY <2>4, <3>1
    <2>8. Tail(f) = From(c, p + 1)
      <3>1. \A i \in 1..(n - p) : Tail(f)[i] = s[p + i]
        BY <2>4, <2>6
      <3> HIDE DEF f
      <3> QED
        BY <2>5, <2>7, <3>1
    <2> QED
      BY <2>3, <2>8
  <1> QED
    BY <1>7, <1>8, <1>9, <1>2, <1>4 DEF s

(* What the vendor's library does at each kind of step, and nothing else. *)
TurnsOn(x) == on' = on \union {x}
              /\ UNCHANGED <<source, fast, full, latency, wakeup, clock_configuration>>
TurnsOff(x) == on' = (IF source = x \/ (source = "PLL" /\ x = "HSI") THEN on ELSE on \ {x})
               /\ UNCHANGED <<source, fast, full, latency, wakeup, clock_configuration>>
Slows == fast' = FALSE /\ UNCHANGED <<source, on, full, latency, wakeup,
  clock_configuration>>
Scales(x) == full' = x /\ UNCHANGED <<source, on, fast, latency, wakeup,
  clock_configuration>>
TriesPll == /\ on' \in {on, on \union {"PLL"}, on \ {"PLL"}}
            /\ source = "PLL" => on' = on
            /\ UNCHANGED <<source, fast, full, latency, wakeup, clock_configuration>>
Runs(x, n) == /\ UNCHANGED <<on, fast, full, wakeup, clock_configuration>>
              /\ \/ x \notin on /\ UNCHANGED <<source, latency>>
                 \/ source = x /\ latency' = n /\ UNCHANGED source
Prepares(x, n) == /\ UNCHANGED <<on, fast, full, wakeup, clock_configuration>>
                  /\ \/ latency < n /\ latency' = n /\ UNCHANGED source
                     \/ latency >= n /\ x \in on /\ source' = x /\ UNCHANGED latency
Wakes(x) == wakeup' = x /\ UNCHANGED <<source, on, fast, full, latency,
  clock_configuration>>
Notes(x) == clock_configuration' = x /\ UNCHANGED <<source, on, fast, full, latency,
  wakeup>>

LEMMA StepEffects ==
  ASSUME Clocks!Next, todo # <<>>
  PROVE  LET op == Head(todo)[1]  x == Head(todo)[2]  n == Head(todo)[3]  IN
         /\ asked' = asked
         /\ todo' = Tail(todo) \/ (op = "run" /\ todo' = todo /\ Prepares(x, n))
         /\ op = "on" => TurnsOn(x)
         /\ op = "off" => TurnsOff(x)
         /\ op = "slow" => Slows
         /\ op = "volts" => Scales(x)
         /\ op = "pll" => TriesPll
         /\ op = "run" => Runs(x, n) \/ (todo' = todo /\ Prepares(x, n))
         /\ op = "wakeup" => Wakes(x)
         /\ op = "note" => Notes(x)
  BY DEF Clocks!Next, Clocks!Do, Clocks!Argument, Clocks!Done, Clocks!TurnOn,
     Clocks!TurnOff, Clocks!SlowMsi, Clocks!ScaleVoltage, Clocks!ConfigurePll,
         Clocks!RaiseLatency, Clocks!ChangeSource, Clocks!LowerLatency, Clocks!Note,
           Clocks!Ask, Clocks!Sleep, TurnsOn, TurnsOff, Slows,
         Scales, TriesPll, Runs, Prepares, Wakes, Notes

LEMMA ClockInvInit == ASSUME Clocks!Init PROVE ClockInv
  <1>1. asked = "EFFICIENT" /\ todo = From(asked, 1)
    BY FromStep, SettingSteps DEF Clocks!Init, Speeds
  <1>2. AtStep(1)
    BY <1>1, SettingSteps DEF AtStep, Reached, Length, Clocks!Init
  <1> QED
    BY <1>2 DEF Clocks!Init, ClockInv, ClockTypeOK, Supported, Speeds

(* A step of a setting. *)
LEMMA SettingGoesOn ==
  ASSUME ClockInv, Clocks!Next, NEW p \in Nat, AtStep(p), p <= Length(asked)
  PROVE  ClockInv'
  <1> DEFINE h == Clocks!Setting(asked)[p]
  <1>1. ClockTypeOK /\ Supported /\ Reached(p) /\ asked \in Speeds
    BY DEF ClockInv, ClockTypeOK, AtStep
  <1>2. /\ todo # <<>> /\ Head(todo) = h /\ Tail(todo) = From(asked, p + 1)
        /\ p \in 1..Length(asked) /\ Length(asked) \in Nat
    BY <1>1, FromStep DEF AtStep
  <1>3. asked' = asked
    BY <1>2, StepEffects
  <1>4. ASSUME todo' = Tail(todo), Reached(p + 1)',
               p = Length(asked) => clock_configuration' = asked
        PROVE  AtStep(p + 1)'
    BY <1>2, <1>3, <1>4 DEF AtStep
  <1>5. ASSUME todo' = todo, Reached(p)' PROVE AtStep(p)'
    BY <1>2, <1>3, <1>5 DEF AtStep
  <1> DEFINE Moves == \/ /\ todo' = Tail(todo) /\ Reached(p + 1)'
                         /\ p = Length(asked) => clock_configuration' = asked
                      \/ todo' = todo /\ Reached(p)' /\ p # Length(asked)
  <1> SUFFICES ClockTypeOK' /\ Supported' /\ Moves
    BY <1>4, <1>5 DEF ClockInv
  <1>6. CASE asked = "MAX"
    <2>0. asked = "MAX" /\ Length(asked) = 7
      BY <1>6 DEF Length
    <2>1. h = Clocks!Maximum[p] /\ p \in 1..7
      BY <1>2, <2>0, SettingSteps
    <2>2. CASE p = 1
      <3>1. TurnsOn("HSI") /\ todo' = Tail(todo)
        BY <1>2, <2>1, <2>2, StepEffects DEF Clocks!Maximum
      <3>2. ClockTypeOK' /\ Supported'
        BY <1>1, <1>3, <2>0, <2>2, <3>1 DEF ClockTypeOK, Supported, Reached, TurnsOn
      <3>3. Reached(2)'
        BY <1>1, <1>3, <2>0, <2>2, <3>1, <3>2 DEF ClockTypeOK, Supported, Reached, TurnsOn
      <3> QED
        BY <2>0, <2>2, <3>1, <3>2, <3>3
    <2>3. CASE p = 2
      <3>0. h[1] = "volts" /\ h[2] = TRUE
        BY <2>1, <2>3 DEF Clocks!Maximum
      <3>1. Scales(TRUE) /\ todo' = Tail(todo) /\ full' \in BOOLEAN /\ (full' <=> TRUE)
        BY <1>2, <3>0, StepEffects, Zenon DEF Scales
      <3>2. ClockTypeOK' /\ Supported'
        BY <1>1, <1>3, <2>0, <2>3, <3>1 DEF ClockTypeOK, Supported, Reached, Scales
      <3>3. Reached(3)'
        BY <1>1, <1>3, <2>0, <2>3, <3>1, <3>2 DEF ClockTypeOK, Supported, Reached, Scales
      <3> QED
        BY <2>0, <2>3, <3>1, <3>2, <3>3
    <2>4. CASE p = 3
      <3>1. TriesPll /\ todo' = Tail(todo)
        BY <1>2, <2>1, <2>4, StepEffects DEF Clocks!Maximum
      <3>2. ClockTypeOK' /\ Supported'
        BY <1>1, <1>3, <2>0, <2>4, <3>1 DEF ClockTypeOK, Supported, Reached, TriesPll
      <3>3. Reached(4)'
        BY <1>1, <1>3, <2>0, <2>4, <3>1, <3>2 DEF ClockTypeOK, Supported, Reached, TriesPll
      <3> QED
        BY <2>0, <2>4, <3>1, <3>2, <3>3
    <2>5. CASE p = 4
      <3>1. \/ Runs("PLL", 4) /\ todo' = Tail(todo)
            \/ Prepares("PLL", 4) /\ todo' = todo
        BY <1>2, <2>1, <2>5, StepEffects DEF Clocks!Maximum
      <3>5. full /\ "HSI" \in on /\ full' = full /\ on' = on
        <4>1. full /\ "HSI" \in on
          BY <1>1, <2>0, <2>5 DEF Reached
        <4> QED
          BY <3>1, <4>1, Zenon DEF Runs, Prepares
      <3>6. full'
        BY <3>5, Zenon
      <3>2. ClockTypeOK' /\ Supported'
        BY <1>1, <1>3, <2>0, <3>1, <3>5, <3>6 DEF ClockTypeOK, Supported, Runs, Prepares
      <3>3. \/ todo' = Tail(todo) /\ Reached(5)'
            \/ todo' = todo /\ Reached(4)'
        BY <1>1, <1>3, <2>0, <3>1, <3>5, <3>6 DEF Reached, Runs, Prepares
      <3> QED
        BY <2>0, <2>5, <3>1, <3>2, <3>3
    <2>6. CASE p = 5
      <3>1. Wakes("HSI") /\ todo' = Tail(todo)
        BY <1>2, <2>1, <2>6, StepEffects DEF Clocks!Maximum
      <3>2. ClockTypeOK' /\ Supported'
        BY <1>1, <1>3, <2>0, <2>6, <3>1 DEF ClockTypeOK, Supported, Reached, Wakes
      <3>3. Reached(6)'
        BY <1>1, <1>3, <2>0, <2>6, <3>1, <3>2 DEF ClockTypeOK, Supported, Reached, Wakes
      <3> QED
        BY <2>0, <2>6, <3>1, <3>2, <3>3
    <2>7. CASE p = 6
      <3>1. TurnsOff("MSI") /\ todo' = Tail(todo)
        BY <1>2, <2>1, <2>7, StepEffects DEF Clocks!Maximum
      <3>2. ClockTypeOK' /\ Supported'
        BY <1>1, <1>3, <2>0, <2>7, <3>1 DEF ClockTypeOK, Supported, Reached, TurnsOff
      <3>3. Reached(7)'
        BY <1>1, <1>3, <2>0, <2>7, <3>1, <3>2 DEF ClockTypeOK, Supported, Reached, TurnsOff
      <3> QED
        BY <2>0, <2>7, <3>1, <3>2, <3>3
    <2>8. CASE p = 7
      <3>1. Notes("MAX") /\ todo' = Tail(todo)
        BY <1>2, <2>1, <2>8, StepEffects DEF Clocks!Maximum
      <3>2. ClockTypeOK' /\ Supported'
        BY <1>1, <1>3, <2>0, <2>8, <3>1 DEF ClockTypeOK, Supported, Reached, Notes
      <3>3. Reached(8)'
        BY <1>1, <1>3, <2>0, <2>8, <3>1, <3>2 DEF ClockTypeOK, Supported, Reached, Notes
      <3> QED
        BY <2>0, <2>8, <3>1, <3>2, <3>3 DEF Notes
    <2> QED
      BY <2>1, <2>2, <2>3, <2>4, <2>5, <2>6, <2>7, <2>8
  <1>7. CASE asked = "EFFICIENT"
    <2>0. asked = "EFFICIENT" /\ Length(asked) = 6
      BY <1>7 DEF Length
    <2>1. h = Clocks!Efficient[p] /\ p \in 1..6
      BY <1>2, <2>0, SettingSteps
    <2>2. CASE p = 1
      <3>1. TurnsOn("HSI") /\ todo' = Tail(todo)
        BY <1>2, <2>1, <2>2, StepEffects DEF Clocks!Efficient
      <3>2. ClockTypeOK' /\ Supported'
        BY <1>1, <1>3, <2>0, <2>2, <3>1 DEF ClockTypeOK, Supported, Reached, TurnsOn
      <3>3. Reached(2)'
        BY <1>1, <1>3, <2>0, <2>2, <3>1, <3>2 DEF ClockTypeOK, Supported, Reached, TurnsOn
      <3> QED
        BY <2>0, <2>2, <3>1, <3>2, <3>3
    <2>3. CASE p = 2
      <3>1. \/ Runs("HSI", 0) /\ todo' = Tail(todo)
            \/ Prepares("HSI", 0) /\ todo' = todo
        BY <1>2, <2>1, <2>3, StepEffects DEF Clocks!Efficient
      <3>2. ClockTypeOK' /\ Supported'
        BY <1>1, <1>3, <2>0, <2>3, <3>1 DEF ClockTypeOK, Supported, Reached, Runs, Prepares
      <3>3. \/ todo' = Tail(todo) /\ Reached(3)'
            \/ todo' = todo /\ Reached(2)'
        BY <1>1, <1>3, <2>0, <2>3, <3>1, <3>2 DEF ClockTypeOK, Supported, Reached, Runs,
           Prepares
      <3> QED
        BY <2>0, <2>3, <3>1, <3>2, <3>3
    <2>4. CASE p = 3
      <3>0. h[1] = "volts" /\ h[2] = FALSE
        BY <2>1, <2>4 DEF Clocks!Efficient
      <3>1. Scales(FALSE) /\ todo' = Tail(todo) /\ full' \in BOOLEAN /\ (full' <=> FALSE)
        BY <1>2, <3>0, StepEffects, Zenon DEF Scales
      <3>2. ClockTypeOK' /\ Supported'
        BY <1>1, <1>3, <2>0, <2>4, <3>1 DEF ClockTypeOK, Supported, Reached, Scales
      <3>3. Reached(4)'
        BY <1>1, <1>3, <2>0, <2>4, <3>1, <3>2 DEF ClockTypeOK, Supported, Reached, Scales
      <3> QED
        BY <2>0, <2>4, <3>1, <3>2, <3>3
    <2>5. CASE p = 4
      <3>1. Wakes("HSI") /\ todo' = Tail(todo)
        BY <1>2, <2>1, <2>5, StepEffects DEF Clocks!Efficient
      <3>2. ClockTypeOK' /\ Supported'
        BY <1>1, <1>3, <2>0, <2>5, <3>1 DEF ClockTypeOK, Supported, Reached, Wakes
      <3>3. Reached(5)'
        BY <1>1, <1>3, <2>0, <2>5, <3>1, <3>2 DEF ClockTypeOK, Supported, Reached, Wakes
      <3> QED
        BY <2>0, <2>5, <3>1, <3>2, <3>3
    <2>6. CASE p = 5
      <3>1. TurnsOff("MSI") /\ todo' = Tail(todo)
        BY <1>2, <2>1, <2>6, StepEffects DEF Clocks!Efficient
      <3>2. ClockTypeOK' /\ Supported'
        BY <1>1, <1>3, <2>0, <2>6, <3>1 DEF ClockTypeOK, Supported, Reached, TurnsOff
      <3>3. Reached(6)'
        BY <1>1, <1>3, <2>0, <2>6, <3>1, <3>2 DEF ClockTypeOK, Supported, Reached, TurnsOff
      <3> QED
        BY <2>0, <2>6, <3>1, <3>2, <3>3
    <2>7. CASE p = 6
      <3>1. Notes("EFFICIENT") /\ todo' = Tail(todo)
        BY <1>2, <2>1, <2>7, StepEffects DEF Clocks!Efficient
      <3>2. ClockTypeOK' /\ Supported'
        BY <1>1, <1>3, <2>0, <2>7, <3>1 DEF ClockTypeOK, Supported, Reached, Notes
      <3>3. Reached(7)'
        BY <1>1, <1>3, <2>0, <2>7, <3>1, <3>2 DEF ClockTypeOK, Supported, Reached, Notes
      <3> QED
        BY <2>0, <2>7, <3>1, <3>2, <3>3 DEF Notes
    <2> QED
      BY <2>1, <2>2, <2>3, <2>4, <2>5, <2>6, <2>7
  <1>8. CASE asked = "MIN"
    <2>0. asked = "MIN" /\ Length(asked) = 7
      BY <1>8 DEF Length
    <2>1. h = Clocks!Minimum[p] /\ p \in 1..7
      BY <1>2, <2>0, SettingSteps
    <2>2. CASE p = 1
      <3>1. TurnsOn("MSI") /\ todo' = Tail(todo)
        BY <1>2, <2>1, <2>2, StepEffects DEF Clocks!Minimum
      <3>2. ClockTypeOK' /\ Supported'
        BY <1>1, <1>3, <2>0, <2>2, <3>1 DEF ClockTypeOK, Supported, Reached, TurnsOn
      <3>3. Reached(2)'
        BY <1>1, <1>3, <2>0, <2>2, <3>1, <3>2 DEF ClockTypeOK, Supported, Reached, TurnsOn
      <3> QED
        BY <2>0, <2>2, <3>1, <3>2, <3>3
    <2>3. CASE p = 2
      <3>1. Slows /\ todo' = Tail(todo)
        BY <1>2, <2>1, <2>3, StepEffects DEF Clocks!Minimum
      <3>2. ClockTypeOK' /\ Supported'
        BY <1>1, <1>3, <2>0, <2>3, <3>1 DEF ClockTypeOK, Supported, Reached, Slows
      <3>3. Reached(3)'
        BY <1>1, <1>3, <2>0, <2>3, <3>1, <3>2 DEF ClockTypeOK, Supported, Reached, Slows
      <3> QED
        BY <2>0, <2>3, <3>1, <3>2, <3>3
    <2>4. CASE p = 3
      <3>1. \/ Runs("MSI", 0) /\ todo' = Tail(todo)
            \/ Prepares("MSI", 0) /\ todo' = todo
        BY <1>2, <2>1, <2>4, StepEffects DEF Clocks!Minimum
      <3>2. ClockTypeOK' /\ Supported'
        BY <1>1, <1>3, <2>0, <2>4, <3>1 DEF ClockTypeOK, Supported, Reached, Runs, Prepares
      <3>3. \/ todo' = Tail(todo) /\ Reached(4)'
            \/ todo' = todo /\ Reached(3)'
        BY <1>1, <1>3, <2>0, <2>4, <3>1, <3>2 DEF ClockTypeOK, Supported, Reached, Runs,
           Prepares
      <3> QED
        BY <2>0, <2>4, <3>1, <3>2, <3>3
    <2>5. CASE p = 4
      <3>0. h[1] = "volts" /\ h[2] = FALSE
        BY <2>1, <2>5 DEF Clocks!Minimum
      <3>1. Scales(FALSE) /\ todo' = Tail(todo) /\ full' \in BOOLEAN /\ (full' <=> FALSE)
        BY <1>2, <3>0, StepEffects, Zenon DEF Scales
      <3>2. ClockTypeOK' /\ Supported'
        BY <1>1, <1>3, <2>0, <2>5, <3>1 DEF ClockTypeOK, Supported, Reached, Scales
      <3>3. Reached(5)'
        BY <1>1, <1>3, <2>0, <2>5, <3>1, <3>2 DEF ClockTypeOK, Supported, Reached, Scales
      <3> QED
        BY <2>0, <2>5, <3>1, <3>2, <3>3
    <2>6. CASE p = 5
      <3>1. Wakes("MSI") /\ todo' = Tail(todo)
        BY <1>2, <2>1, <2>6, StepEffects DEF Clocks!Minimum
      <3>2. ClockTypeOK' /\ Supported'
        BY <1>1, <1>3, <2>0, <2>6, <3>1 DEF ClockTypeOK, Supported, Reached, Wakes
      <3>3. Reached(6)'
        BY <1>1, <1>3, <2>0, <2>6, <3>1, <3>2 DEF ClockTypeOK, Supported, Reached, Wakes
      <3> QED
        BY <2>0, <2>6, <3>1, <3>2, <3>3
    <2>7. CASE p = 6
      <3>1. TurnsOff("HSI") /\ todo' = Tail(todo)
        BY <1>2, <2>1, <2>7, StepEffects DEF Clocks!Minimum
      <3>2. ClockTypeOK' /\ Supported'
        BY <1>1, <1>3, <2>0, <2>7, <3>1 DEF ClockTypeOK, Supported, Reached, TurnsOff
      <3>3. Reached(7)'
        BY <1>1, <1>3, <2>0, <2>7, <3>1, <3>2 DEF ClockTypeOK, Supported, Reached, TurnsOff
      <3> QED
        BY <2>0, <2>7, <3>1, <3>2, <3>3
    <2>8. CASE p = 7
      <3>1. Notes("MIN") /\ todo' = Tail(todo)
        BY <1>2, <2>1, <2>8, StepEffects DEF Clocks!Minimum
      <3>2. ClockTypeOK' /\ Supported'
        BY <1>1, <1>3, <2>0, <2>8, <3>1 DEF ClockTypeOK, Supported, Reached, Notes
      <3>3. Reached(8)'
        BY <1>1, <1>3, <2>0, <2>8, <3>1, <3>2 DEF ClockTypeOK, Supported, Reached, Notes
      <3> QED
        BY <2>0, <2>8, <3>1, <3>2, <3>3 DEF Notes
    <2> QED
      BY <2>1, <2>2, <2>3, <2>4, <2>5, <2>6, <2>7, <2>8
  <1> QED
    BY <1>1, <1>6, <1>7, <1>8 DEF Speeds

(* When a setting is done, the next begins: the one that was noted, or one *)
(* that is asked for.  Stop mode is left without the PLL.                  *)
LEMMA SettingBegins ==
  ASSUME ClockInv, Clocks!Next, todo = <<>>
  PROVE  ClockInv'
  <1>1. ClockTypeOK /\ Supported /\ asked \in Speeds
    BY DEF ClockInv, ClockTypeOK
  <1>2. clock_configuration = asked
    <2>1. PICK p \in Nat : AtStep(p)
      BY DEF ClockInv
    <2>2. p \in 1..(Length(asked) + 1) /\ Length(asked) \in Nat /\ todo = From(asked, p)
      BY <1>1, <2>1, FromStep DEF AtStep
    <2>3. p \notin 1..Length(asked)
      BY <1>1, <2>2, FromStep
    <2> QED
      BY <2>1, <2>2, <2>3 DEF AtStep
  <1>3. ASSUME asked' \in Speeds, todo' = Clocks!Setting(asked') PROVE AtStep(1)'
    <2>1. Clocks!Setting(asked') = From(asked', 1) /\ Length(asked') \in Nat
            /\ Length(asked') # 0
      BY <1>3, FromStep DEF Length
    <2> QED
      BY <1>3, <2>1 DEF AtStep, Reached
  <1>4. ASSUME NEW c \in Speeds, Clocks!Ask(c) PROVE ClockInv'
    <2>1. AtStep(1)'
      BY <1>3, <1>4 DEF Clocks!Ask
    <2> QED
      BY <1>1, <1>4, <2>1 DEF Clocks!Ask, ClockInv, ClockTypeOK, Supported
  <1>5. ASSUME NEW m \in Sleeps, Clocks!Sleep(m) PROVE ClockInv'
    <2>1. AtStep(1)'
      BY <1>1, <1>2, <1>3, <1>5 DEF Clocks!Sleep, Speeds
    <2> QED
      BY <1>1, <1>5, <2>1 DEF Clocks!Sleep, ClockInv, ClockTypeOK, Supported
  <1> QED
    BY <1>4, <1>5 DEF Clocks!Next, Clocks!Do, Clocks!TurnOn, Clocks!TurnOff,
       Clocks!SlowMsi, Clocks!ScaleVoltage, Clocks!ConfigurePll,
                      Clocks!RaiseLatency, Clocks!ChangeSource, Clocks!LowerLatency,
                        Clocks!Note, Speeds

LEMMA ClockInvNext ==
  ASSUME ClockInv, [Clocks!Next]_Clocks!vars
  PROVE  ClockInv'
  <1>1. CASE UNCHANGED Clocks!vars
    BY <1>1 DEF Clocks!vars, ClockInv, ClockTypeOK, Supported, AtStep, Reached
  <1>2. ASSUME Clocks!Next, todo # <<>> PROVE ClockInv'
    <2>1. PICK p \in Nat : AtStep(p)
      BY DEF ClockInv
    <2>2. asked \in Speeds
      BY DEF ClockInv, ClockTypeOK
    <2>3. p \in 1..(Length(asked) + 1) /\ Length(asked) \in Nat /\ todo = From(asked, p)
      BY <2>1, <2>2, FromStep DEF AtStep
    <2>4. p <= Length(asked)
      BY <1>2, <2>2, <2>3, FromStep
    <2> QED
      BY <1>2, <2>1, <2>4, SettingGoesOn
  <1> QED
    BY <1>1, <1>2, SettingBegins

(* At the end of a setting its speed is reached. *)
LEMMA ClockFollows == ASSUME ClockInv PROVE Clocks!ClockIsSound
  <1>1. Clocks!SpeedIsSupported
    BY DEF ClockInv, ClockTypeOK, Supported, Clocks!SpeedIsSupported, Clocks!Speed,
       Clocks!MSI
  <1>2. ASSUME todo = <<>>
        PROVE  CASE asked = "MAX" -> source = "PLL" \/ "PLL" \notin on
                 [] asked = "EFFICIENT" -> source = "HSI"
                 [] asked = "MIN" -> source = "MSI" /\ ~fast
    <2>1. PICK p \in Nat : AtStep(p)
      BY DEF ClockInv
    <2>2. asked \in Speeds
      BY DEF ClockInv, ClockTypeOK
    <2>3. p \in 1..(Length(asked) + 1) /\ Length(asked) \in Nat /\ todo = From(asked, p)
      BY <2>1, <2>2, FromStep DEF AtStep
    <2>4. p \notin 1..Length(asked)
      BY <1>2, <2>2, <2>3, FromStep
    <2>5. p >= 5 /\ Reached(p)
      BY <2>1, <2>2, <2>3, <2>4 DEF Length, Speeds, AtStep
    <2>6. /\ asked = "MAX" => source = "PLL" \/ "PLL" \notin on
          /\ asked = "EFFICIENT" => source = "HSI"
          /\ asked = "MIN" => source = "MSI" /\ ~fast
      BY <2>5 DEF Reached
    <2>7. asked = "MAX" \/ asked = "EFFICIENT" \/ asked = "MIN"
      BY <2>2 DEF Speeds
    <2> QED
      BY <2>6, <2>7
  <1> QED
    BY <1>1, <1>2 DEF Clocks!ClockIsSound, Clocks!SleepKeepsTheSpeed

-----------------------------------------------------------------------------
(* The tasks of two passes, or of one and what a sleep lasts longer, take  *)
(* less than is left when the watchdog's task is runnable again.           *)
PassIsShort ==
  /\ MaxWork \in Nat /\ MaxOversleep \in Nat
  /\ Guarded!FeedInterval + MaxWork + MaxWork < Guarded!ResetInterval
  /\ Guarded!FeedInterval + MaxOversleep + MaxWork < Guarded!ResetInterval

(* The task in slot i is the one that feeds the watchdog. *)
Watches(i) == Guarded!Tasks(running)[i] = "watchdog"
Slots == DOMAIN Guarded!Tasks(running)
TaskWaits == 0..Guarded!LongestSleep \union {Guarded!Done}

WatchdogTypeOK ==
  /\ running \in Guarded!Programs /\ main_phase \in {"main", "pass", "asleep", "stopped"}
  /\ slot \in Nat /\ wait \in [Slots -> TaskWaits]
  /\ sleep_left \in Int /\ interval \in 0..Guarded!LongestSleep /\ work \in 0..MaxWork
  /\ count \in 0..Guarded!ResetInterval \union {Guarded!Off}
  /\ main_phase = "pass" => slot >= 1
  /\ main_phase = "asleep" => slot = 1

(* A user of the oscillator has turned it on, and stays one. *)
LsiInv ==
  /\ lsi = (lsi_users # {})
  /\ main_phase # "main" => "timer" \in lsi_users
  /\ count # Guarded!Off => "watchdog" \in lsi_users
  /\ \A i \in begun : i \in Slots /\ (Watches(i) => "watchdog" \in lsi_users)

(* The generator runs while a seed is generated, and not longer. *)
RngInv ==
  /\ hsi48 \in BOOLEAN /\ rng = hsi48
  /\ seeding \in {"no", "generate", "drop"} /\ (hsi48 <=> seeding # "no")

(* What is left of the count while the watchdog's task waits, and until    *)
(* its turn comes.                                                         *)
Remaining == Guarded!ResetInterval - Guarded!FeedInterval
InPass(i) ==
  /\ wait[i] > 0 => count >= Remaining + wait[i]
  /\ wait[i] = 0 /\ slot > i => count >= Remaining - work
  /\ wait[i] = 0 /\ slot <= i => \/ count >= Remaining - MaxWork - work
                                \/ count >= Remaining - MaxOversleep - work
InSleep(i) ==
  /\ wait[i] > 0 => /\ count >= Remaining + wait[i]
                     /\ (sleep_left <= wait[i] \/ sleep_left <= 0)
  /\ wait[i] = 0 => sleep_left <= 0 /\ count >= Remaining + sleep_left
  /\ sleep_left >= 0 - MaxOversleep
FedInTime ==
  count # Guarded!Off =>
    \E i \in Slots :
      /\ Watches(i) /\ wait[i] <= Guarded!FeedInterval /\ main_phase # "main"
      /\ main_phase = "pass" => InPass(i)
      /\ main_phase = "asleep" => InSleep(i)

WatchdogInv == WatchdogTypeOK /\ LsiInv /\ RngInv /\ FedInTime

LEMMA Values ==
  /\ Guarded!FeedInterval = 5 /\ Guarded!ResetInterval = 20 /\ Remaining = 15
  /\ Guarded!LongestSleep = 50 /\ Guarded!Off = 1000
  /\ Guarded!Done = 1000 /\ Guarded!CYCLE_TIME = 50
  BY DEF Guarded!FeedInterval, Guarded!ResetInterval, Remaining, Guarded!LongestSleep,
     Guarded!Off, Guarded!Done, Guarded!CYCLE_TIME

(* Each program has one watchdog at most. *)
LEMMA TaskSlots ==
  ASSUME running \in Guarded!Programs
  PROVE  /\ \E n \in Nat : Slots = 1..n
         /\ \A i, j \in Slots : Watches(i) /\ Watches(j) => i = j
  <1>1. CASE running = "watchdog_demo"
    <2>1. Slots = 1..3 /\ \A i \in 1..3 : Watches(i) => i = 1
      BY <1>1 DEF Guarded!Tasks, Slots, Watches
    <2> QED
      BY <2>1
  <1>2. CASE running = "monitor_power"
    <2>1. Slots = 1..4 /\ \A i \in 1..4 : Watches(i) => i = 4
      BY <1>2 DEF Guarded!Tasks, Slots, Watches
    <2> QED
      BY <2>1
  <1>3. CASE running = "random_blink"
    <2>1. Slots = 1..1 /\ \A i \in 1..1 : ~Watches(i)
      BY <1>3 DEF Guarded!Tasks, Slots, Watches
    <2> QED
      BY <2>1
  <1> QED
    BY <1>1, <1>2, <1>3 DEF Guarded!Programs

(* A task that runs has a slot, and its time has come. *)
LEMMA SlotsAreInDue ==
  ASSUME WatchdogTypeOK
  PROVE  /\ Len(wait) \in Nat /\ Slots = 1..Len(wait) /\ DOMAIN wait = Slots
         /\ \A k : Guarded!Running(k) => slot \in Slots /\ wait[slot] = 0
  <1>1. PICK n \in Nat : Slots = 1..n
    BY TaskSlots DEF WatchdogTypeOK
  <1>2. wait \in [1..n -> TaskWaits]
    BY <1>1 DEF WatchdogTypeOK
  <1>3. Len(wait) = n
    BY <1>2
  <1> QED
    BY <1>1, <1>2, <1>3 DEF WatchdogTypeOK, Guarded!Running

LEMMA WatchdogInvInit == ASSUME PassIsShort, Guarded!Init PROVE WatchdogInv
  <1>1. WatchdogTypeOK
    BY DEF Guarded!Init, WatchdogTypeOK, Slots, TaskWaits, Guarded!LongestSleep,
       Guarded!Off, PassIsShort
  <1> QED
    BY <1>1, Zenon DEF Guarded!Init, WatchdogInv, LsiInv, RngInv, FedInTime

LEMMA OfASlot ==
  ASSUME WatchdogTypeOK, NEW i \in Slots
  PROVE  wait[i] \in Nat /\ i \in Nat /\ i >= 1 /\ ~(i > Len(wait))
  <1>1. wait[i] \in Nat
    BY Values DEF WatchdogTypeOK, TaskWaits
  <1>2. PICK n \in Nat : Slots = 1..n
    BY TaskSlots DEF WatchdogTypeOK
  <1>3. wait \in [1..n -> TaskWaits]
    BY <1>2 DEF WatchdogTypeOK
  <1>4. Len(wait) = n
    BY <1>3
  <1>5. i \in Nat /\ i >= 1 /\ ~(i > n)
    BY <1>2
  <1> QED
    BY <1>1, <1>4, <1>5, Zenon

LEMMA LsiKeeps ==
  ASSUME WatchdogTypeOK, LsiInv, Guarded!Next
  PROVE  LsiInv'
  <1>1. \A k : Guarded!Running(k) => slot \in Slots
    BY SlotsAreInDue
  <1>2. Slots' = Slots /\ \A i : Watches(i)' = Watches(i)
    <2>1. running' = running
      BY DEF Guarded!Next, Guarded!Start, Guarded!RunWatchdog, Guarded!RunPeriodic,
         Guarded!RunQuit, Guarded!TakeRng, Guarded!GenerateSeed, Guarded!DropRng,
         Guarded!BlinkRandomly, Guarded!Skip, Guarded!EndPass, Guarded!Wake,
         Guarded!Tick, Guarded!Bite, Guarded!Yield
    <2> QED
      BY <2>1 DEF Slots, Watches
  <1>3. ASSUME Guarded!Start PROVE LsiInv'
    BY <1>2, <1>3 DEF Guarded!Start, Guarded!UseLsi, LsiInv
  <1>4. ASSUME Guarded!RunWatchdog PROVE LsiInv'
    <2>1. /\ "watchdog" \in lsi_users' /\ lsi_users \subseteq lsi_users'
          /\ lsi' = (lsi_users' # {})
      BY <1>1, <1>4 DEF Guarded!RunWatchdog, Guarded!UseLsi, LsiInv, Guarded!Running,
         Watches
    <2> QED
      BY <1>1, <1>2, <1>4, <2>1 DEF Guarded!RunWatchdog, LsiInv, Guarded!Yield,
         Guarded!Running
  <1>5. ASSUME NEW t \in {"blink", "monitor", "quit", "blink_randomly"}, Guarded!Running(t),
               NEW d, Guarded!Yield(d), UNCHANGED <<lsi_users, lsi, count>>
        PROVE  LsiInv'
    <2>1. ~Watches(slot)
      BY <1>5 DEF Guarded!Running, Watches
    <2> QED
      BY <1>1, <1>2, <1>5, <2>1 DEF LsiInv, Guarded!Yield
  <1>6. ASSUME Guarded!RunPeriodic \/ Guarded!RunQuit \/ Guarded!BlinkRandomly PROVE LsiInv'
    BY <1>5, <1>6 DEF Guarded!RunPeriodic, Guarded!RunQuit, Guarded!BlinkRandomly,
       Guarded!random
  <1>7. ASSUME Guarded!TakeRng \/ Guarded!GenerateSeed \/ Guarded!DropRng
                 \/ Guarded!Skip \/ Guarded!EndPass \/ Guarded!Wake \/ Guarded!Tick
        PROVE  LsiInv'
    <2>1. /\ UNCHANGED <<lsi_users, lsi, begun>>
          /\ main_phase # "main" \/ main_phase' = main_phase
          /\ count = Guarded!Off => count' = Guarded!Off
      BY <1>7 DEF Guarded!TakeRng, Guarded!GenerateSeed, Guarded!DropRng, Guarded!Skip,
         Guarded!EndPass, Guarded!Wake, Guarded!Tick, Guarded!tasks, Guarded!asleep,
         Guarded!random
    <2> QED
      BY <1>2, <2>1 DEF LsiInv
  <1>8. ASSUME Guarded!Bite PROVE LsiInv'
    BY <1>8 DEF Guarded!Bite, LsiInv
  <1> QED
    BY <1>3, <1>4, <1>6, <1>7, <1>8 DEF Guarded!Next

LEMMA RngKeeps ==
  ASSUME RngInv, Guarded!Next
  PROVE  RngInv'
  <1>1. ASSUME Guarded!TakeRng PROVE RngInv'
    BY <1>1, Zenon DEF Guarded!TakeRng, RngInv
  <1>2. ASSUME Guarded!GenerateSeed PROVE RngInv'
    BY <1>2 DEF Guarded!GenerateSeed, RngInv
  <1>3. ASSUME Guarded!DropRng PROVE RngInv'
    BY <1>3, Zenon DEF Guarded!DropRng, RngInv
  <1>4. ASSUME Guarded!Bite PROVE RngInv'
    BY <1>4, Zenon DEF Guarded!Bite, RngInv
  <1>5. ASSUME UNCHANGED Guarded!random PROVE RngInv'
    BY <1>5 DEF Guarded!random, RngInv
  <1> QED
    BY <1>1, <1>2, <1>3, <1>4, <1>5
    DEF Guarded!Next, Guarded!Start, Guarded!RunWatchdog, Guarded!RunPeriodic,
       Guarded!RunQuit, Guarded!BlinkRandomly, Guarded!Skip, Guarded!EndPass, Guarded!Wake,
       Guarded!Tick

LEMMA SoonerIs ==
  ASSUME WatchdogTypeOK, NEW n \in 0..Guarded!LongestSleep
  PROVE  /\ Guarded!Sooner(wait, n) \in [Slots -> TaskWaits]
         /\ \A i \in Slots : wait[i] <= Guarded!FeedInterval =>
              Guarded!Sooner(wait, n)[i] = IF wait[i] < n THEN 0 ELSE wait[i] - n
  <1>1. /\ DOMAIN wait = Slots /\ \A i \in Slots : wait[i] \in TaskWaits
    BY DEF WatchdogTypeOK
  <1> USE Values
  <1>2. \A i \in Slots : wait[i] \in Int /\ 0 <= wait[i]
                        /\ (wait[i] <= 50 \/ wait[i] = 1000)
    BY <1>1 DEF TaskWaits
  <1>3. \A i \in Slots : Guarded!Sooner(wait, n)[i]
          = IF wait[i] = 1000 THEN 1000 ELSE IF wait[i] < n THEN 0 ELSE wait[i] - n
    BY <1>1 DEF Guarded!Sooner
  <1>4. \A i \in Slots : Guarded!Sooner(wait, n)[i] \in TaskWaits
    BY <1>2, <1>3 DEF TaskWaits
  <1> QED
    BY <1>1, <1>2, <1>3, <1>4 DEF Guarded!Sooner

(* A task that is not the watchdog's goes on, or a slot is passed over. *)
LEMMA OthersRun ==
  ASSUME PassIsShort, WatchdogTypeOK, FedInTime, main_phase = "pass", slot \in Slots,
         wait' \in [Slots -> TaskWaits],
         Watches(slot) => wait[slot] > 0 /\ wait' = wait,
         \A i \in Slots \ {slot} : wait'[i] = wait[i],
         slot' = slot + 1,
         UNCHANGED <<running, main_phase, work, sleep_left, interval, count>>
  PROVE  WatchdogTypeOK' /\ FedInTime'
  <1> USE Values
  <1>1. Slots' = Slots /\ \A i : Watches(i)' = Watches(i)
    BY DEF Slots, Watches
  <1>2. WatchdogTypeOK'
    BY <1>1 DEF WatchdogTypeOK
  <1>3. ASSUME count # Guarded!Off PROVE FedInTime'
    <2>1. PICK i \in Slots : Watches(i) /\ wait[i] <= Guarded!FeedInterval /\ InPass(i)
      BY <1>3 DEF FedInTime
    <2>2. wait'[i] = wait[i] /\ (i = slot => wait[i] > 0) /\ i \in Nat /\ slot \in Nat
      BY <2>1, TaskSlots DEF WatchdogTypeOK
    <2>3. InPass(i)'
      BY <2>1, <2>2 DEF InPass
    <2> QED
      BY <1>1, <2>1, <2>2, <2>3 DEF FedInTime
  <1> QED
    BY <1>2, <1>3 DEF FedInTime

LEMMA TasksKeepFed ==
  ASSUME PassIsShort, WatchdogTypeOK, FedInTime,
         \/ Guarded!RunPeriodic \/ Guarded!RunQuit
         \/ Guarded!BlinkRandomly \/ Guarded!Skip
  PROVE  WatchdogTypeOK' /\ FedInTime'
  <1> USE Values
  <1>1. ASSUME NEW t \in {"blink", "monitor", "quit", "blink_randomly"}, Guarded!Running(t),
               NEW d \in TaskWaits, Guarded!Yield(d), UNCHANGED count
        PROVE  WatchdogTypeOK' /\ FedInTime'
    <2>1. slot \in Slots /\ ~Watches(slot) /\ main_phase = "pass"
      BY <1>1, SlotsAreInDue DEF Guarded!Running, Watches
    <2>2. wait' \in [Slots -> TaskWaits] /\ \A i \in Slots \ {slot} : wait'[i] = wait[i]
      BY <1>1, <2>1 DEF Guarded!Yield, WatchdogTypeOK
    <2> QED
      BY <1>1, <2>1, <2>2, OthersRun DEF Guarded!Yield, Guarded!asleep
  <1>2. ASSUME Guarded!RunPeriodic PROVE WatchdogTypeOK' /\ FedInTime'
    BY <1>1, <1>2 DEF Guarded!RunPeriodic, TaskWaits
  <1>3. ASSUME Guarded!RunQuit PROVE WatchdogTypeOK' /\ FedInTime'
    <2>1. (IF slot \in begun THEN Guarded!Done ELSE Guarded!CYCLE_TIME) \in TaskWaits
      BY DEF TaskWaits
    <2> QED
      BY <1>1, <1>3, <2>1 DEF Guarded!RunQuit
  <1>4. ASSUME Guarded!BlinkRandomly PROVE WatchdogTypeOK' /\ FedInTime'
    BY <1>1, <1>4 DEF Guarded!BlinkRandomly, TaskWaits
  <1>5. ASSUME Guarded!Skip PROVE WatchdogTypeOK' /\ FedInTime'
    <2>1. /\ slot \in Slots /\ wait[slot] > 0 /\ wait' = wait
          /\ wait' \in [Slots -> TaskWaits]
          /\ main_phase = "pass" /\ slot' = slot + 1
      BY <1>5, SlotsAreInDue DEF Guarded!Skip, WatchdogTypeOK
    <2> QED
      BY <1>5, <2>1, OthersRun DEF Guarded!Skip, Guarded!asleep
  <1> QED
    BY <1>2, <1>3, <1>4, <1>5

LEMMA FeedingKeeps ==
  ASSUME PassIsShort, WatchdogTypeOK, Guarded!RunWatchdog
  PROVE  WatchdogTypeOK' /\ FedInTime'
  <1> USE Values
  <1>1. PICK i \in Slots : i = slot /\ Watches(i) /\ main_phase = "pass"
    BY SlotsAreInDue DEF Guarded!RunWatchdog, Guarded!Running, Watches
  <1>2. /\ wait' = [wait EXCEPT ![i] = 5] /\ count' = 20 /\ slot' = i + 1
        /\ UNCHANGED <<running, main_phase, work, sleep_left, interval>>
    BY <1>1 DEF Guarded!RunWatchdog, Guarded!Yield, Guarded!asleep
  <1>3. Slots' = Slots /\ \A j : Watches(j)' = Watches(j)
    BY <1>2 DEF Slots, Watches
  <1>4. WatchdogTypeOK'
    BY <1>1, <1>2, <1>3 DEF WatchdogTypeOK, TaskWaits
  <1>5. wait'[i] = 5
    BY <1>2 DEF WatchdogTypeOK
  <1>6. InPass(i)'
    BY <1>2, <1>5 DEF InPass
  <1> QED
    BY <1>1, <1>2, <1>3, <1>4, <1>5, <1>6 DEF FedInTime

(* The sleep is no longer than the shortest wait. *)
LEMMA EndPassKeeps ==
  ASSUME PassIsShort, WatchdogTypeOK, FedInTime, Guarded!EndPass
  PROVE  WatchdogTypeOK' /\ FedInTime'
  <1> USE Values
  <1> DEFINE S == {Guarded!LongestSleep} \union {wait[i] : i \in DOMAIN wait}
  <1>1. Slots' = Slots /\ \A i : Watches(i)' = Watches(i)
    BY DEF Slots, Watches, Guarded!EndPass
  <1>2. interval' \in S /\ \A x \in S : interval' <= x
    <2>1. S \subseteq Nat
      BY DEF WatchdogTypeOK, TaskWaits
    <2>2. \E x \in S : \A y \in S : x =< y
      BY <2>1, FirstExists
    <2>3. interval' = Guarded!Min(S)
      BY DEF Guarded!EndPass
    <2> QED
      BY <2>2, <2>3 DEF Guarded!Min
  <1>3. interval' \in 0..50 /\ \A i \in Slots : interval' <= wait[i]
    BY <1>2 DEF WatchdogTypeOK, TaskWaits
  <1> HIDE DEF S
  <1>4. /\ main_phase = "pass" /\ slot > Len(wait) /\ slot' = 1 /\ work' = 0
        /\ sleep_left' = interval'
        /\ main_phase' = IF interval' > 0 THEN "asleep"
                         ELSE IF stopping THEN "stopped" ELSE "pass"
        /\ UNCHANGED <<running, wait, count>>
    BY DEF Guarded!EndPass
  <1>5. WatchdogTypeOK'
    BY <1>1, <1>3, <1>4 DEF WatchdogTypeOK, PassIsShort
  <1>6. ASSUME count # Guarded!Off PROVE FedInTime'
    <2>1. PICK i \in Slots : Watches(i) /\ wait[i] <= Guarded!FeedInterval /\ InPass(i)
      BY <1>4, <1>6 DEF FedInTime
    <2>2. wait[i] \in Nat /\ i < slot /\ i \in Nat /\ i >= 1
      <3> DEFINE n == Len(wait)
      <3>1. wait[i] \in Nat /\ i \in Nat /\ i >= 1 /\ ~(i > n) /\ slot > n
              /\ slot \in Nat /\ n \in Nat
        BY <1>4, <2>1, OfASlot, SlotsAreInDue DEF WatchdogTypeOK
      <3> HIDE DEF n
      <3> QED
        BY <3>1
    <2>3. count \in Nat /\ work \in Nat /\ work <= MaxWork
      BY <1>6 DEF WatchdogTypeOK, PassIsShort
    <2>4. CASE main_phase' = "asleep"
      <3>1. sleep_left' = interval' /\ interval' \in Nat /\ interval' > 0
              /\ interval' <= wait[i]
        BY <1>3, <1>4, <2>1, <2>4
      <3>2. count >= 15 + wait[i] /\ wait' = wait /\ count' = count
        BY <1>4, <2>1, <2>2, <3>1 DEF InPass
      <3>4. wait'[i] = wait[i] /\ wait[i] > 0 /\ sleep_left' > 0
              /\ sleep_left' <= wait[i] /\ sleep_left' \in Nat
        BY <2>2, <3>1, <3>2
      <3>3. InSleep(i)'
        BY <2>2, <3>2, <3>4 DEF InSleep, PassIsShort
      <3> QED
        BY <1>1, <1>4, <2>1, <2>4, <3>3 DEF FedInTime
    <2>5. CASE main_phase' = "pass"
      <3>1. InPass(i)'
        BY <1>4, <2>1, <2>2, <2>3 DEF InPass, PassIsShort
      <3> QED
        BY <1>1, <1>4, <2>1, <2>5, <3>1 DEF FedInTime
    <2> QED
      BY <1>1, <1>4, <2>1, <2>4, <2>5 DEF FedInTime
  <1> QED
    BY <1>4, <1>5, <1>6 DEF FedInTime

LEMMA WakeKeeps ==
  ASSUME PassIsShort, WatchdogTypeOK, FedInTime, Guarded!Wake
  PROVE  WatchdogTypeOK' /\ FedInTime'
  <1> USE Values
  <1>1. Slots' = Slots /\ \A i : Watches(i)' = Watches(i)
    BY DEF Slots, Watches, Guarded!Wake
  <1>2. /\ main_phase = "asleep" /\ slot = 1 /\ sleep_left' = 0 /\ interval' = 0
        /\ main_phase' = (IF stopping THEN "stopped" ELSE "pass")
        /\ wait' = Guarded!Sooner(wait, interval) /\ UNCHANGED <<running, slot, work,
             count>>
    BY DEF Guarded!Wake, WatchdogTypeOK
  <1>3. WatchdogTypeOK'
    BY <1>1, <1>2, SoonerIs DEF WatchdogTypeOK
  <1>4. ASSUME count # Guarded!Off PROVE FedInTime'
    <2>1. PICK i \in Slots : Watches(i) /\ wait[i] <= Guarded!FeedInterval /\ InSleep(i)
      BY <1>2, <1>4 DEF FedInTime
    <2>2. wait'[i] = IF wait[i] < interval THEN 0 ELSE wait[i] - interval
      BY <1>2, <2>1, SoonerIs DEF WatchdogTypeOK
    <2>3. wait[i] \in Nat /\ interval \in Nat /\ i \in Nat /\ i >= 1
      BY <2>1, OfASlot DEF WatchdogTypeOK
    <2>4. count \in Nat /\ work \in Nat /\ sleep_left \in Int
      BY <1>4 DEF WatchdogTypeOK, PassIsShort
    <2>5. wait'[i] \in Nat /\ wait'[i] <= wait[i]
      BY <2>2, <2>3
    <2>6. InPass(i)'
      BY <1>2, <2>1, <2>3, <2>4, <2>5 DEF InPass, InSleep, PassIsShort
    <2> QED
      BY <1>1, <1>2, <2>1, <2>3, <2>5, <2>6 DEF FedInTime
  <1> QED
    BY <1>2, <1>3, <1>4 DEF FedInTime

LEMMA TickKeeps ==
  ASSUME PassIsShort, WatchdogTypeOK, FedInTime, Guarded!Tick
  PROVE  WatchdogTypeOK' /\ FedInTime'
  <1> USE Values
  <1>1. Slots' = Slots /\ \A i : Watches(i)' = Watches(i)
    BY DEF Slots, Watches, Guarded!Tick
  <1>2. /\ wait' = Guarded!Sooner(wait, 1) /\ count # 0
        /\ count' = (IF count = Guarded!Off THEN Guarded!Off ELSE count - 1)
        /\ UNCHANGED <<running, main_phase, slot, interval>>
        /\ main_phase = "pass" => work < MaxWork /\ work' = work + 1
             /\ sleep_left' = sleep_left
        /\ main_phase = "asleep" => sleep_left > -MaxOversleep
             /\ sleep_left' = sleep_left - 1 /\ work' = work
        /\ main_phase = "stopped" => work' = work /\ sleep_left' = sleep_left
        /\ main_phase # "main"
    BY DEF Guarded!Tick, WatchdogTypeOK
  <1>3. WatchdogTypeOK'
    BY <1>1, <1>2, SoonerIs DEF WatchdogTypeOK, PassIsShort
  <1>4. ASSUME count # Guarded!Off PROVE FedInTime'
    <2>1. PICK i \in Slots : /\ Watches(i) /\ wait[i] <= Guarded!FeedInterval
                             /\ main_phase = "pass" => InPass(i)
                             /\ main_phase = "asleep" => InSleep(i)
      BY <1>4 DEF FedInTime
    <2>2. wait'[i] = IF wait[i] < 1 THEN 0 ELSE wait[i] - 1
      BY <1>2, <2>1, SoonerIs
    <2>3. wait[i] \in Nat /\ i \in Nat /\ slot \in Nat
      BY <2>1, OfASlot DEF WatchdogTypeOK
    <2>4. count \in Nat /\ work \in Nat /\ sleep_left \in Int /\ count' = count - 1
      BY <1>2, <1>4 DEF WatchdogTypeOK, PassIsShort
    <2>5. ASSUME main_phase = "pass" PROVE InPass(i)'
      BY <1>2, <2>1, <2>2, <2>3, <2>4, <2>5 DEF InPass, PassIsShort
    <2>6. ASSUME main_phase = "asleep" PROVE InSleep(i)'
      BY <1>2, <2>1, <2>2, <2>3, <2>4, <2>6 DEF InSleep, PassIsShort
    <2>7. wait'[i] <= Guarded!FeedInterval
      BY <2>1, <2>2, <2>3
    <2> QED
      BY <1>1, <1>2, <2>1, <2>5, <2>6, <2>7 DEF FedInTime
  <1> QED
    BY <1>2, <1>3, <1>4 DEF FedInTime

LEMMA WatchdogInvNext ==
  ASSUME PassIsShort, WatchdogInv, [Guarded!Next]_Guarded!vars
  PROVE  WatchdogInv'
  <1>1. CASE UNCHANGED Guarded!vars
    BY <1>1 DEF Guarded!vars, Guarded!tasks, Guarded!asleep, Guarded!random, WatchdogInv,
       WatchdogTypeOK, LsiInv, RngInv, FedInTime, InPass, InSleep, Slots, Watches
  <1>2. ASSUME Guarded!Next PROVE WatchdogTypeOK' /\ FedInTime'
    <2>1. ASSUME Guarded!Start PROVE WatchdogTypeOK' /\ FedInTime'
      BY <2>1, Values DEF Guarded!Start, WatchdogInv, WatchdogTypeOK, FedInTime, Slots
    <2>2. ASSUME Guarded!TakeRng \/ Guarded!GenerateSeed \/ Guarded!DropRng
          PROVE WatchdogTypeOK' /\ FedInTime'
      BY <2>2 DEF Guarded!TakeRng, Guarded!GenerateSeed, Guarded!DropRng, Guarded!tasks,
         Guarded!asleep, WatchdogInv, WatchdogTypeOK, FedInTime,
                  InPass, InSleep, Slots, Watches
    <2>3. ASSUME Guarded!Bite PROVE WatchdogTypeOK' /\ FedInTime'
      BY <2>3, Values DEF Guarded!Bite, WatchdogInv, WatchdogTypeOK, FedInTime, Slots,
         TaskWaits, PassIsShort
    <2> QED
      BY <1>2, <2>1, <2>2, <2>3, TasksKeepFed, FeedingKeeps, EndPassKeeps, WakeKeeps,
         TickKeeps
      DEF Guarded!Next, WatchdogInv
  <1> QED
    BY <1>1, <1>2, LsiKeeps, RngKeeps DEF WatchdogInv

LEMMA WatchdogFollows ==
  ASSUME PassIsShort, WatchdogInv
  PROVE  Guarded!WatchdogIsSound
  <1>1. ASSUME count = 0 PROVE main_phase = "stopped"
    <2>1. PICK i \in Slots : /\ Watches(i) /\ main_phase # "main"
                             /\ main_phase = "pass" => InPass(i)
                             /\ main_phase = "asleep" => InSleep(i)
      BY <1>1, Values DEF FedInTime, WatchdogInv
    <2>2. wait[i] \in Nat /\ i \in Nat /\ slot \in Nat /\ work \in 0..MaxWork
      BY <2>1, OfASlot DEF WatchdogInv, WatchdogTypeOK
    <2>3. main_phase # "pass"
      BY <1>1, <2>1, <2>2, Values DEF InPass, PassIsShort
    <2>4. main_phase # "asleep"
      BY <1>1, <2>1, <2>2, Values DEF InSleep, PassIsShort, WatchdogInv, WatchdogTypeOK
    <2> QED
      BY <2>1, <2>3, <2>4 DEF WatchdogInv, WatchdogTypeOK
  <1> QED
    BY <1>1 DEF WatchdogInv, LsiInv, RngInv, Guarded!WatchdogIsSound

(* clock_impl.h never runs the core faster than its voltage and wait       *)
(* states allow, and the watchdog does not reset a board whose tasks are   *)
(* short, nor does an oscillator stop while somebody uses it.              *)
THEOREM ClockStaysSound ==
  ASSUME PassIsShort
  PROVE  Spec => []ClockIsSound
  <1>1. ClockInv /\ WatchdogInv => ClockIsSound
    BY ClockFollows, WatchdogFollows DEF ClockIsSound
  <1>2. ClockInv /\ [Next]_vars => ClockInv'
    BY ClockInvNext, OnlyOneMoves DEF clocks, Clocks!vars
  <1>3. WatchdogInv /\ [Next]_vars => WatchdogInv'
    <2> SUFFICES ASSUME WatchdogInv, [Next]_vars PROVE WatchdogInv'
      OBVIOUS
    <2>1. [Guarded!Next]_Guarded!vars
      BY OnlyOneMoves DEF guarded, Guarded!vars, Guarded!tasks, Guarded!asleep, Guarded!random
    <2> QED
      BY <2>1, WatchdogInvNext
  <1>4. Init => ClockInv /\ WatchdogInv
    BY ClockInvInit, WatchdogInvInit, DriversInit
  <1> QED
    BY <1>1, <1>2, <1>3, <1>4, PTL DEF Spec

-----------------------------------------------------------------------------
(* Every choice of the user has a nearest entry in a table of numbers. *)
LEMMA NearestIsAnEntry ==
  ASSUME NEW table, NEW n \in Nat \ {0}, table \in [1..n -> Nat], NEW x \in Nat
  PROVE  Monitors!Nearest(table, x) \in 1..n
  <1> DEFINE delta(i) == IF table[i] > x THEN table[i] - x ELSE x - table[i]
             best == {i \in 1..n : \A j \in 1..n : delta(i) <= delta(j)}
             deltas == {delta(i) : i \in 1..n}
  <1>1. \A i \in 1..n : delta(i) \in Nat
    OBVIOUS
  <1>2. deltas \subseteq Nat /\ deltas # {}
    BY <1>1
  <1>3. PICK d \in deltas : \A e \in deltas : d =< e
    <2> HIDE DEF deltas
    <2> QED
      BY <1>2, FirstExists
  <1>4. PICK i \in 1..n : d = delta(i)
    OBVIOUS
  <1>5. i \in best
    BY <1>3, <1>4
  <1>6. best \subseteq Nat /\ best # {}
    <2>1. 1..n \subseteq Nat /\ best \subseteq 1..n
      OBVIOUS
    <2> HIDE DEF best
    <2> QED
      BY <2>1, <1>5
  <1>7. PICK k \in best : \A j \in best : k =< j
    <2> HIDE DEF best
    <2> QED
      BY <1>6, FirstExists
  <1>8. Monitors!Nearest(table, x) = CHOOSE k0 \in best : \A j \in best : k0 <= j
    BY DEF Monitors!Nearest
  <1>9. Monitors!Nearest(table, x) \in best
    <2> HIDE DEF best
    <2> QED
      BY <1>7, <1>8
  <1> QED
    BY <1>9

(* What the setters are asked for are numbers, and the clock of the        *)
(* program, if it runs ahead, does not use up the margin of 5 ms.          *)
Chosen == [current : {Monitors!Nearest(Monitors!MEASUREMENT_TIMES, t) : t \in Times},
           voltage : {Monitors!Nearest(Monitors!MEASUREMENT_TIMES, t) : t \in Times},
           averaging : {Monitors!Nearest(Monitors!SAMPLE_AVERAGING_VALUES,
             n) : n \in Averages}]
PowerResult(c) ==
  Monitors!SAMPLE_AVERAGING_VALUES[c.averaging]
    * (Monitors!MEASUREMENT_TIMES[c.current] + Monitors!MEASUREMENT_TIMES[c.voltage])
ClockIsClose ==
  /\ Times \subseteq Nat /\ Averages \subseteq Nat /\ ClockRate \in Nat \ {0}
  /\ \A c \in Chosen : PowerResult(c) <= (PowerResult(c) + 5000) \div ClockRate

SensorTypeOK ==
  /\ configured \in Chosen /\ halted \in BOOLEAN /\ failures \in Nat
  /\ task \in [Monitors!Sensor -> {"closed", "starting", "measuring"}]
  /\ held \in [Monitors!Sensor -> BOOLEAN] /\ device \in [Monitors!Sensor -> {"standby",
       "half", "on"}]
  /\ due \in [Monitors!Sensor -> Nat]
  /\ DOMAIN output = Monitors!Sensor

(* An open sensor is on; its first result is ahead until the first read. *)
Awaited(s) ==
  /\ task[s] # "closed" => device[s] = "on"
  /\ task[s] = "starting" => due[s] = Monitors!FirstResult(s)
  /\ task[s] = "measuring" => due[s] = 0
Rests(s) == task[s] = "closed" /\ ~halted => ~held[s] /\ (device[s] = "standby"
  \/ failures > 0)
Told(s) == output[s].ok => output[s].true

MonitorsInv == SensorTypeOK /\ \A s \in Monitors!Sensor : Awaited(s) /\ Rests(s) /\ Told(s)

LEMMA TimesAreNumbers ==
  ASSUME ClockIsClose, NEW c \in Chosen
  PROVE  /\ Monitors!MEASUREMENT_TIMES[c.current] + Monitors!MEASUREMENT_TIMES[c.voltage] \in Nat
         /\ Monitors!SAMPLE_AVERAGING_VALUES[c.averaging] \in Nat
  <1>1. Monitors!MEASUREMENT_TIMES \in [1..8 -> Nat]
          /\ Monitors!SAMPLE_AVERAGING_VALUES \in [1..8 -> Nat]
    BY DEF Monitors!MEASUREMENT_TIMES, Monitors!SAMPLE_AVERAGING_VALUES
  <1>2. c.current \in 1..8 /\ c.voltage \in 1..8 /\ c.averaging \in 1..8
    <2>1. ASSUME NEW x \in Nat
          PROVE  /\ Monitors!Nearest(Monitors!MEASUREMENT_TIMES, x) \in 1..8
                 /\ Monitors!Nearest(Monitors!SAMPLE_AVERAGING_VALUES, x) \in 1..8
      <3>1. 8 \in Nat \ {0}
        OBVIOUS
      <3> QED
        BY <1>1, <3>1, NearestIsAnEntry
    <2> QED
      BY <2>1 DEF Chosen, ClockIsClose
  <1> QED
    BY <1>1, <1>2

LEMMA ResultIsANumber ==
  ASSUME ClockIsClose, NEW c \in Chosen
  PROVE  PowerResult(c) \in Nat
  <1> DEFINE a == Monitors!SAMPLE_AVERAGING_VALUES[c.averaging]
             t == Monitors!MEASUREMENT_TIMES[c.current] + Monitors!MEASUREMENT_TIMES[c.voltage]
  <1>1. a \in Nat /\ t \in Nat
    BY TimesAreNumbers
  <1>2. PowerResult(c) = a * t
    BY DEF PowerResult
  <1> HIDE DEF a, t
  <1> QED
    BY <1>1, <1>2

LEMMA FirstResultIsShort ==
  ASSUME ClockIsClose, configured \in Chosen, NEW s \in Monitors!Sensor
  PROVE  Monitors!FirstResult(s) \in Nat /\ Monitors!FirstResult(s) <= (Monitors!StartupDelay(s) \div ClockRate)
  <1>1. CASE s = "power"
    <2>1. Monitors!FirstResult(s) = PowerResult(configured)
      BY <1>1 DEF Monitors!FirstResult, Monitors!OneMeasurement, PowerResult
    <2> QED
      BY <1>1, <2>1, ResultIsANumber DEF Monitors!StartupDelay, ClockIsClose
  <1>2. CASE s = "imu"
    <2>1. Monitors!FirstResult(s) = 0 /\ Monitors!StartupDelay(s) = 5000
      BY <1>2 DEF Monitors!FirstResult, Monitors!StartupDelay
    <2>2. ClockRate \in Nat \ {0}
      BY DEF ClockIsClose
    <2>3. (5000 \div ClockRate) >= 0
      BY <2>2
    <2> QED
      BY <2>1, <2>3
  <1> QED
    BY <1>1, <1>2 DEF Monitors!Sensor

LEMMA MonitorsInvInit == ASSUME Monitors!Init PROVE MonitorsInv
  BY DEF Monitors!Init, MonitorsInv, SensorTypeOK, Awaited, Rests, Told, Chosen

(* The configuration does not change while a task runs. *)
LEMMA SameResult ==
  ASSUME configured' = configured, NEW s \in Monitors!Sensor
  PROVE  Monitors!FirstResult(s)' = Monitors!FirstResult(s)
  BY DEF Monitors!FirstResult, Monitors!OneMeasurement

LEMMA OpenKeeps ==
  ASSUME MonitorsInv, ClockIsClose, NEW s \in Monitors!Sensor, Monitors!Open(s)
  PROVE  MonitorsInv'
  <1>1. Monitors!FirstResult(s) \in Nat
    BY FirstResultIsShort DEF MonitorsInv, SensorTypeOK
  <1>2. configured' = configured /\ output' = output
    BY DEF Monitors!Open
  <1>3. \A x \in Monitors!Sensor : Monitors!FirstResult(x)' = Monitors!FirstResult(x)
    BY <1>2, SameResult
  <1>4. SensorTypeOK'
    <2>1. MonitorsInv /\ Monitors!Open(s)
      OBVIOUS
    <2>2. failures' \in Nat
      BY <2>1 DEF MonitorsInv, SensorTypeOK, Monitors!Open
    <2>6. halted' \in BOOLEAN
      BY <2>1, Zenon DEF MonitorsInv, SensorTypeOK, Monitors!Open
    <2>3. /\ task' \in [Monitors!Sensor -> {"closed", "starting", "measuring"}]
          /\ held' \in [Monitors!Sensor -> BOOLEAN]
      BY <2>1 DEF MonitorsInv, SensorTypeOK, Monitors!Open
    <2>4. /\ device' \in [Monitors!Sensor -> {"standby", "half", "on"}]
          /\ due' \in [Monitors!Sensor -> Nat]
      BY <2>1, <1>1 DEF MonitorsInv, SensorTypeOK, Monitors!Open
    <2>5. configured' \in Chosen /\ DOMAIN output' = Monitors!Sensor
      BY <2>1, <1>2 DEF MonitorsInv, SensorTypeOK
    <2> QED
      BY <2>2, <2>3, <2>4, <2>5, <2>6 DEF SensorTypeOK
  <1>5. ASSUME NEW x \in Monitors!Sensor PROVE (Awaited(x) /\ Rests(x) /\ Told(x))'
    BY <1>2, <1>3 DEF MonitorsInv, SensorTypeOK, Monitors!Open, Awaited, Rests, Told
  <1> QED
    BY <1>4, <1>5 DEF MonitorsInv

(* A read after the wait finds a result that is there. *)
LEMMA WaitIsEnough ==
  ASSUME MonitorsInv, ClockIsClose, NEW s \in Monitors!Sensor, NEW t \in Nat,
         task[s] # "closed", task[s] = "starting" => t = Monitors!StartupDelay(s),
           Monitors!Waited(s, t)
  PROVE  due' = [due EXCEPT ![s] = 0]
  <1>1. ClockRate \in Nat \ {0} /\ due[s] \in Nat
    BY DEF ClockIsClose, MonitorsInv, SensorTypeOK
  <1>2. (t \div ClockRate) >= 0
    BY <1>1
  <1>3. ~(due[s] > (t \div ClockRate))
    <2>1. CASE task[s] = "starting"
      <3>1. Monitors!FirstResult(s) <= (Monitors!StartupDelay(s) \div ClockRate)
        BY FirstResultIsShort DEF MonitorsInv, SensorTypeOK
      <3>2. due[s] = Monitors!FirstResult(s) /\ t = Monitors!StartupDelay(s)
        BY <2>1 DEF MonitorsInv, Awaited
      <3>3. due[s] <= (t \div ClockRate)
        BY <3>1, <3>2
      <3> DEFINE passed == t \div ClockRate
                 rest == due[s]
      <3>4. passed \in Int /\ rest \in Nat /\ rest <= passed
        BY <1>1, <3>3
      <3> HIDE DEF passed, rest
      <3>5. ~(rest > passed)
        BY <3>4
      <3> QED
        BY <3>5 DEF passed, rest
    <2>2. CASE task[s] = "measuring"
      <3>1. due[s] = 0
        BY <2>2 DEF MonitorsInv, Awaited
      <3> DEFINE passed == t \div ClockRate
      <3>2. passed >= 0 /\ passed \in Int
        BY <1>1, <1>2
      <3> HIDE DEF passed
      <3>3. ~(0 > passed)
        BY <3>2
      <3> QED
        BY <3>1, <3>3 DEF passed
    <2> QED
      BY <2>1, <2>2 DEF MonitorsInv, SensorTypeOK
  <1> QED
    BY <1>3 DEF Monitors!Waited, MonitorsInv, SensorTypeOK

LEMMA ReadIsTrue ==
  ASSUME MonitorsInv, NEW s \in Monitors!Sensor, device[s] = "on",
           due' = [due EXCEPT ![s] = 0],
         NEW read, Monitors!Read(s, read)
  PROVE  DOMAIN output' = Monitors!Sensor /\ \A x \in Monitors!Sensor : Told(x)'
  <1>1. due'[s] = 0
    BY DEF MonitorsInv, SensorTypeOK
  <1>2. PICK w \in Samples : output' = [output EXCEPT ![s] =
          [ok |-> Monitors!Result(s, read),
            word |-> IF read = Monitors!Registers(s) THEN w ELSE 0,
           true |-> read = Monitors!Registers(s) /\ device[s] = "on" /\ due'[s] = 0]]
    BY DEF Monitors!Read
  <1>3. DOMAIN output' = Monitors!Sensor
    BY <1>2 DEF MonitorsInv, SensorTypeOK
  <1>4. ASSUME NEW x \in Monitors!Sensor PROVE Told(x)'
    BY <1>1, <1>2 DEF MonitorsInv, SensorTypeOK, Told, Monitors!Result
  <1> QED
    BY <1>3, <1>4

LEMMA CountedAlike == \A S : Monitors!Cardinality(S) = Cardinality(S)
  BY DEF Monitors!Cardinality, Cardinality

LEMMA FailuresAreCounted ==
  ASSUME MonitorsInv, NEW steps, IsFiniteSet(DOMAIN steps), Monitors!Failed(steps)
  PROVE  failures' \in Nat /\ failures' >= failures
         /\ \A k \in DOMAIN steps : ~steps[k] => failures' > 0
  <1> DEFINE missing == {k \in DOMAIN steps : ~steps[k]}
  <1>1. IsFiniteSet(missing)
    BY FS_Subset
  <1>2. Monitors!Cardinality(missing) \in Nat
    BY <1>1, FS_CardinalityType, CountedAlike
  <1>3. failures' = failures + Monitors!Cardinality(missing)
    BY DEF Monitors!Failed
  <1>4. failures' \in Nat /\ failures' >= failures
    BY <1>2, <1>3 DEF MonitorsInv, SensorTypeOK
  <1>5. ASSUME NEW k \in DOMAIN steps, ~steps[k] PROVE failures' > 0
    <2>1. missing # {}
      BY <1>5
    <2>2. Monitors!Cardinality(missing) # 0
      BY <2>1, <1>1, FS_EmptySet, CountedAlike
    <2> QED
      BY <2>2, <1>2, <1>3 DEF MonitorsInv, SensorTypeOK
  <1> QED
    BY <1>4, <1>5

LEMMA StandbyKeeps ==
  ASSUME MonitorsInv, ClockIsClose, NEW s \in Monitors!Sensor, Monitors!Measure(s)
  PROVE  MonitorsInv'
  <1>1. Monitors!StartupDelay(s) \in Nat
    BY FirstResultIsShort DEF MonitorsInv, SensorTypeOK, Monitors!StartupDelay
  <1>2. due' = [due EXCEPT ![s] = 0]
    BY <1>1, WaitIsEnough DEF Monitors!Measure
  <1>3. PICK read \in SUBSET Monitors!Registers(s), done \in BOOLEAN :
          Monitors!Read(s, read) /\ Monitors!PutInStandby(s, done)
            /\ Monitors!Failed(<<read = Monitors!Registers(s), done>>)
    BY DEF Monitors!Measure
  <1>4. device[s] = "on"
    BY DEF Monitors!Measure, MonitorsInv, Awaited
  <1>5. DOMAIN output' = Monitors!Sensor /\ \A x \in Monitors!Sensor : Told(x)'
    BY <1>2, <1>3, <1>4, ReadIsTrue
  <1>6. failures' \in Nat /\ failures' >= failures /\ (done \/ failures' > 0)
    <2> DEFINE steps == <<read = Monitors!Registers(s), done>>
    <2>1. DOMAIN steps = 1..2 /\ steps[2] = done
      OBVIOUS
    <2>2. IsFiniteSet(DOMAIN steps)
      <3>1. IsFiniteSet(1..2)
        <4>1. 1 \in Int /\ 2 \in Int
          OBVIOUS
        <4> QED
          BY <4>1, FS_Interval, Zenon
      <3>2. DOMAIN steps = 1..2
        BY <2>1
      <3> QED
        BY <3>1, <3>2, Zenon
    <2>3. Monitors!Failed(steps)
      BY <1>3
    <2> HIDE DEF steps
    <2> QED
      BY <2>1, <2>2, <2>3, FailuresAreCounted
  <1>7. /\ task' = [task EXCEPT ![s] = "closed"] /\ UNCHANGED <<configured, halted>>
        /\ held' = [held EXCEPT ![s] = FALSE]
        /\ \/ done /\ device' = [device EXCEPT ![s] = "standby"]
           \/ ~done /\ UNCHANGED device
           \/ ~done /\ s = "imu" /\ device' = [device EXCEPT ![s] = "half"]
    BY <1>3 DEF Monitors!Measure, Monitors!PutInStandby
  <1>8. SensorTypeOK'
    BY <1>2, <1>5, <1>6, <1>7 DEF MonitorsInv, SensorTypeOK
  <1>9. ASSUME NEW x \in Monitors!Sensor PROVE Awaited(x)'
    BY <1>2, <1>7, SameResult DEF MonitorsInv, SensorTypeOK, Awaited
  <1>10. ASSUME NEW x \in Monitors!Sensor PROVE Rests(x)'
    BY <1>6, <1>7 DEF MonitorsInv, SensorTypeOK, Rests
  <1> QED
    BY <1>5, <1>8, <1>9, <1>10 DEF MonitorsInv

LEMMA MeasureKeeps ==
  ASSUME MonitorsInv, ClockIsClose, NEW s \in Monitors!Sensor, Monitors!MeasureAgain(s)
  PROVE  MonitorsInv'
  <1> DEFINE t == IF task[s] = "starting" THEN Monitors!StartupDelay(s)
                  ELSE IF s = "imu" THEN 5000 ELSE Monitors!OneMeasurement
  <1>1. Monitors!StartupDelay(s) \in Nat
    BY FirstResultIsShort DEF MonitorsInv, SensorTypeOK, Monitors!StartupDelay
  <1>2. t \in Nat
    BY <1>1, TimesAreNumbers DEF MonitorsInv, SensorTypeOK, Monitors!OneMeasurement
  <1>3. due' = [due EXCEPT ![s] = 0]
    <2>1. Monitors!Waited(s, t) /\ task[s] # "closed"
      BY DEF Monitors!MeasureAgain
    <2>2. task[s] = "starting" => t = Monitors!StartupDelay(s)
      OBVIOUS
    <2> HIDE DEF t
    <2> QED
      BY <1>2, <2>1, <2>2, WaitIsEnough
  <1>4. PICK read \in SUBSET Monitors!Registers(s) : Monitors!Read(s, read)
          /\ Monitors!Failed(<<read = Monitors!Registers(s)>>)
    BY DEF Monitors!MeasureAgain
  <1>5. device[s] = "on"
    BY DEF Monitors!MeasureAgain, MonitorsInv, Awaited
  <1>6. DOMAIN output' = Monitors!Sensor /\ \A x \in Monitors!Sensor : Told(x)'
    BY <1>3, <1>4, <1>5, ReadIsTrue
  <1>7. failures' \in Nat /\ failures' >= failures
    <2> DEFINE steps == <<read = Monitors!Registers(s)>>
    <2>1. DOMAIN steps = 1..1
      OBVIOUS
    <2>2. IsFiniteSet(DOMAIN steps)
      <3>1. IsFiniteSet(1..1)
        <4>1. 1 \in Int /\ 1 \in Int
          OBVIOUS
        <4> QED
          BY <4>1, FS_Interval, Zenon
      <3>2. DOMAIN steps = 1..1
        BY <2>1
      <3> QED
        BY <3>1, <3>2, Zenon
    <2>3. Monitors!Failed(steps)
      BY <1>4
    <2> HIDE DEF steps
    <2> QED
      BY <2>2, <2>3, FailuresAreCounted
  <1>8. task' = [task EXCEPT ![s] = "measuring"] /\ UNCHANGED <<configured, held, device,
          halted>>
    BY DEF Monitors!MeasureAgain
  <1>9. SensorTypeOK'
    BY <1>3, <1>6, <1>7, <1>8 DEF MonitorsInv, SensorTypeOK
  <1>10. ASSUME NEW x \in Monitors!Sensor PROVE Awaited(x)'
    BY <1>3, <1>5, <1>8, SameResult DEF MonitorsInv, SensorTypeOK, Awaited
  <1>11. ASSUME NEW x \in Monitors!Sensor PROVE Rests(x)'
    BY <1>7, <1>8 DEF MonitorsInv, SensorTypeOK, Rests
  <1> QED
    BY <1>6, <1>9, <1>10, <1>11 DEF MonitorsInv

LEMMA MonitorsInvNext ==
  ASSUME MonitorsInv, ClockIsClose, [Monitors!Next]_Monitors!vars
  PROVE  MonitorsInv'
  <1>1. CASE Monitors!Next
    BY <1>1, OpenKeeps, StandbyKeeps, MeasureKeeps DEF Monitors!Next
  <1>2. CASE UNCHANGED Monitors!vars
    BY <1>2, SameResult DEF Monitors!vars, MonitorsInv, SensorTypeOK, Awaited, Rests, Told
  <1> QED
    BY <1>1, <1>2

LEMMA MonitorsFollow == ASSUME MonitorsInv PROVE Monitors!MonitorsAreSound
  BY DEF MonitorsInv, Monitors!MonitorsAreSound, Monitors!ReadingsAreTrue,
     Monitors!SleepsBetweenReadings, Told, Rests

(* A reading that a sensor reports as good was measured since it was       *)
(* opened: the wait of 5 ms covers the first result, whatever was          *)
(* configured.  A task that is not measuring has put its sensor to rest,   *)
(* unless a transfer to it failed.                                         *)
THEOREM ReadingsStayTrue ==
  ASSUME ClockIsClose
  PROVE  Spec => []MonitorsAreSound
  <1>1. MonitorsInv => MonitorsAreSound
    BY MonitorsFollow DEF MonitorsAreSound
  <1>2. MonitorsInv /\ [Next]_vars => MonitorsInv'
    <2> SUFFICES ASSUME MonitorsInv, [Next]_vars PROVE MonitorsInv'
      OBVIOUS
    <2>1. [Monitors!Next]_Monitors!vars
      BY OnlyOneMoves DEF monitors, Monitors!vars
    <2> QED
      BY <2>1, MonitorsInvNext
  <1>3. Init => MonitorsInv
    BY MonitorsInvInit, DriversInit
  <1> QED
    BY <1>1, <1>2, <1>3, PTL DEF Spec

-----------------------------------------------------------------------------
(* Messages are some time apart, and their identifiers have a range. *)
Paces == Period \in Nat \ {0} /\ IdentifierRange \in Nat \ {0}

Way == heard_identifiers \o can_fifo \o mailboxes

EchoTypeOK ==
  /\ identifier \in Nat /\ tx_count \in Nat /\ error_count \in Nat /\ rx_count \in Nat
  /\ overruns \in Nat /\ jams \in Nat
  /\ client \in {"transmit", "lit"} /\ client_wait \in Nat /\ server_wait \in 0..Echo!Lit
  /\ mailboxes \in Seq(Nat) /\ can_fifo \in Seq(Nat) /\ heard_identifiers \in Seq(Nat)
  /\ Len(mailboxes) <= Echo!Mailboxes /\ Len(can_fifo) <= Echo!FifoSize

AllCounted ==
  /\ tx_count + error_count = identifier /\ rx_count = Len(heard_identifiers)
  /\ tx_count = Len(heard_identifiers) + Len(can_fifo) + Len(mailboxes) + overruns

(* The identifiers that are left, before the register cut them down: they  *)
(* grow, and what is missing among them was refused or overwritten.        *)
EchoNumbers(way, n, ids, last) ==
  \A i \in 1..n :
    /\ way[i] = (ids[i] % IdentifierRange)
    /\ i <= ids[i] /\ ids[i] <= last /\ n - i <= last - ids[i]
    /\ \A j \in 1..n : i < j => ids[i] < ids[j]
InOrder ==
  \E n \in Nat : /\ n = Len(Way)
                 /\ \E ids \in [1..n -> Nat] : EchoNumbers(Way, n, ids, identifier)

(* Time until the next message is sent. *)
Rest == client_wait + (IF client = "lit" THEN Period ELSE 0)

(* At most four messages wait, and four only behind a jam that has not yet *)
(* cost one; when there is no such jam, or no more room, one of them is    *)
(* received before the next is sent.                                       *)
Waiting == Len(can_fifo) + Len(mailboxes)
RoomIsMade ==
  /\ overruns <= jams /\ Waiting <= 4
  /\ Waiting = 4 => overruns < jams
  /\ Waiting = 4 \/ (Waiting = 3 /\ overruns = jams) => Len(can_fifo) > 0
       /\ server_wait < Rest

EchoInv == EchoTypeOK /\ AllCounted /\ InOrder /\ RoomIsMade

LEMMA EchoInvInit == ASSUME Paces, Echo!Init PROVE EchoInv
  <1>1. /\ heard_identifiers = <<>> /\ can_fifo = <<>> /\ mailboxes = <<>>
        /\ <<>> \in Seq(Nat) /\ Len(<<>>) = 0
    BY DEF Echo!Init
  <1>2. EchoTypeOK /\ AllCounted /\ RoomIsMade
    BY <1>1 DEF Echo!Init, EchoTypeOK, AllCounted, RoomIsMade, Waiting, Echo!Lit,
       Echo!Mailboxes, Echo!FifoSize
  <1>3. Way \in Seq(Nat) /\ Len(Way) = 0
    BY <1>1 DEF Way
  <1>4. InOrder
    <2> DEFINE ids == [i \in 1..0 |-> 0]
    <2>1. ids \in [1..0 -> Nat] /\ EchoNumbers(Way, 0, ids, identifier)
      BY DEF EchoNumbers
    <2> HIDE DEF ids
    <2>2. 0 \in Nat /\ 0 = Len(Way)
      BY <1>3
    <2> QED
      BY <2>1, <2>2, Zenon DEF InOrder
  <1> QED
    BY <1>2, <1>4 DEF EchoInv

LEMMA Joined ==
  ASSUME NEW a \in Seq(Nat), NEW b \in Seq(Nat), NEW c \in Seq(Nat)
  PROVE  /\ a \o b \o c \in Seq(Nat)
         /\ Len(a \o b \o c) = Len(a) + Len(b) + Len(c)
         /\ \A i \in 1..(Len(a) + Len(b) + Len(c)) :
              (a \o b \o c)[i] = IF i <= Len(a) THEN a[i]
                                 ELSE IF i <= Len(a) + Len(b) THEN b[i - Len(a)]
                                 ELSE c[i - (Len(a) + Len(b))]
  <1> DEFINE ab == a \o b
  <1>1. /\ ab \in Seq(Nat) /\ Len(ab) = Len(a) + Len(b)
        /\ \A i \in 1..(Len(a) + Len(b)) : ab[i] = IF i <= Len(a) THEN a[i] ELSE b[i - Len(a)]
    BY ConcatProperties
  <1> HIDE DEF ab
  <1>2. /\ ab \o c \in Seq(Nat) /\ Len(ab \o c) = Len(ab) + Len(c)
        /\ \A i \in 1..(Len(ab) + Len(c)) :
             (ab \o c)[i] = IF i <= Len(ab) THEN ab[i] ELSE c[i - Len(ab)]
    <2>1. ab \in Seq(Nat) /\ c \in Seq(Nat)
      BY <1>1
    <2> QED
      BY <2>1, ConcatProperties, Zenon
  <1>3. PICK x \in Nat, y \in Nat, z \in Nat : x = Len(a) /\ y = Len(b) /\ z = Len(c)
    OBVIOUS
  <1>4. ASSUME NEW i \in 1..(x + y + z)
        PROVE  (ab \o c)[i] = IF i <= x THEN a[i]
                              ELSE IF i <= x + y THEN b[i - x] ELSE c[i - (x + y)]
    <2>1. Len(ab) = x + y
      BY <1>1, <1>3
    <2>2. (ab \o c)[i] = IF i <= x + y THEN ab[i] ELSE c[i - (x + y)]
      BY <1>2, <1>3, <2>1
    <2>3. i \in 1..(x + y) => ab[i] = IF i <= x THEN a[i] ELSE b[i - x]
      BY <1>1, <1>3
    <2> QED
      BY <2>2, <2>3
  <1> QED
    BY <1>1, <1>2, <1>3, <1>4 DEF ab

LEMMA Associates == \A s, t, u \in Seq(Nat) : (s \o t) \o u = s \o (t \o u)
  BY ConcatAssociative

(* The way stays the same when a message moves along it. *)
LEMMA MovesAlong ==
  ASSUME NEW a \in Seq(Nat), NEW b \in Seq(Nat), NEW c \in Seq(Nat)
  PROVE  /\ b # <<>> => Append(a, Head(b)) \o Tail(b) \o c = a \o b \o c
         /\ c # <<>> => a \o Append(b, Head(c)) \o Tail(c) = a \o b \o c
  <1>1. ASSUME NEW s \in Seq(Nat), NEW t \in Seq(Nat), t # <<>>
        PROVE  Append(s, Head(t)) \o Tail(t) = s \o t
    <2> DEFINE one == <<Head(t)>>
               rest == Tail(t)
    <2>1. /\ one \in Seq(Nat) /\ rest \in Seq(Nat)
          /\ Append(s, Head(t)) = s \o one
      BY <1>1, HeadTailProperties, AppendIsConcat
    <2>2. one \o rest = t
      BY <1>1
    <2> HIDE DEF one, rest
    <2>3. (s \o one) \o rest = s \o (one \o rest)
      BY <2>1, Associates
    <2> QED
      BY <2>1, <2>2, <2>3 DEF rest
  <1>2. ASSUME b # <<>> PROVE Append(a, Head(b)) \o Tail(b) \o c = a \o b \o c
    BY <1>1, <1>2
  <1>3. ASSUME c # <<>> PROVE a \o Append(b, Head(c)) \o Tail(c) = a \o b \o c
    <2> DEFINE more == Append(b, Head(c))
               rest == Tail(c)
    <2>1. /\ more \in Seq(Nat) /\ rest \in Seq(Nat)
      BY <1>3, HeadTailProperties, AppendProperties
    <2>2. more \o rest = b \o c
      BY <1>1, <1>3
    <2> HIDE DEF more, rest
    <2>3. a \o more \o rest = a \o (more \o rest)
      BY <2>1, Associates
    <2>4. a \o (b \o c) = a \o b \o c
      BY Associates
    <2>5. a \o more \o rest = a \o b \o c
      BY <2>2, <2>3, <2>4, Zenon
    <2> QED
      BY <2>5 DEF more, rest
  <1> QED
    BY <1>2, <1>3

LEMMA EchoTransmitKeeps ==
  ASSUME EchoInv, Paces, Echo!Transmit
  PROVE  EchoInv'
  <1>1. PICK accepted \in BOOLEAN :
          /\ Echo!transmit(identifier', accepted)
          /\ tx_count' = tx_count + IF accepted THEN 1 ELSE 0
          /\ error_count' = error_count + IF accepted THEN 0 ELSE 1
    BY DEF Echo!Transmit
  <1>2. /\ client = "transmit" /\ client_wait = 0 /\ identifier' = identifier + 1
        /\ client' = "lit" /\ client_wait' = Echo!Lit
        /\ UNCHANGED <<can_fifo, rx_count, server_wait, heard_identifiers, overruns>>
    BY DEF Echo!Transmit, Echo!receiver
  <1> DEFINE id == identifier' % IdentifierRange
  <1>3. id \in Nat
    BY <1>2 DEF EchoInv, EchoTypeOK, Paces
  <1>4. accepted <=> Len(mailboxes) < Echo!Mailboxes
    BY <1>1, Zenon DEF Echo!transmit
  <1>5. /\ mailboxes' = IF accepted THEN Append(mailboxes, id) ELSE mailboxes
        /\ jams' = IF accepted /\ Len(mailboxes) = Echo!Mailboxes - 1 THEN jams + 1 ELSE jams
    BY <1>1 DEF Echo!transmit
  <1> HIDE DEF id
  <1>6. PICK r \in Nat, f \in Nat, m \in Nat :
          r = Len(heard_identifiers) /\ f = Len(can_fifo) /\ m = Len(mailboxes)
    BY DEF EchoInv, EchoTypeOK
  <1>7. /\ mailboxes' \in Seq(Nat)
        /\ Len(mailboxes') = IF accepted THEN m + 1 ELSE m
    BY <1>3, <1>5, <1>6, AppendProperties DEF EchoInv, EchoTypeOK
  <1>8. m <= 3 /\ f <= 3 /\ (accepted <=> m < 3)
    BY <1>4, <1>6 DEF EchoInv, EchoTypeOK, Echo!Mailboxes, Echo!FifoSize
  <1>9. jams' = IF m = 2 THEN jams + 1 ELSE jams
    BY <1>5, <1>6, <1>8 DEF Echo!Mailboxes
  <1>10. EchoTypeOK'
    BY <1>1, <1>2, <1>6, <1>7, <1>8, <1>9 DEF EchoInv, EchoTypeOK, Echo!Mailboxes,
       Echo!FifoSize, Echo!Lit
  <1>11. AllCounted'
    <2>1. tx_count \in Nat /\ error_count \in Nat /\ identifier \in Nat /\ overruns \in Nat
      BY DEF EchoInv, EchoTypeOK
    <2>2. tx_count + error_count = identifier /\ rx_count = r
            /\ tx_count = r + f + m + overruns
      BY <1>6 DEF EchoInv, AllCounted
    <2>3. Len(heard_identifiers') = r /\ Len(can_fifo') = f
      BY <1>2, <1>6
    <2>4. tx_count' = Len(heard_identifiers') + Len(can_fifo') + Len(mailboxes') + overruns'
      BY <1>1, <1>2, <1>7, <2>1, <2>2, <2>3
    <2>5. tx_count' + error_count' = identifier'
      BY <1>1, <1>2, <2>1, <2>2
    <2> QED
      BY <1>2, <2>2, <2>3, <2>4, <2>5 DEF AllCounted
  <1>12. RoomIsMade'
    <2>1. /\ overruns <= jams /\ f + m <= 4 /\ (f + m = 4 => overruns < jams)
          /\ f + m = 4 \/ (f + m = 3 /\ overruns = jams) => FALSE
      BY <1>2, <1>6 DEF EchoInv, EchoTypeOK, RoomIsMade, Waiting, Rest
    <2>2. server_wait < Rest'
      BY <1>2 DEF EchoInv, EchoTypeOK, Rest, Paces, Echo!Lit
    <2>3. /\ Len(can_fifo') = f /\ Len(mailboxes') = (IF m < 3 THEN m + 1 ELSE m)
          /\ server_wait' = server_wait /\ overruns' = overruns
      BY <1>2, <1>6, <1>7, <1>8
    <2>4. overruns \in Nat /\ jams \in Nat
      BY DEF EchoInv, EchoTypeOK
    <2>5. Waiting' = f + (IF m < 3 THEN m + 1 ELSE m)
      BY <2>3 DEF Waiting
    <2> QED
      BY <1>8, <1>9, <2>1, <2>2, <2>3, <2>4, <2>5 DEF RoomIsMade
  <1>13. InOrder'
    <2>1. PICK n \in Nat : n = Len(Way) /\ n = r + f + m
      BY <1>6, Joined DEF Way, EchoInv, EchoTypeOK
    <2>2. PICK ids \in [1..n -> Nat] : EchoNumbers(Way, n, ids, identifier)
      BY <2>1 DEF EchoInv, InOrder
    <2>3. \A i \in 1..n :
            /\ Way[i] = (ids[i] % IdentifierRange)
            /\ i <= ids[i] /\ ids[i] <= identifier /\ n - i <= identifier - ids[i]
            /\ \A j \in 1..n : i < j => ids[i] < ids[j]
      BY <2>1, <2>2 DEF EchoNumbers
    <2>4. identifier \in Nat /\ n <= identifier
      BY <1>6, <2>1 DEF EchoInv, EchoTypeOK, AllCounted
    <2>5. CASE accepted
      <3> DEFINE w == Way'
                 next == [i \in 1..(n + 1) |-> IF i = n + 1 THEN identifier + 1 ELSE ids[i]]
      <3>1. w = Way \o <<id>> /\ w = Append(Way, id)
        <4>1. /\ heard_identifiers \in Seq(Nat) /\ can_fifo \in Seq(Nat)
              /\ mailboxes \in Seq(Nat)
              /\ <<id>> \in Seq(Nat) /\ id \in Nat
          BY <1>3 DEF EchoInv, EchoTypeOK
        <4>2. heard_identifiers \o can_fifo \in Seq(Nat)
                /\ heard_identifiers \o can_fifo \o mailboxes \in Seq(Nat)
          BY <4>1, Joined, ConcatProperties
        <4>3. Append(mailboxes, id) = mailboxes \o <<id>>
          BY <4>1, AppendIsConcat, Zenon
        <4>4. w = heard_identifiers \o can_fifo \o (mailboxes \o <<id>>)
          BY <1>2, <1>5, <2>5, <4>3 DEF Way
        <4>5. ASSUME NEW one \in Seq(Nat)
              PROVE  heard_identifiers \o can_fifo \o (mailboxes \o one) = heard_identifiers \o can_fifo \o mailboxes \o one
          <5>1. ASSUME NEW s \in Seq(Nat), NEW t \in Seq(Nat)
                PROVE  s \o (t \o one) = s \o t \o one
            BY Associates
          <5> QED
            BY <4>1, <4>2, <5>1, Zenon
        <4>6. Append(Way, id) = Way \o <<id>>
          BY <4>1, <4>2, AppendIsConcat, Zenon DEF Way
        <4> QED
          BY <4>1, <4>4, <4>5, <4>6, Zenon DEF Way
      <3>2. Len(w) = n + 1 /\ \A i \in 1..(n + 1) : w[i] = IF i = n + 1 THEN id ELSE Way[i]
        <4>1. Way \in Seq(Nat)
          BY Joined DEF Way, EchoInv, EchoTypeOK
        <4>2. /\ Len(Append(Way, id)) = Len(Way) + 1
              /\ \A i \in 1..Len(Way) + 1 :
                   Append(Way, id)[i] = IF i <= Len(Way) THEN Way[i] ELSE id
          BY <1>3, <4>1, AppendProperties
        <4> HIDE DEF w
        <4> QED
          BY <2>1, <3>1, <4>2
      <3> HIDE DEF w
      <3>3. next \in [1..(n + 1) -> Nat]
        BY <2>4
      <3>4. ASSUME NEW i \in 1..(n + 1)
            PROVE  /\ w[i] = (next[i] % IdentifierRange)
                   /\ i <= next[i] /\ next[i] <= identifier'
                   /\ (n + 1) - i <= identifier' - next[i]
                   /\ \A j \in 1..(n + 1) : i < j => next[i] < next[j]
        <4>1. CASE i = n + 1
          BY <1>2, <2>4, <3>2, <4>1 DEF id
        <4>2. CASE i \in 1..n
          <5>1. next[i] = ids[i] /\ w[i] = Way[i] /\ ids[i] \in Nat
            BY <3>2, <4>2
          <5>2. ASSUME NEW j \in 1..(n + 1), i < j PROVE next[i] < next[j]
            BY <2>3, <2>4, <4>2, <5>1, <5>2
          <5> QED
            BY <1>2, <2>3, <2>4, <4>2, <5>1, <5>2
        <4> QED
          BY <4>1, <4>2
      <3> HIDE DEF next
      <3>5. EchoNumbers(w, n + 1, next, identifier')
        BY <3>4 DEF EchoNumbers
      <3>6. n + 1 \in Nat
        OBVIOUS
      <3> QED
        BY <3>2, <3>3, <3>5, <3>6 DEF InOrder, w
    <2>6. CASE ~accepted
      <3>1. Way' = Way
        BY <1>2, <1>5, <2>6 DEF Way
      <3>2. EchoNumbers(Way, n, ids, identifier')
        <4>1. \A i \in 1..n : /\ ids[i] <= identifier'
                              /\ n - i <= identifier' - ids[i]
          BY <1>2, <2>3, <2>4
        <4> QED
          BY <2>3, <4>1 DEF EchoNumbers
      <3> QED
        BY <2>1, <3>1, <3>2 DEF InOrder
    <2> QED
      BY <2>5, <2>6
  <1> QED
    BY <1>10, <1>11, <1>12, <1>13 DEF EchoInv

LEMMA EchoFrameKeeps ==
  ASSUME EchoInv, Paces, Echo!Frame
  PROVE  EchoInv'
  <1>1. PICK r \in Nat, f \in Nat, m \in Nat :
          r = Len(heard_identifiers) /\ f = Len(can_fifo) /\ m = Len(mailboxes)
    BY DEF EchoInv, EchoTypeOK
  <1>2. /\ UNCHANGED <<identifier, tx_count, error_count, client, client_wait, rx_count,
                       server_wait, heard_identifiers, jams>>
        /\ mailboxes # <<>> /\ mailboxes' = Tail(mailboxes)
    BY DEF Echo!Frame, Echo!sender, Echo!receiver
  <1> DEFINE next == Head(mailboxes)
  <1>3. /\ next \in Nat /\ mailboxes' \in Seq(Nat) /\ Len(mailboxes') = m - 1 /\ m > 0
        /\ \A i \in 1..(m - 1) : mailboxes'[i] = mailboxes[i + 1]
    BY <1>1, <1>2, HeadTailProperties DEF EchoInv, EchoTypeOK
  <1>4. /\ can_fifo' = IF f < 3 THEN Append(can_fifo,
             next) ELSE [can_fifo EXCEPT ![3] = next]
        /\ overruns' = overruns + IF f < 3 THEN 0 ELSE 1
    BY <1>1 DEF Echo!Frame, Echo!FifoSize
  <1> HIDE DEF next
  <1>5. m <= 3 /\ f <= 3
    BY <1>1 DEF EchoInv, EchoTypeOK, Echo!Mailboxes, Echo!FifoSize
  <1>6. /\ can_fifo' \in Seq(Nat) /\ Len(can_fifo') = IF f < 3 THEN f + 1 ELSE f
        /\ f = 3 => \A i \in 1..3 : can_fifo'[i] = IF i = 3 THEN next ELSE can_fifo[i]
    <2>1. CASE f < 3
      BY <1>1, <1>3, <1>4, <2>1, AppendProperties DEF EchoInv, EchoTypeOK
    <2>2. CASE f = 3
      <3>1. can_fifo \in Seq(Nat) /\ 3 \in 1..Len(can_fifo) /\ Len(can_fifo) = 3
        BY <1>1, <2>2 DEF EchoInv, EchoTypeOK
      <3>2. can_fifo' = [can_fifo EXCEPT ![3] = next]
        BY <1>4, <2>2
      <3>3. /\ can_fifo' \in Seq(Nat) /\ Len(can_fifo') = Len(can_fifo)
            /\ \A i \in 1..Len(can_fifo) : can_fifo'[i] = IF i = 3 THEN next ELSE can_fifo[i]
        <4>1. ASSUME NEW s \in Seq(Nat), NEW e \in Nat, NEW k \in 1..Len(s)
              PROVE  /\ [s EXCEPT ![k] = e] \in Seq(Nat) /\ Len([s EXCEPT ![k] = e]) = Len(s)
                     /\ \A i \in 1..Len(s) : [s EXCEPT ![k] = e][i] = IF i = k THEN e ELSE s[i]
          BY ExceptSeq
        <4>2. next \in Nat
          BY <1>3
        <4>3. can_fifo' \in Seq(Nat)
          BY <3>1, <3>2, <4>1, <4>2
        <4>4. Len(can_fifo') = Len(can_fifo)
          BY <3>1, <3>2, <4>1, <4>2
        <4>5. \A i \in 1..Len(can_fifo) : can_fifo'[i] = IF i = 3 THEN next ELSE can_fifo[i]
          BY <3>1, <3>2, <4>1, <4>2
        <4> QED
          BY <4>3, <4>4, <4>5
      <3> QED
        BY <2>2, <3>1, <3>3
    <2> QED
      BY <1>5, <2>1, <2>2
  <1>7. overruns \in Nat /\ jams \in Nat
    BY DEF EchoInv, EchoTypeOK
  <1>8. EchoTypeOK'
    <2>1. Len(can_fifo') <= 3 /\ Len(mailboxes') <= 3
      BY <1>3, <1>5, <1>6
    <2>2. overruns' \in Nat
      BY <1>4, <1>7
    <2> QED
      BY <1>2, <1>3, <1>6, <2>1, <2>2 DEF EchoInv, EchoTypeOK, Echo!Mailboxes, Echo!FifoSize
  <1>9. AllCounted'
    <2>1. tx_count = r + f + m + overruns /\ tx_count \in Nat
      BY <1>1 DEF EchoInv, EchoTypeOK, AllCounted
    <2>2. Len(heard_identifiers') = r
      BY <1>1, <1>2
    <2> DEFINE more == IF f < 3 THEN f + 1 ELSE f
    <2>4. tx_count' = r + more + (m - 1) + overruns'
      BY <1>2, <1>4, <1>5, <1>7, <2>1
    <2>5. Len(can_fifo') = more /\ Len(mailboxes') = m - 1
      BY <1>3, <1>6
    <2> HIDE DEF more
    <2>3. tx_count' = Len(heard_identifiers') + Len(can_fifo') + Len(mailboxes') + overruns'
      BY <2>2, <2>4, <2>5
    <2> QED
      BY <1>2, <2>3 DEF EchoInv, AllCounted
  <1>10. RoomIsMade'
    <2>1. /\ overruns <= jams /\ f + m <= 4 /\ (f + m = 4 => overruns < jams)
          /\ f + m = 4 \/ (f + m = 3 /\ overruns = jams) => server_wait < Rest
      BY <1>1 DEF EchoInv, RoomIsMade, Waiting
    <2>2. Rest' = Rest
      BY <1>2 DEF Rest
    <2>3. Waiting' = (IF f < 3 THEN f + 1 ELSE f) + (m - 1)
      BY <1>3, <1>6 DEF Waiting
    <2>4. Len(can_fifo') > 0
      BY <1>5, <1>6
    <2> QED
      BY <1>2, <1>3, <1>4, <1>5, <1>7, <2>1, <2>2, <2>3, <2>4 DEF RoomIsMade
  <1>11. InOrder'
    <2>1. CASE f < 3
      <3>1. Way' = Way
        BY <1>2, <1>4, <2>1, MovesAlong DEF Way, EchoInv, EchoTypeOK, next
      <3> QED
        BY <1>2, <3>1 DEF EchoInv, InOrder
    <2>2. CASE f = 3
      <3>1. PICK n \in Nat : n = Len(Way) /\ n = r + f + m
        BY <1>1, Joined DEF Way, EchoInv, EchoTypeOK
      <3>2. PICK ids \in [1..n -> Nat] : EchoNumbers(Way, n, ids, identifier)
        BY <3>1 DEF EchoInv, InOrder
      <3> DEFINE w == Way'
                 kept == [i \in 1..(n - 1) |-> IF i < r + 3 THEN ids[i] ELSE ids[i + 1]]
      <3>3. \A i \in 1..n : Way[i] = IF i <= r THEN heard_identifiers[i]
                                   ELSE IF i <= r + f THEN can_fifo[i - r]
                                   ELSE mailboxes[i - (r + f)]
        BY <1>1, <3>1, Joined DEF Way, EchoInv, EchoTypeOK
      <3>4. /\ Len(w) = r + 3 + (m - 1)
            /\ \A i \in 1..(r + 3 + (m - 1)) :
                 w[i] = IF i <= r THEN heard_identifiers[i]
                        ELSE IF i <= r + 3 THEN can_fifo'[i - r]
                        ELSE mailboxes'[i - (r + 3)]
        <4>1. /\ heard_identifiers \in Seq(Nat) /\ can_fifo' \in Seq(Nat)
              /\ mailboxes' \in Seq(Nat)
              /\ Len(heard_identifiers) = r /\ Len(can_fifo') = 3 /\ Len(mailboxes') = m - 1
          BY <1>1, <1>3, <1>6, <2>2 DEF EchoInv, EchoTypeOK
        <4>2. w = heard_identifiers \o can_fifo' \o mailboxes'
          BY <1>2 DEF Way
        <4> DEFINE ff == can_fifo'
                   mm == mailboxes'
        <4> HIDE DEF w, ff, mm
        <4>3. /\ Len(heard_identifiers \o ff \o mm) = Len(heard_identifiers) + Len(ff) + Len(mm)
              /\ \A i \in 1..(Len(heard_identifiers) + Len(ff) + Len(mm)) :
                   (heard_identifiers \o ff \o mm)[i] = IF i <= Len(heard_identifiers) THEN heard_identifiers[i]
                                 ELSE IF i <= Len(heard_identifiers) + Len(ff) THEN ff[i - Len(heard_identifiers)]
                                 ELSE mm[i - (Len(heard_identifiers) + Len(ff))]
          <5>1. ff \in Seq(Nat) /\ mm \in Seq(Nat) /\ heard_identifiers \in Seq(Nat)
            BY <4>1 DEF ff, mm
          <5> QED
            BY <5>1, Joined
        <4>4. w = heard_identifiers \o ff \o mm /\ Len(ff) = 3 /\ Len(mm) = m - 1
          BY <4>1, <4>2 DEF ff, mm
        <4>5. Len(w) = r + 3 + (m - 1)
          BY <4>1, <4>3, <4>4
        <4>6. \A i \in 1..(r + 3 + (m - 1)) :
                 w[i] = IF i <= r THEN heard_identifiers[i]
                        ELSE IF i <= r + 3 THEN ff[i - r] ELSE mm[i - (r + 3)]
          BY <4>1, <4>3, <4>4
        <4> QED
          BY <4>5, <4>6 DEF ff, mm
      <3> HIDE DEF w
      <3>5. \A i \in 1..(n - 1) : w[i] = IF i < r + 3 THEN Way[i] ELSE Way[i + 1]
        <4> SUFFICES ASSUME NEW i \in 1..(n - 1)
                     PROVE  w[i] = IF i < r + 3 THEN Way[i] ELSE Way[i + 1]
          OBVIOUS
        <4>1. CASE i < r + 3
          <5>1. i \in 1..n /\ i \in 1..(r + 3 + (m - 1))
            BY <2>2, <3>1
          <5>2. CASE i <= r
            BY <3>3, <3>4, <5>1, <5>2, <4>1
          <5>3. CASE i > r
            <6>1. i - r \in 1..3 /\ i - r # 3 /\ ~(i <= r) /\ i <= r + 3 /\ i <= r + f
              BY <2>2, <4>1, <5>3
            <6>2. w[i] = can_fifo'[i - r] /\ Way[i] = can_fifo[i - r]
              BY <3>3, <3>4, <5>1, <6>1
            <6>3. can_fifo'[i - r] = can_fifo[i - r]
              BY <1>6, <2>2, <6>1
            <6> QED
              BY <4>1, <6>2, <6>3
          <5> QED
            BY <5>2, <5>3
        <4>2. CASE i = r + 3
          <5>4. i - r = 3 /\ ~(i <= r) /\ i <= r + 3
            BY <4>2
          <5>5. i \in 1..(r + 3 + (m - 1))
            BY <2>2, <3>1
          <5>6. w[i] = can_fifo'[i - r]
            BY <3>4, <5>4, <5>5
          <5>1. w[i] = next
            BY <1>6, <2>2, <5>4, <5>6
          <5>2. Way[i + 1] = mailboxes[1]
            BY <2>2, <3>1, <3>3, <4>2
          <5>3. mailboxes[1] = next
            BY <1>2 DEF next, EchoInv, EchoTypeOK
          <5> QED
            BY <4>2, <5>1, <5>2, <5>3
        <4>3. CASE i > r + 3
          BY <1>3, <2>2, <3>1, <3>3, <3>4, <4>3
        <4> QED
          BY <4>1, <4>2, <4>3
      <3>6. \A i \in 1..n :
              /\ Way[i] = (ids[i] % IdentifierRange) /\ ids[i] \in Nat
              /\ i <= ids[i] /\ ids[i] <= identifier /\ n - i <= identifier - ids[i]
              /\ \A j \in 1..n : i < j => ids[i] < ids[j]
        BY <3>2 DEF EchoNumbers
      <3>7. kept \in [1..(n - 1) -> Nat]
        BY <3>1
      <3>8. identifier \in Nat
        BY DEF EchoInv, EchoTypeOK
      <3>9. ASSUME NEW i \in 1..(n - 1)
            PROVE  /\ w[i] = (kept[i] % IdentifierRange)
                   /\ i <= kept[i] /\ kept[i] <= identifier
                   /\ (n - 1) - i <= identifier - kept[i]
                   /\ \A j \in 1..(n - 1) : i < j => kept[i] < kept[j]
        <4>1. i \in 1..n /\ i + 1 \in 1..n
          OBVIOUS
        <4>2. CASE i < r + 3
          <5>1. kept[i] = ids[i] /\ w[i] = Way[i]
            BY <3>5, <4>2
          <5>2. ASSUME NEW j \in 1..(n - 1), i < j PROVE kept[i] < kept[j]
            <6>1. kept[j] = ids[j] \/ kept[j] = ids[j + 1]
              OBVIOUS
            <6>2. j \in 1..n /\ j + 1 \in 1..n
              OBVIOUS
            <6> HIDE DEF kept
            <6> QED
              BY <3>6, <4>1, <5>1, <5>2, <6>1, <6>2
          <5> HIDE DEF kept
          <5> QED
            BY <3>6, <3>8, <4>1, <5>1, <5>2
        <4>3. CASE i >= r + 3
          <5>1. kept[i] = ids[i + 1] /\ w[i] = Way[i + 1]
            BY <3>5, <4>3
          <5>2. ASSUME NEW j \in 1..(n - 1), i < j PROVE kept[i] < kept[j]
            <6>1. kept[j] = ids[j + 1]
              BY <4>3, <5>2
            <6>2. j + 1 \in 1..n
              OBVIOUS
            <6> HIDE DEF kept
            <6> QED
              BY <3>6, <4>1, <5>1, <5>2, <6>1, <6>2
          <5> HIDE DEF kept
          <5> QED
            BY <3>6, <3>8, <4>1, <5>1, <5>2
        <4> QED
          BY <4>2, <4>3
      <3> HIDE DEF kept
      <3>10. EchoNumbers(w, n - 1, kept, identifier')
        BY <1>2, <3>9 DEF EchoNumbers
      <3>11. n - 1 \in Nat /\ n - 1 = Len(w)
        BY <1>3, <2>2, <3>1, <3>4
      <3> QED
        BY <3>7, <3>10, <3>11 DEF InOrder, w
    <2> QED
      BY <1>5, <2>1, <2>2
  <1> QED
    BY <1>8, <1>9, <1>10, <1>11 DEF EchoInv

LEMMA EchoReceiveKeeps ==
  ASSUME EchoInv, Paces, Echo!Receive
  PROVE  EchoInv'
  <1>1. PICK r \in Nat, f \in Nat, m \in Nat :
          r = Len(heard_identifiers) /\ f = Len(can_fifo) /\ m = Len(mailboxes)
    BY DEF EchoInv, EchoTypeOK
  <1>2. /\ UNCHANGED <<identifier, tx_count, error_count, client, client_wait, mailboxes,
                       overruns, jams>>
        /\ can_fifo # <<>> /\ can_fifo' = Tail(can_fifo)
        /\ heard_identifiers' = Append(heard_identifiers, Head(can_fifo))
        /\ rx_count' = rx_count + 1 /\ server_wait' = 2
    BY DEF Echo!Receive, Echo!sender, Echo!available_message_count, Echo!Lit, EchoInv,
       EchoTypeOK
  <1>3. /\ can_fifo' \in Seq(Nat) /\ Len(can_fifo') = f - 1 /\ f > 0
        /\ heard_identifiers' \in Seq(Nat) /\ Len(heard_identifiers') = r + 1
    BY <1>1, <1>2, HeadTailProperties, AppendProperties DEF EchoInv, EchoTypeOK
  <1>4. EchoTypeOK'
    BY <1>1, <1>2, <1>3 DEF EchoInv, EchoTypeOK, Echo!Mailboxes, Echo!FifoSize, Echo!Lit
  <1>5. AllCounted'
    <2>1. tx_count = r + f + m + overruns /\ tx_count \in Nat /\ rx_count = r
            /\ overruns \in Nat
      BY <1>1 DEF EchoInv, EchoTypeOK, AllCounted
    <2>2. Len(mailboxes') = m
      BY <1>1, <1>2
    <2>4. tx_count' = (r + 1) + (f - 1) + m + overruns'
      BY <1>2, <2>1
    <2>3. tx_count' = Len(heard_identifiers') + Len(can_fifo') + Len(mailboxes') + overruns'
      BY <1>3, <2>2, <2>4
    <2> QED
      BY <1>2, <1>3, <2>1, <2>3 DEF EchoInv, AllCounted
  <1>6. RoomIsMade'
    <2>1. /\ overruns <= jams /\ f + m <= 4 /\ (f + m = 4 => overruns < jams)
      BY <1>1 DEF EchoInv, RoomIsMade, Waiting
    <2>2. Waiting' = f + m - 1
      BY <1>1, <1>2, <1>3 DEF Waiting
    <2>3. overruns \in Nat /\ jams \in Nat
      BY DEF EchoInv, EchoTypeOK
    <2>4. Waiting' = 3 => overruns' < jams'
      BY <1>1, <1>2, <2>1, <2>2
    <2> QED
      BY <1>1, <1>2, <2>1, <2>2, <2>3, <2>4 DEF RoomIsMade
  <1>7. InOrder'
    <2>1. Way' = Way
      BY <1>2, MovesAlong DEF Way, EchoInv, EchoTypeOK
    <2> QED
      BY <1>2, <2>1 DEF EchoInv, InOrder
  <1> QED
    BY <1>4, <1>5, <1>6, <1>7 DEF EchoInv

LEMMA EchoPauseKeeps ==
  ASSUME EchoInv, Paces, Echo!Poll \/ Echo!Pause \/ Echo!Tick
  PROVE  EchoInv'
  <1>1. /\ UNCHANGED <<identifier, tx_count, error_count, mailboxes, can_fifo, rx_count,
                       heard_identifiers, overruns, jams>>
    BY DEF Echo!Poll, Echo!Pause, Echo!Tick, Echo!sender, Echo!receiver
  <1>2. AllCounted' /\ InOrder'
    BY <1>1 DEF EchoInv, AllCounted, InOrder, Way
  <1>3. Period \in Nat
    BY DEF Paces
  <1>4. EchoTypeOK'
    BY <1>1, <1>3 DEF EchoInv, EchoTypeOK, Echo!Poll, Echo!Pause, Echo!Tick, Echo!Less,
       Echo!Lit, Echo!receiver, Echo!sender
  <1>5. RoomIsMade'
    <2>1. Waiting' = Waiting /\ Len(can_fifo') = Len(can_fifo)
      BY <1>1 DEF Waiting
    <2>2. Len(can_fifo) > 0 /\ server_wait < Rest => server_wait' < Rest'
      <3>1. CASE Echo!Poll
        BY <3>1 DEF Echo!Poll, Echo!available_message_count
      <3>2. CASE Echo!Pause
        <4>1. /\ client = "lit" /\ client_wait = 0 /\ client' = "transmit"
              /\ client_wait' = Period /\ server_wait' = server_wait
          BY <3>2 DEF Echo!Pause, Echo!receiver
        <4> QED
          BY <1>3, <4>1 DEF Rest
      <3>3. CASE Echo!Tick
        <4>1. /\ client_wait > 0 /\ server_wait > 0 /\ client' = client
              /\ client_wait' = client_wait - 1 /\ server_wait' = server_wait - 1
          BY <3>3 DEF Echo!Tick, Echo!Less, EchoInv, EchoTypeOK, Echo!Lit
        <4>2. client_wait \in Nat /\ server_wait \in Nat
          BY DEF EchoInv, EchoTypeOK, Echo!Lit
        <4> QED
          BY <1>3, <4>1, <4>2 DEF Rest
      <3> QED
        BY <3>1, <3>2, <3>3
    <2> QED
      BY <1>1, <2>1, <2>2 DEF EchoInv, RoomIsMade
  <1> QED
    BY <1>2, <1>4, <1>5 DEF EchoInv

LEMMA EchoInvNext ==
  ASSUME EchoInv, Paces, [Echo!Next]_Echo!vars
  PROVE  EchoInv'
  <1>1. CASE Echo!Next
    BY <1>1, EchoTransmitKeeps, EchoFrameKeeps, EchoReceiveKeeps,
       EchoPauseKeeps DEF Echo!Next
  <1>2. CASE UNCHANGED Echo!vars
    BY <1>2 DEF Echo!vars, Echo!sender, Echo!receiver, EchoInv, EchoTypeOK, AllCounted,
       InOrder, Way,
       RoomIsMade, Waiting, Rest
  <1> QED
    BY <1>1, <1>2

LEMMA Divided ==
  ASSUME NEW d \in Nat \ {0}, NEW x \in Int
  PROVE  /\ (x % d) \in 0..(d - 1) /\ (x \div d) \in Int
         /\ x = d * (x \div d) + (x % d)
  BY SMT
LEMMA OneRemainder ==
  ASSUME NEW k \in Nat \ {0}, NEW a \in 0..(k-1), NEW q \in Int, NEW b \in 0..(k-1),
           NEW p \in Int, k*q + a = k*p+b
  PROVE a = b
  <1>1. k*(q-p) = b - a
    <2>1. k*(q-p) = k*q - k*p
     BY SMT
    <2> QED BY <2>1
  <1> DEFINE z == q - p
  <1>2. z \in Int
    OBVIOUS
  <1>3. k * z = b - a
    BY <1>1
  <1> HIDE DEF z
  <1>5. CASE z <= -1
    <2>1. k*z <= -k
      BY <1>2, <1>5, SMT
    <2> QED BY <2>1, <1>3
  <1>6. CASE z >= 1
    <2>1. k*z >= k
      BY <1>2, <1>6, SMT
    <2> QED BY <2>1, <1>3
  <1>7. CASE z = 0
    BY <1>3, <1>7
  <1> QED BY <1>2, <1>5, <1>6, <1>7
(* Remainders are as far apart as the numbers, around the range. *)
LEMMA GapWraps ==
  ASSUME NEW y \in Nat, NEW x \in Nat, NEW k \in Nat \ {0}
  PROVE  (((y % k) + k - (x % k)) % k) = ((y - x) % k)
  <1> DEFINE a == y % k  b == x % k  z == a + k - b  d == y - x
             p == y \div k  q == x \div k  s == z \div k  t == d \div k
  <1>1. /\ y = k * p + a /\ x = k * q + b /\ a \in Int /\ b \in Int /\ p \in Int
        /\ q \in Int
    BY Divided
  <1>2. z \in Int /\ d \in Int
    BY <1>1
  <1> HIDE DEF z, d
  <1>3. /\ z = k * s + (z % k) /\ d = k * t + (d % k) /\ s \in Int /\ t \in Int
        /\ (z % k) \in 0..(k-1) /\ (d % k) \in 0..(k-1)
    BY <1>2, Divided
  <1> HIDE DEF a, b, p, q, s, t
  <1>4. d = k*p - k*q + a - b /\ z = a + k - b
    BY <1>1 DEF d, z, a, b
  <1> DEFINE u == p - q - 1
  <1>5. u \in Int /\ k*u = k*p - k*q - k
    BY <1>1, SMT
  <1> HIDE DEF u
  <1>6. d = k*u + z
    BY <1>1, <1>4, <1>5
  <1> DEFINE v == u + s
  <1>7. v \in Int /\ k*v = k*u + k*s
    BY <1>5, <1>3, SMT
  <1> HIDE DEF v
  <1> DEFINE zr == z % k  dr == d % k
  <1>8. k*t + dr = k*v + zr /\ zr \in 0..(k-1) /\ dr \in 0..(k-1)
    <2>1. zr \in 0..(k-1) /\ dr \in 0..(k-1) /\ d = k * t + dr /\ z = k * s + zr
      BY <1>3
    <2>2. k*t \in Int /\ k*s \in Int /\ k*u \in Int /\ k*v \in Int
      BY <1>3, <1>5, <1>7
    <2> HIDE DEF zr, dr
    <2> QED
      BY <2>1, <2>2, <1>6, <1>7
  <1> HIDE DEF zr, dr
  <1>9. zr = dr
    BY <1>8, <1>7, <1>3, OneRemainder
  <1> QED BY <1>9 DEF zr, dr, z, d, a, b
(* Between two that follow each other nothing is missing but what was      *)
(* counted.                                                                *)
LEMMA EchoFollows == ASSUME EchoInv, Paces PROVE Echo!EchoesAddUp
  <1>1. PICK r \in Nat, f \in Nat, m \in Nat :
          r = Len(heard_identifiers) /\ f = Len(can_fifo) /\ m = Len(mailboxes)
    BY DEF EchoInv, EchoTypeOK
  <1>2. PICK n \in Nat : n = Len(Way) /\ n = r + f + m
    BY <1>1, Joined DEF Way, EchoInv, EchoTypeOK
  <1>3. PICK ids \in [1..n -> Nat] : EchoNumbers(Way, n, ids, identifier)
    BY <1>2 DEF EchoInv, InOrder
  <1>4. /\ tx_count + error_count = identifier /\ rx_count = Len(heard_identifiers)
        /\ tx_count = n + overruns /\ overruns <= jams
        /\ identifier \in Nat /\ error_count \in Nat /\ overruns \in Nat /\ tx_count \in Nat
    BY <1>1, <1>2 DEF EchoInv, EchoTypeOK, AllCounted, RoomIsMade
  <1>5. ASSUME NEW i \in 1..(n - 1)
        PROVE  ((Way[i + 1] + IdentifierRange - Way[i]) % IdentifierRange)
                 \in {d % IdentifierRange : d \in 1..(1 + error_count + overruns)}
    <2> DEFINE d == ids[i + 1] - ids[i]
    <2>1. /\ Way[i] = (ids[i] % IdentifierRange)
          /\ Way[i + 1] = (ids[i + 1] % IdentifierRange)
          /\ ids[i] \in Nat /\ ids[i + 1] \in Nat
          /\ i <= ids[i] /\ n - (i + 1) <= identifier - ids[i + 1] /\ ids[i] < ids[i + 1]
      BY <1>3 DEF EchoNumbers
    <2>2. d \in 1..(1 + error_count + overruns)
      BY <1>4, <2>1
    <2>3. IdentifierRange \in Nat \ {0}
      BY DEF Paces
    <2>4. ((((ids[i + 1] % IdentifierRange) + IdentifierRange - (ids[i] % IdentifierRange))
             % IdentifierRange) = ((ids[i + 1] - ids[i]) % IdentifierRange))
      BY <2>1, <2>3, GapWraps
    <2>5. ((Way[i + 1] + IdentifierRange - Way[i]) % IdentifierRange) = (d % IdentifierRange)
      BY <2>1, <2>4, Zenon
    <2> QED
      BY <2>2, <2>5
  <1>6. Way = heard_identifiers \o can_fifo \o mailboxes
    BY DEF Way
  <1> QED
    BY <1>2, <1>4, <1>5, <1>6 DEF Echo!EchoesAddUp

(* What the two boards count adds up to the messages that were asked for,  *)
(* and what is missing between two that arrive was refused or overwritten, *)
(* and counted.                                                            *)
THEOREM EchoesStayCounted ==
  ASSUME Paces
  PROVE  Spec => []EchoesAddUp
  <1>1. EchoInv => EchoesAddUp
    BY EchoFollows DEF EchoesAddUp
  <1>2. EchoInv /\ [Next]_vars => EchoInv'
    <2> SUFFICES ASSUME EchoInv, [Next]_vars PROVE EchoInv'
      OBVIOUS
    <2>1. [Echo!Next]_Echo!vars
      BY OnlyOneMoves DEF echo, Echo!vars, Echo!sender, Echo!receiver
    <2> QED
      BY <2>1, EchoInvNext
  <1>3. Init => EchoInv
    BY EchoInvInit, DriversInit
  <1> QED
    BY <1>1, <1>2, <1>3, PTL DEF Spec

-----------------------------------------------------------------------------
(* The power is on from before it settles until the result is in; what the *)
(* DMA controller leaves is a reading of the settled voltage.              *)
AdcInv ==
  /\ IF at = "start" THEN board_id = BoardId!UNKNOWN ELSE board \in BoardId!Boards
  /\ at \in {"settle", "wait"} => powered
  /\ at = "wait" => settled /\ (dma_complete => memory \in board.samples)
  /\ adc = "converting" => at = "wait"
  /\ BoardId!BoardIsRecognized

LEMMA AdcInvInit == ASSUME BoardId!Init PROVE AdcInv
  BY DEF BoardId!Init, AdcInv, BoardId!BoardIsRecognized, BoardId!Board

LEMMA AdcInvNext == ASSUME AdcInv, [BoardId!Next]_BoardId!vars PROVE AdcInv'
  <1>1. ASSUME NEW b \in BoardId!Boards, NEW p, BoardId!PowerUp(b, p) PROVE AdcInv'
    BY <1>1 DEF BoardId!PowerUp, BoardId!analog, AdcInv, BoardId!BoardIsRecognized
  <1>2. ASSUME BoardId!Access \/ BoardId!Calibrate \/ BoardId!SkipCalibration
                 \/ BoardId!TurnOnPower PROVE AdcInv'
    BY <1>2 DEF BoardId!Access, BoardId!Calibrate, BoardId!SkipCalibration,
       BoardId!TurnOnPower, BoardId!analog, AdcInv,
       BoardId!BoardIsRecognized
  <1>3. ASSUME BoardId!StartSingleConversion PROVE AdcInv'
    BY <1>3 DEF BoardId!StartSingleConversion, BoardId!Waited, AdcInv,
       BoardId!BoardIsRecognized
  <1>4. ASSUME BoardId!Finish PROVE AdcInv'
    BY <1>4, BoardsAssumption DEF BoardId!Finish, BoardId!Poll, AdcInv,
       BoardId!BoardIsRecognized
  <1>5. ASSUME NEW v, BoardId!MeasureValue(v) PROVE AdcInv'
    BY <1>5, BoardsAssumption DEF BoardId!MeasureValue, BoardId!Waited, BoardId!Sample,
       AdcInv, BoardId!BoardIsRecognized
  <1>6. ASSUME BoardId!NextIteration \/ BoardId!Settle \/ BoardId!TransferError
        PROVE AdcInv'
    BY <1>6 DEF BoardId!NextIteration, BoardId!Waited, BoardId!Settle,
       BoardId!TransferError, BoardId!analog, AdcInv,
       BoardId!BoardIsRecognized
  <1>7. ASSUME NEW v, BoardId!TransferComplete(v) PROVE AdcInv'
    BY <1>7 DEF BoardId!TransferComplete, BoardId!Sample, AdcInv, BoardId!BoardIsRecognized
  <1>8. ASSUME UNCHANGED BoardId!vars PROVE AdcInv'
    BY <1>8 DEF BoardId!vars, AdcInv, BoardId!BoardIsRecognized
  <1> QED
    BY <1>1, <1>2, <1>3, <1>4, <1>5, <1>6, <1>7, <1>8 DEF BoardId!Next, BoardId!Program,
       BoardId!Hardware

(* The channels of the DAC are numbered from 0; adc_demo uses the first. *)
ChannelsAssumed == Channels \subseteq Nat /\ 0 \in Channels

AnalogTypeOK ==
  /\ value_index \in [Channels -> 1..30]
  /\ dac \in [Channels -> [align : {"8R", "12R", "12L"}, bits : Nat, data : Nat]]
  /\ ordered \in [Channels -> [value : Nat, bits : Nat]]
  /\ started \in [Channels -> BOOLEAN]
  /\ value_at \in 1..11 /\ adc_bits = 12
  /\ current_output_value \in Nat /\ current_output_value <= 4096

(* What a channel puts out is what it was asked for, limited to the scale. *)
Faithful(d, o) ==
  \/ d.align = "8R" /\ o.bits = 8 /\ d.data = Analog!MinOf(o.value, 255)
  \/ d.align = "12R" /\ o.bits = 12 /\ d.data = Analog!MinOf(o.value, 4095)
  \/ d.align = "12L" /\ o.bits = 16 /\ d.data = Analog!MinOf(o.value, 65535)

Showing == \A c \in Channels : started[c] => Faithful(dac[c], ordered[c])

InTheLoop ==
  /\ point # "access" => demo = "adc"
  /\ demo = "adc" => holding = {} /\ dac[0].align = "12R" /\ dac[0].bits = 12
  /\ demo # "adc" => adc_state # "converting"
  /\ adc_state = "converting" => point = "wait"
  /\ point \in {"start", "wait"} =>
       started[0] /\ ordered[0].bits = 12 /\ ordered[0].value = current_output_value
  /\ point = "wait" /\ dma_done =>
       reading \in Nat /\ Analog!Distance(Analog!MinOf(current_output_value, 4095),
         reading) <= 1
  /\ verdict # "failure"

AnalogInv == AnalogTypeOK /\ Showing /\ InTheLoop

LEMMA AllValuesAre == Len(Analog!AllValues) = 30
  /\ \A i \in 1..30 : Analog!AllValues[i] \in Nat
  <1> DEFINE a == Analog!dac_8bit_values
             b == Analog!dac_12bit_values
             c == Analog!dac_16bit_values
  <1>1. a \in Seq(Nat) /\ Len(a) = 10
    BY DEF Analog!dac_8bit_values
  <1>2. b \in Seq(Nat) /\ Len(b) = 10
    BY DEF Analog!dac_12bit_values
  <1>3. c \in Seq(Nat) /\ Len(c) = 10
    BY DEF Analog!dac_16bit_values
  <1>4. Analog!AllValues = (a \o b) \o c
    BY DEF Analog!AllValues
  <1> HIDE DEF a, b, c
  <1>5. a \o b \in Seq(Nat) /\ Len(a \o b) = Len(a) + Len(b)
    BY <1>1, <1>2, ConcatProperties
  <1>6. Analog!AllValues \in Seq(Nat) /\ Len(Analog!AllValues) = Len(a \o b) + Len(c)
    BY <1>3, <1>4, <1>5, ConcatProperties
  <1>7. Len(Analog!AllValues) = 30
    BY <1>1, <1>2, <1>3, <1>5, <1>6
  <1> QED
    BY <1>6, <1>7, ElementOfSeq

LEMMA Alignments ==
  /\ Analog!Alignment(8) = [align |-> "8R", bits |-> 8]
  /\ Analog!Alignment(12) = [align |-> "12R", bits |-> 12]
  /\ Analog!Alignment(16) = [align |-> "12L", bits |-> 16]
  /\ Analog!AdcResolution(12) = 12
  BY DEF Analog!Alignment, Analog!AdcResolution, Analog!MinOf

LEMMA MinOfIs ==
  ASSUME NEW v \in Nat
  PROVE  /\ Analog!MinOf(v, 255) \in Nat /\ Analog!MinOf(v, 255) <= 255
         /\ Analog!MinOf(v, 4095) \in Nat /\ Analog!MinOf(v, 4095) <= 4095
         /\ Analog!MinOf(v, 65535) \in Nat /\ Analog!MinOf(v, 65535) <= 65535
  BY DEF Analog!MinOf

LEMMA Remainder == ASSUME NEW n \in Nat, NEW m \in Nat, n < m PROVE (n % m) = n
  OBVIOUS

LEMMA Registers ==
  ASSUME NEW n \in Nat
  PROVE  /\ n <= 255 => Analog!Register("8R", n) = n
         /\ n <= 4095 => Analog!Register("12R", n) = n
         /\ n <= 65535 => Analog!Register("12L", n) = n
  <1>1. (n <= 255 => (n % 256) = n) /\ (n <= 4095 => (n % 4096) = n) /\ (n <= 65535
          => (n % 65536) = n)
    BY Remainder
  <1>2. Analog!Register("8R", n) = (n % 256) /\ Analog!Register("12R", n) = (n % 4096)
        /\ Analog!Register("12L", n) = (n % 65536)
    BY DEF Analog!Register
  <1> QED
    BY <1>1, <1>2

LEMMA SetValueIsFaithful ==
  ASSUME ChannelsAssumed, AnalogTypeOK, Showing, NEW c \in Channels, NEW v \in Nat,
         NEW a \in {Analog!Alignment(8), Analog!Alignment(12), Analog!Alignment(16)},
           Analog!SetValue(c, a, v)
  PROVE  /\ dac' \in [Channels -> [align : {"8R", "12R", "12L"}, bits : Nat, data : Nat]]
         /\ ordered' \in [Channels -> [value : Nat, bits : Nat]]
         /\ started' \in [Channels -> BOOLEAN]
         /\ Showing'
         /\ dac'[c].align = a.align /\ dac'[c].bits = a.bits
         /\ started'[c] /\ ordered'[c].value = v /\ ordered'[c].bits = a.bits
  <1> DEFINE d == [align |-> a.align, bits |-> a.bits, data |-> Analog!Register(a.align,
    Analog!Clamped(v, a.bits))]
             o == [value |-> v, bits |-> a.bits]
  <1>1. dac' = [dac EXCEPT ![c] = d] /\ started' = [started EXCEPT ![c] = TRUE]
        /\ ordered' = [ordered EXCEPT ![c] = o]
    BY DEF Analog!SetValue
  <1>2. /\ d.align \in {"8R", "12R", "12L"} /\ d.bits \in Nat /\ d.data \in Nat
        /\ Faithful(d, o)
        /\ d.align = a.align /\ d.bits = a.bits /\ o.bits = a.bits
    <2>1. CASE a = [align |-> "8R", bits |-> 8]
      <3>1. a.align = "8R" /\ a.bits = 8 /\ Analog!Clamped(v, 8) = Analog!MinOf(v, 255)
        BY <2>1 DEF Analog!Clamped
      <3>2. Analog!Register("8R", Analog!MinOf(v, 255)) = Analog!MinOf(v, 255)
              /\ Analog!MinOf(v, 255) \in Nat
        BY MinOfIs, Registers
      <3>3. d = [align |-> "8R", bits |-> 8, data |-> Analog!MinOf(v, 255)]
        BY <3>1, <3>2
      <3>4. Analog!MinOf(v, 255) \in Nat
        BY <3>2
      <3> QED
        BY <3>1, <3>3, <3>4 DEF Faithful
    <2>2. CASE a = [align |-> "12R", bits |-> 12]
      <3>1. a.align = "12R" /\ a.bits = 12 /\ Analog!Clamped(v, 12) = Analog!MinOf(v, 4095)
        BY <2>2 DEF Analog!Clamped
      <3>2. Analog!Register("12R", Analog!MinOf(v, 4095)) = Analog!MinOf(v, 4095)
              /\ Analog!MinOf(v, 4095) \in Nat
        BY MinOfIs, Registers
      <3>3. d = [align |-> "12R", bits |-> 12, data |-> Analog!MinOf(v, 4095)]
        BY <3>1, <3>2
      <3>4. Analog!MinOf(v, 4095) \in Nat
        BY <3>2
      <3> QED
        BY <3>1, <3>3, <3>4 DEF Faithful
    <2>3. CASE a = [align |-> "12L", bits |-> 16]
      <3>1. a.align = "12L" /\ a.bits = 16 /\ Analog!Clamped(v, 16) = Analog!MinOf(v, 65535)
        BY <2>3 DEF Analog!Clamped
      <3>2. Analog!Register("12L", Analog!MinOf(v, 65535)) = Analog!MinOf(v, 65535)
              /\ Analog!MinOf(v, 65535) \in Nat
        BY MinOfIs, Registers
      <3>3. d = [align |-> "12L", bits |-> 16, data |-> Analog!MinOf(v, 65535)]
        BY <3>1, <3>2
      <3>4. Analog!MinOf(v, 65535) \in Nat
        BY <3>2
      <3> QED
        BY <3>1, <3>3, <3>4 DEF Faithful
    <2> QED
      BY <2>1, <2>2, <2>3, Alignments
  <1>3. d \in [align : {"8R", "12R", "12L"}, bits : Nat, data : Nat] /\ o \in [value : Nat,
          bits : Nat]
    BY <1>2
  <1>4. o.value = v
    OBVIOUS
  <1> HIDE DEF d, o
  <1>5. dac'[c] = d /\ ordered'[c] = o /\ started'[c] = TRUE
    BY <1>1 DEF AnalogTypeOK
  <1>6. \A e \in Channels : e # c =>
          dac'[e] = dac[e] /\ ordered'[e] = ordered[e] /\ started'[e] = started[e]
    BY <1>1 DEF AnalogTypeOK
  <1>7. Showing'
    BY <1>2, <1>5, <1>6 DEF Showing, Faithful
  <1>8. /\ dac' \in [Channels -> [align : {"8R", "12R", "12L"}, bits : Nat, data : Nat]]
        /\ ordered' \in [Channels -> [value : Nat, bits : Nat]]
        /\ started' \in [Channels -> BOOLEAN]
    BY <1>1, <1>3 DEF AnalogTypeOK
  <1> QED
    BY <1>2, <1>4, <1>5, <1>7, <1>8

LEMMA AnalogInvInit == ASSUME ChannelsAssumed, Analog!Init PROVE AnalogInv
  <1>1. AnalogTypeOK
    BY DEF Analog!Init, AnalogTypeOK, ChannelsAssumed
  <1>2. Showing
    BY DEF Analog!Init, Showing
  <1>3. InTheLoop
    BY DEF Analog!Init, InTheLoop, ChannelsAssumed
  <1> QED
    BY <1>1, <1>2, <1>3 DEF AnalogInv

LEMMA VoltageOf ==
  ASSUME NEW c \in Channels, Faithful(dac[c], ordered[c]), ordered[c].value \in Nat
  PROVE  /\ dac[c].align = "12R" => Analog!Voltage(c) = Analog!MinOf(ordered[c].value, 4095)
         /\ LET steps == 2^ordered[c].bits
                scale == IF steps < 4096 THEN 4096 ELSE steps
            IN Analog!Distance(Analog!Voltage(c) * steps, Analog!MinOf(ordered[c].value,
              steps - 1) * 4096) < scale
  <1> DEFINE v == ordered[c].value
  <1>1. CASE dac[c].align = "8R" /\ ordered[c].bits = 8 /\ dac[c].data = Analog!MinOf(v,
               255)
    <2>1. Analog!Voltage(c) = Analog!MinOf(v, 255) * 16 /\ 2^ordered[c].bits = 256
      BY <1>1 DEF Analog!Voltage
    <2> QED
      BY <1>1, <2>1 DEF Analog!Distance, Analog!MinOf
  <1>2. CASE dac[c].align = "12R" /\ ordered[c].bits = 12 /\ dac[c].data = Analog!MinOf(v,
               4095)
    <2>1. Analog!Voltage(c) = Analog!MinOf(v, 4095) /\ 2^ordered[c].bits = 4096
      BY <1>2 DEF Analog!Voltage
    <2> QED
      BY <1>2, <2>1 DEF Analog!Distance, Analog!MinOf
  <1>3. CASE dac[c].align = "12L" /\ ordered[c].bits = 16 /\ dac[c].data = Analog!MinOf(v,
               65535)
    <2>1. Analog!Voltage(c) = (Analog!MinOf(v, 65535) \div 16) /\ 2^ordered[c].bits = 65536
      BY <1>3 DEF Analog!Voltage
    <2>2. Analog!MinOf(v, 65535) \in Nat /\ Analog!MinOf(v, 65535) <= 65535
      BY MinOfIs
    <2>3. \A n \in Nat : Analog!Distance((n \div 16) * 65536, n * 4096) < 65536
      BY DEF Analog!Distance
    <2> QED
      BY <1>3, <2>1, <2>2, <2>3
  <1> QED
    BY <1>1, <1>2, <1>3 DEF Faithful

LEMMA AnalogInvNext == ASSUME ChannelsAssumed, AnalogInv, [Analog!Next]_Analog!vars
PROVE AnalogInv'
  <1>1. ASSUME NEW c \in Channels, Analog!Show(c) PROVE AnalogInv'
    <2> DEFINE v == Analog!AllValues[value_index[c]]
               a == Analog!Alignment(Analog!BitsAt(value_index[c]))
    <2>1. value_index[c] \in 1..30
      BY DEF AnalogInv, AnalogTypeOK
    <2>2. v \in Nat
      BY <2>1, AllValuesAre
    <2>3. a \in {Analog!Alignment(8), Analog!Alignment(12), Analog!Alignment(16)}
      BY DEF Analog!BitsAt
    <2>4. Analog!SetValue(c, a, v) /\ demo = "dac" /\ UNCHANGED <<demo, value_index,
            Analog!loop>>
      BY <1>1 DEF Analog!Show
    <2> HIDE DEF a, v
    <2>5. /\ dac' \in [Channels -> [align : {"8R", "12R", "12L"}, bits : Nat, data : Nat]]
          /\ ordered' \in [Channels -> [value : Nat, bits : Nat]]
          /\ started' \in [Channels -> BOOLEAN] /\ Showing'
      BY <2>2, <2>3, <2>4, SetValueIsFaithful DEF AnalogInv
    <2> QED
      BY <2>4, <2>5 DEF AnalogInv, AnalogTypeOK, InTheLoop, Analog!loop
  <1>2. ASSUME NEW c \in Channels, Analog!Release(c) PROVE AnalogInv'
    <2>1. value_index' \in [Channels -> 1..30]
      BY <1>2, AllValuesAre DEF Analog!Release, AnalogInv, AnalogTypeOK
    <2> QED
      BY <1>2, <2>1 DEF Analog!Release, AnalogInv, AnalogTypeOK, InTheLoop, Showing,
         Analog!loop
  <1>3. ASSUME Analog!AccessAll PROVE AnalogInv'
    <2>1. Analog!Alignment(Analog!RESOLUTION).align = "12R"
            /\ Analog!Alignment(Analog!RESOLUTION).bits = 12
          /\ Analog!AdcResolution(Analog!RESOLUTION) = 12
      BY Alignments DEF Analog!RESOLUTION
    <2>2. /\ demo = "adc" /\ point = "access" /\ point' = "begin" /\ adc_bits' = 12
          /\ UNCHANGED <<demo, value_index, holding, started, ordered, value_at, adc_state,
               reading,
                         dma_done, dma_failed, current_output_value, verdict>>
      BY <1>3, <2>1 DEF Analog!AccessAll
    <2>3. dac' = dac
      <3>1. dac' = [dac EXCEPT ![0].align = "12R", ![0].bits = 12]
        BY <1>3, <2>1 DEF Analog!AccessAll
      <3>2. dac[0].align = "12R" /\ dac[0].bits = 12
        BY <2>2 DEF AnalogInv, InTheLoop
      <3> QED
        BY <3>1, <3>2 DEF AnalogInv, AnalogTypeOK, ChannelsAssumed
    <2>4. AnalogTypeOK'
      BY <2>2, <2>3 DEF AnalogInv, AnalogTypeOK
    <2>5. Showing'
      BY <2>2, <2>3 DEF AnalogInv, Showing
    <2>6. InTheLoop'
      BY <2>2, <2>3 DEF AnalogInv, InTheLoop
    <2> QED
      BY <2>4, <2>5, <2>6 DEF AnalogInv
  <1>4. ASSUME Analog!CalibrateOrNot PROVE AnalogInv'
    BY <1>4 DEF Analog!CalibrateOrNot, Analog!channels, AnalogInv, AnalogTypeOK, InTheLoop,
       Showing
  <1>5. ASSUME Analog!Output PROVE AnalogInv'
    <2> DEFINE v == Analog!adc_values[value_at] * 2^(Analog!RESOLUTION - 8)
               a == [align |-> dac[0].align, bits |-> dac[0].bits]
    <2>1. a = Analog!Alignment(12) /\ demo = "adc"
      BY <1>5, Alignments DEF Analog!Output, AnalogInv, InTheLoop
    <2>2. v \in Nat /\ v <= 4096
      <3>1. \A i \in 1..11 : Analog!adc_values[i] \in 0..256
        BY DEF Analog!adc_values
      <3>2. 2^(Analog!RESOLUTION - 8) = 16
        BY DEF Analog!RESOLUTION
      <3>3. Analog!adc_values[value_at] \in 0..256
        BY <3>1 DEF AnalogInv, AnalogTypeOK
      <3> QED
        BY <3>2, <3>3
    <2>3. /\ Analog!SetValue(0, a, v) /\ current_output_value' = v /\ point' = "start"
          /\ point = "output"
          /\ UNCHANGED <<demo, value_index, holding, value_at, adc_bits, adc_state,
               reading, dma_done,
                         dma_failed, verdict>>
      BY <1>5 DEF Analog!Output
    <2> HIDE DEF a, v
    <2>4. 0 \in Channels /\ v \in Nat
      BY <2>2 DEF ChannelsAssumed
    <2>5. /\ dac' \in [Channels -> [align : {"8R", "12R", "12L"}, bits : Nat, data : Nat]]
          /\ ordered' \in [Channels -> [value : Nat, bits : Nat]]
          /\ started' \in [Channels -> BOOLEAN] /\ Showing'
          /\ dac'[0].align = a.align /\ dac'[0].bits = a.bits
          /\ started'[0] /\ ordered'[0].value = v /\ ordered'[0].bits = a.bits
      BY <2>1, <2>3, <2>4, SetValueIsFaithful DEF AnalogInv
    <2>6. a.align = "12R" /\ a.bits = 12
      BY <2>1, Alignments
    <2> QED
      BY <2>1, <2>2, <2>3, <2>5, <2>6 DEF AnalogInv, AnalogTypeOK, InTheLoop
  <1>6. ASSUME Analog!StartConversion PROVE AnalogInv'
    BY <1>6 DEF Analog!StartConversion, Analog!channels, AnalogInv, AnalogTypeOK,
       InTheLoop, Showing
  <1>7. ASSUME Analog!Converted PROVE AnalogInv'
    <2>1. point = "wait" /\ demo = "adc"
      BY <1>7 DEF Analog!Converted, AnalogInv, InTheLoop
    <2>2. Analog!Voltage(0) = Analog!MinOf(current_output_value, 4095)
      BY <2>1, VoltageOf DEF AnalogInv, InTheLoop, Showing, AnalogTypeOK, ChannelsAssumed
    <2>3. \A v \in Analog!Measured(Analog!GetChannel(Analog!DacPin)) :
            (v \div 2^(12 - adc_bits)) \in Nat
            /\ Analog!Distance(Analog!MinOf(current_output_value, 4095),
                 (v \div 2^(12 - adc_bits))) <= 1
      <3>1. 2^(12 - adc_bits) = 1
        BY DEF AnalogInv, AnalogTypeOK
      <3>2. started[0]
        BY <2>1 DEF AnalogInv, InTheLoop
      <3>3. Analog!MinOf(current_output_value, 4095) \in Nat
              /\ Analog!MinOf(current_output_value, 4095) <= 4095
        BY MinOfIs DEF AnalogInv, AnalogTypeOK
      <3>4. \A v \in Analog!Measured(Analog!GetChannel(Analog!DacPin)) :
              v \in Nat /\ v \in {Analog!Voltage(0) - 1, Analog!Voltage(0),
                Analog!Voltage(0) + 1}
        BY <3>2 DEF Analog!Measured
      <3> DEFINE m == Analog!MinOf(current_output_value, 4095)
      <3> HIDE DEF m
      <3>5. Analog!Voltage(0) = m /\ m \in Nat
        BY <2>2, <3>3 DEF m
      <3>6. \A v \in Nat : v \in {m - 1, m, m + 1} =>
              (v \div 1) = v /\ v \in Nat /\ Analog!Distance(m, v) <= 1
        BY <3>5 DEF Analog!Distance
      <3>7. \A v \in Analog!Measured(Analog!GetChannel(Analog!DacPin)) :
              (v \div 2^(12 - adc_bits)) \in Nat /\ Analog!Distance(m,
                (v \div 2^(12 - adc_bits))) <= 1
        BY <3>1, <3>4, <3>5, <3>6
      <3> QED
        BY <3>7 DEF m
    <2>4. dma_done' => reading' \in Nat
            /\ Analog!Distance(Analog!MinOf(current_output_value, 4095), reading') <= 1
      <3> DEFINE Found == reading' \in {v \div 2^(12 - adc_bits) : v \in Analog!Measured(Analog!GetChannel(Analog!DacPin))}
                 Kept == UNCHANGED <<reading, dma_done>>
                 Near(r) == r \in Nat /\ Analog!Distance(Analog!MinOf(current_output_value,
                   4095), r) <= 1
      <3>1. Found \/ Kept
        BY <1>7, Zenon DEF Analog!Converted
      <3>2. Found => Near(reading')
        <4>1. \A v \in Analog!Measured(Analog!GetChannel(Analog!DacPin)) : Near(v \div 2^(12 - adc_bits))
          BY <2>3
        <4>2. Found => \E v \in Analog!Measured(Analog!GetChannel(Analog!DacPin)) : reading' = v \div 2^(12 - adc_bits)
          OBVIOUS
        <4> HIDE DEF Near, Found
        <4> QED
          BY <4>1, <4>2
      <3>3. Kept => reading' = reading /\ (dma_done' <=> dma_done)
        OBVIOUS
      <3>4. dma_done => Near(reading)
        BY <2>1 DEF AnalogInv, InTheLoop
      <3> HIDE DEF Found, Kept, Near
      <3>5. dma_done' => Near(reading')
        BY <3>1, <3>2, <3>3, <3>4
      <3> QED
        BY <3>5 DEF Near
    <2> QED
      BY <1>7, <2>1, <2>4 DEF Analog!Converted, Analog!channels, AnalogInv, AnalogTypeOK,
         InTheLoop, Showing
  <1>8. ASSUME Analog!Judge PROVE AnalogInv'
    <2>1. Analog!CloseEnough(current_output_value, reading)
      <3>1. reading \in Nat /\ Analog!Distance(Analog!MinOf(current_output_value, 4095),
              reading) <= 1
        BY <1>8 DEF Analog!Judge, AnalogInv, InTheLoop
      <3>2. current_output_value \in Nat /\ current_output_value <= 4096
        BY DEF AnalogInv, AnalogTypeOK
      <3>3. Analog!Distance(current_output_value, reading) <= 2
        BY <3>1, <3>2 DEF Analog!Distance, Analog!MinOf
      <3>4. 3 * 2^(Analog!RESOLUTION - 8) = 48
        BY DEF Analog!RESOLUTION
      <3>5. Analog!Distance(current_output_value, reading) \in Nat
        BY <3>1, <3>2 DEF Analog!Distance
      <3> QED
        BY <3>3, <3>4, <3>5 DEF Analog!CloseEnough
    <2>2. Len(Analog!adc_values) = 11
      BY DEF Analog!adc_values
    <2>3. verdict' = "success"
      BY <1>8, <2>1 DEF Analog!Judge
    <2>4. value_at' \in 1..11
      BY <1>8, <2>2 DEF Analog!Judge, AnalogInv, AnalogTypeOK
    <2>5. point' \in {"clear", "output"}
      BY <1>8 DEF Analog!Judge
    <2> QED
      BY <1>8, <2>3, <2>4, <2>5 DEF Analog!Judge, Analog!channels, AnalogInv, AnalogTypeOK,
         InTheLoop, Showing
  <1>9. ASSUME Analog!Clear PROVE AnalogInv'
    <2>1. /\ current_output_value' = 0 /\ dac' = [dac EXCEPT ![0].data = 0]
          /\ ordered' = [ordered EXCEPT ![0].value = 0]
          /\ started' = [started EXCEPT ![0] = FALSE]
          /\ point' = "begin" /\ point = "clear"
          /\ UNCHANGED <<demo, value_index, holding, value_at, adc_bits, adc_state,
               reading, dma_done,
                         dma_failed, verdict>>
      BY <1>9 DEF Analog!Clear
    <2>2. /\ dac' \in [Channels -> [align : {"8R", "12R", "12L"}, bits : Nat, data : Nat]]
          /\ dac'[0].align = dac[0].align /\ dac'[0].bits = dac[0].bits
          /\ \A c \in Channels : c # 0 => dac'[c] = dac[c]
      BY <2>1 DEF AnalogInv, AnalogTypeOK, ChannelsAssumed
    <2>3. /\ ordered' \in [Channels -> [value : Nat, bits : Nat]]
          /\ \A c \in Channels : c # 0 => ordered'[c] = ordered[c]
      BY <2>1 DEF AnalogInv, AnalogTypeOK, ChannelsAssumed
    <2>4. /\ started' \in [Channels -> BOOLEAN] /\ started'[0] = FALSE
          /\ \A c \in Channels : c # 0 => started'[c] = started[c]
      BY <2>1 DEF AnalogInv, AnalogTypeOK, ChannelsAssumed
    <2>5. Showing'
      BY <2>2, <2>3, <2>4 DEF AnalogInv, Showing
    <2> QED
      BY <2>1, <2>2, <2>3, <2>4, <2>5 DEF AnalogInv, AnalogTypeOK, InTheLoop
  <1>10. CASE UNCHANGED Analog!vars
    BY <1>10 DEF Analog!vars, Analog!channels, Analog!loop, AnalogInv, AnalogTypeOK,
       InTheLoop, Showing
  <1> QED
    BY <1>1, <1>2, <1>3, <1>4, <1>5, <1>6, <1>7, <1>8, <1>9, <1>10 DEF Analog!Next

LEMMA AnalogFollows == ASSUME AnalogInv PROVE Analog!AnalogIsSound
  BY VoltageOf DEF AnalogInv, AnalogTypeOK, Showing, InTheLoop, Analog!AnalogIsSound

(* The clock of co_yield does not run as fast as the timer triggers. *)
TriggersInTime ==
  ClockRate \in Nat \ {0}
    /\ Streaming!TriggerInterval(Streaming!PERIOD) <= (Streaming!PERIOD \div ClockRate)

StreamTypeOK ==
  /\ stream_at \in {"access", "holding", "pausing"} /\ trigger \in {"none", "T2_TRGO"}
  /\ stream_value \in 0..Streaming!Values /\ stream_held \in Nat /\ timer \in 0..2
  /\ position \in 0..(Streaming!BufferSize - 1)

StreamFlags == sampled \in BOOLEAN /\ stream_complete \in BOOLEAN
  /\ stream_error \in BOOLEAN

(* What is out is measured before the timer has triggered, and the DMA has *)
(* come around or stored one sample at least for each value.               *)
StreamInv ==
  /\ StreamTypeOK /\ StreamFlags
  /\ stream_at # "access" => timer > 0
  /\ stream_at = "holding" =>
       /\ trigger = "T2_TRGO" /\ stream_value > 0
       /\ stream_error \/ sampled
            \/ stream_held + timer <= Streaming!TriggerInterval(Streaming!PERIOD)
       /\ stream_error \/ stream_complete \/ (position + 1) >= stream_value
       /\ sampled => stream_error \/ stream_complete \/ position >= stream_value
  /\ stream_at = "pausing" => trigger = "none" /\ (stream_complete \/ stream_error)

LEMMA StreamInvInit == ASSUME Streaming!Init PROVE StreamInv
  <1>1. StreamTypeOK
    <2>1. stream_at \in {"access", "holding", "pausing"} /\ trigger \in {"none",
            "T2_TRGO"} BY DEF Streaming!Init
    <2>2. stream_held \in Nat BY DEF Streaming!Init
    <2>3. timer \in 0..2 BY DEF Streaming!Init
    <2>4. stream_value \in 0..Streaming!Values BY DEF Streaming!Init, Streaming!Values
    <2>5. position \in 0..(Streaming!BufferSize - 1) BY DEF Streaming!Init,
            Streaming!BufferSize
    <2> QED BY <2>1, <2>2, <2>3, <2>4, <2>5 DEF StreamTypeOK
  <1>2. StreamFlags
    BY DEF Streaming!Init, StreamFlags
  <1> QED
    BY <1>1, <1>2 DEF Streaming!Init, StreamInv

LEMMA IsMeasured ==
  ASSUME StreamInv, TriggersInTime, stream_at = "holding", Streaming!Waited
  PROVE  sampled \/ stream_error
  <1> DEFINE pause == Streaming!PERIOD \div ClockRate
  <1>1. Streaming!TriggerInterval(Streaming!PERIOD) = 2
    BY DEF Streaming!TriggerInterval, Streaming!PERIOD, Streaming!CLOCK_DIVIDER
  <1>2. pause \in Int /\ 2 <= pause
    BY <1>1 DEF TriggersInTime, Streaming!PERIOD
  <1>3. stream_held >= pause
    BY DEF Streaming!Waited
  <1> HIDE DEF pause
  <1> QED
    BY <1>1, <1>2, <1>3 DEF StreamInv, StreamTypeOK

LEMMA StreamInvNext ==
  ASSUME StreamInv, TriggersInTime, [Streaming!Next]_Streaming!vars
  PROVE  StreamInv'
  <1>1. Streaming!TriggerInterval(Streaming!PERIOD) = 2
    BY DEF Streaming!TriggerInterval, Streaming!PERIOD, Streaming!CLOCK_DIVIDER
  <1>2. CASE Streaming!StartStream
    <2>1. /\ stream_at' = "holding" /\ stream_value' = 1 /\ stream_held' = 0
          /\ sampled' = FALSE
          /\ timer' = 2 /\ position' = 0 /\ stream_complete' = FALSE
          /\ stream_error' = FALSE
          /\ trigger' = "T2_TRGO"
      BY <1>1, <1>2 DEF Streaming!StartStream, Streaming!StartConversionStream,
         Streaming!TriggerFlag, Streaming!Put
    <2>2. StreamTypeOK'
      BY <2>1 DEF StreamTypeOK, Streaming!Values, Streaming!BufferSize
    <2>3. StreamFlags'
      BY <2>1 DEF StreamFlags
    <2> QED
      BY <1>1, <2>1, <2>2, <2>3 DEF StreamInv
  <1>3. CASE Streaming!NextValue
    <2>1. sampled \/ stream_error
      BY <1>3, IsMeasured DEF Streaming!NextValue
    <2>2. /\ stream_at = "holding" /\ stream_value < 10
          /\ stream_value' = stream_value + 1 /\ stream_held' = 0
          /\ sampled' = FALSE /\ UNCHANGED <<stream_at, trigger, timer, position,
               stream_complete, stream_error>>
      BY <1>3 DEF Streaming!NextValue, Streaming!Put, Streaming!Values
    <2>3. StreamTypeOK'
      BY <2>2 DEF StreamInv, StreamTypeOK, Streaming!Values, Streaming!BufferSize
    <2>4. StreamFlags'
      BY <2>2 DEF StreamInv, StreamFlags
    <2> QED
      BY <1>1, <2>1, <2>2, <2>3, <2>4 DEF StreamInv, StreamTypeOK, Streaming!BufferSize
  <1>4. CASE Streaming!StopStream
    <2>1. sampled \/ stream_error
      BY <1>4, IsMeasured DEF Streaming!StopStream
    <2>2. /\ stream_at = "holding" /\ stream_at' = "pausing" /\ trigger' = "none"
          /\ stream_value' = 0 /\ stream_held' = 0
          /\ sampled' = FALSE /\ stream_value = 10
          /\ UNCHANGED <<timer, position, stream_complete, stream_error>>
      BY <1>4 DEF Streaming!StopStream, Streaming!Put, Streaming!Values
    <2>3. StreamTypeOK'
      BY <2>2 DEF StreamInv, StreamTypeOK, Streaming!Values, Streaming!BufferSize
    <2>4. position \in 0..7
      BY DEF StreamInv, StreamTypeOK, Streaming!BufferSize
    <2>5. StreamFlags'
      BY <2>2 DEF StreamInv, StreamFlags
    <2> QED
      BY <2>1, <2>2, <2>3, <2>4, <2>5 DEF StreamInv
  <1>5. CASE Streaming!Tick
    <2>1. /\ stream_at # "access" /\ stream_held' = stream_held + 1
          /\ UNCHANGED <<stream_at, stream_value, trigger>>
          /\ timer' = IF timer = 1 THEN 2 ELSE timer - 1
      BY <1>1, <1>5 DEF Streaming!Tick
    <2>2. CASE UNCHANGED <<sampled, position, stream_complete, stream_error>>
               /\ ~(timer = 1 /\ trigger = "T2_TRGO" /\ ~stream_error)
      BY <1>1, <2>1, <2>2 DEF StreamInv, StreamTypeOK, Streaming!Values,
         Streaming!BufferSize, StreamFlags
    <2>3. CASE Streaming!Sample /\ timer = 1 /\ trigger = "T2_TRGO" /\ ~stream_error
      <3>1. CASE stream_error' = TRUE /\ UNCHANGED <<sampled, position, stream_complete>>
        BY <1>1, <2>1, <2>3, <3>1 DEF StreamInv, StreamTypeOK, StreamFlags
      <3>2. CASE /\ sampled' = TRUE /\ position' = ((position + 1) % Streaming!BufferSize)
                 /\ stream_complete' = (stream_complete \/ position' = 0)
                 /\ UNCHANGED stream_error
        <4>1. position \in 0..7 /\ position' = IF position = 7 THEN 0 ELSE position + 1
          BY <3>2 DEF StreamInv, StreamTypeOK, Streaming!BufferSize
        <4>2. stream_complete' \in BOOLEAN /\ (stream_complete' <=> stream_complete
                \/ position = 7)
          <5>1. position' = 0 <=> position = 7
            BY <4>1
          <5>2. stream_complete \in BOOLEAN
            BY DEF StreamInv, StreamFlags
          <5> QED
            BY <3>2, <5>1, <5>2, Zenon
        <4>3. /\ sampled' /\ sampled' \in BOOLEAN /\ stream_error' = stream_error
          BY <3>2
        <4>4. StreamTypeOK'
          BY <2>1, <4>1 DEF StreamInv, StreamTypeOK, Streaming!BufferSize, Streaming!Values
        <4>5. stream_at = "holding"
          BY <2>1, <2>3 DEF StreamInv, StreamTypeOK
        <4>6. stream_complete' \/ position' >= stream_value'
          BY <2>1, <2>3, <4>1, <4>2, <4>3, <4>5 DEF StreamInv, StreamTypeOK,
             Streaming!Values
        <4>7. StreamFlags'
          BY <4>2, <4>3 DEF StreamInv, StreamFlags
        <4> QED
          BY <2>1, <2>3, <4>1, <4>3, <4>4, <4>5, <4>6, <4>7 DEF StreamInv, StreamTypeOK,
             Streaming!BufferSize,
             Streaming!Values
      <3> QED
        BY <2>3, <3>1, <3>2 DEF Streaming!Sample
    <2> QED
      BY <1>5, <2>2, <2>3 DEF Streaming!Tick
  <1>6. CASE UNCHANGED Streaming!vars
    BY <1>6 DEF Streaming!vars, StreamInv, StreamTypeOK, StreamFlags
  <1> QED
    BY <1>2, <1>3, <1>4, <1>5, <1>6 DEF Streaming!Next

LEMMA StreamFollows == ASSUME StreamInv, TriggersInTime PROVE Streaming!StreamIsSound
  BY IsMeasured DEF StreamInv, Streaming!StreamIsSound

(* A board is recognized as what it is or not yet; each channel of the DAC *)
(* puts out what it was asked for, and adc_demo reads it back; and every   *)
(* value of the stream is measured before it makes room for the next.      *)
THEOREM ConversionsStaySound ==
  ASSUME ChannelsAssumed, TriggersInTime
  PROVE  Spec => []ConversionsAreSound
  <1>1. AdcInv /\ AnalogInv /\ StreamInv => ConversionsAreSound
    BY AnalogFollows, StreamFollows DEF AdcInv, ConversionsAreSound
  <1>2. AdcInv /\ [Next]_vars => AdcInv'
    <2> SUFFICES ASSUME AdcInv, [Next]_vars PROVE AdcInv'
      OBVIOUS
    <2>1. [BoardId!Next]_BoardId!vars
      BY OnlyOneMoves DEF measurement, BoardId!vars
    <2> QED
      BY <2>1, AdcInvNext
  <1>3. AnalogInv /\ [Next]_vars => AnalogInv'
    <2> SUFFICES ASSUME AnalogInv, [Next]_vars PROVE AnalogInv'
      OBVIOUS
    <2>1. [Analog!Next]_Analog!vars
      BY OnlyOneMoves DEF analog, Analog!vars, Analog!channels, Analog!loop
    <2> QED
      BY <2>1, AnalogInvNext
  <1>4. StreamInv /\ [Next]_vars => StreamInv'
    <2> SUFFICES ASSUME StreamInv, [Next]_vars PROVE StreamInv'
      OBVIOUS
    <2>1. [Streaming!Next]_Streaming!vars
      BY OnlyOneMoves DEF streaming, Streaming!vars
    <2> QED
      BY <2>1, StreamInvNext
  <1>5. Init => AdcInv /\ AnalogInv /\ StreamInv
    BY AdcInvInit, AnalogInvInit, StreamInvInit, DriversInit
  <1> QED
    BY <1>1, <1>2, <1>3, <1>4, <1>5, PTL DEF Spec

-----------------------------------------------------------------------------
(* The wire of the programmer.  What is left of a call fixes which bit of  *)
(* which packet the target is at, but for the first clocks of              *)
(* initialize_swd: these find it anywhere and, being 64 ones, lose it.     *)
WireCommands == {"read", "write"}
SelectCalls == <<"ones", "switch", "ones", "low", "read", "ack", "read">>
SwitchCalls == <<"switch", "ones", "low", "read", "ack", "read">>
ResetCalls == <<"ones", "low", "read", "ack", "read">>
IdleCalls == <<"low", "read", "ack", "read">>

TargetPhases ==
  {"lost", "reset", "idle", "header", "turn", "ack", "data_out", "turn_back", "data_in"}
TargetTypeOK ==
  /\ phase \in TargetPhases /\ bit \in Nat
  /\ packet \in [write : BOOLEAN, ack : {"OK", "WAIT", "FAULT"}]
  /\ ones \in Nat /\ ones <= 50
  /\ phase = "ack" => bit < 3
  /\ phase \in {"data_in", "data_out"} => bit < 33
  /\ phase = "data_out" => packet.ack = "OK" /\ ~packet.write
  /\ ones = 50 <=> phase = "reset"
HostTypeOK ==
  /\ drive \in BOOLEAN /\ retry \in BOOLEAN /\ spoiled \in BOOLEAN
  /\ left \in Nat /\ attempt \in Nat

(* n more ones take the target to where only a line reset brings it back.  *)
TargetLosesIn(n) ==
  /\ phase = "header" => 1 <= n
  /\ phase = "idle" => 2 <= n
  /\ phase = "data_in" => 35 - bit <= n
  /\ phase = "turn_back" => IF packet.ack = "OK" /\ packet.write THEN 36 <= n ELSE 3 <= n
  /\ phase = "data_out" => 36 - bit <= n
  /\ phase = "ack" => 39 - bit <= n
  /\ phase = "turn" => 40 <= n
(* Between packets: the target has had its idle clocks, or has said WAIT   *)
(* or FAULT and gives the wire back.                                       *)
TargetRefused == phase = "turn_back" /\ ~(packet.ack = "OK" /\ packet.write)
TargetReady == (drive /\ phase = "idle") \/ (~drive /\ TargetRefused)

AtNothing == queue = <<>> /\ left = 0 /\ (~spoiled => TargetReady)
AtSelect ==
  /\ queue = SelectCalls /\ 1 <= left /\ left <= 64
  /\ left < 64 => drive
  /\ drive => TargetLosesIn(left)
  /\ ~spoiled => /\ ~Wire!TargetDrives
                 /\ drive => phase \in {"idle", "header", "lost", "reset"}
                 /\ ~drive => TargetRefused
AtSwitch ==
  /\ queue = SwitchCalls /\ 1 <= left /\ left <= 16 /\ drive
  /\ phase \in {"lost", "reset", "header"}
AtReset ==
  /\ queue = ResetCalls /\ 1 <= left /\ left <= 64 /\ drive
  /\ phase \in {"lost", "reset", "header"}
  /\ ones = 50 \/ 64 - left <= ones
AtLow ==
  /\ queue = IdleCalls /\ 1 <= left /\ left <= 4 /\ drive
  /\ phase = IF left = 4 THEN "reset" ELSE "idle"
AtCommand(c) ==
  /\ queue = <<c, "ack", c>> /\ 1 <= left /\ left <= 8
  /\ ~spoiled =>
       IF left = 8 THEN TargetReady
       ELSE drive /\ phase = "header" /\ bit = 8 - left /\ packet.write = (c = "write")
AtAck(c) ==
  /\ queue = <<"ack", c>> /\ 1 <= left /\ left <= 3
  /\ ~spoiled =>
       /\ packet.write = (c = "write")
       /\ \/ drive /\ left = 3 /\ phase = "turn"
          \/ ~drive /\ phase = "ack" /\ bit = 3 - left
AtGiveUp == queue = <<"idle">> /\ 1 <= left /\ (~spoiled => TargetReady)
AtRetry(c) == queue = <<"idle", c, "ack", c>> /\ 1 <= left /\ (~spoiled => TargetReady)
AtDataIn ==
  /\ queue = <<"data_in">> /\ 1 <= left /\ left <= 33
  /\ ~spoiled => ~drive /\ phase = "data_out" /\ bit = 33 - left
AtDataOut ==
  /\ queue = <<"data_out">> /\ 1 <= left /\ left <= 33
  /\ ~spoiled =>
       \/ ~drive /\ left = 33 /\ phase = "turn_back" /\ packet.ack = "OK" /\ packet.write
       \/ drive /\ phase = "data_in" /\ bit = 33 - left
AtEnd == queue = <<"end", "off">> /\ left = 1 /\ (~spoiled => TargetReady)
AtOff ==
  /\ queue = <<"off">> /\ left = 0
  /\ ~spoiled => IF drive THEN phase = "idle" ELSE phase = "header"

WireAt ==
  \/ AtNothing \/ AtSelect \/ AtSwitch \/ AtReset \/ AtLow
  \/ \E c \in WireCommands : AtCommand(c) \/ AtAck(c) \/ AtRetry(c)
  \/ AtGiveUp \/ AtDataIn \/ AtDataOut \/ AtEnd \/ AtOff
WireInv == TargetTypeOK /\ HostTypeOK /\ WireAt

LEMMA WireInvInit == ASSUME Wire!Init PROVE WireInv
  <1>1. TargetTypeOK
    BY DEF Wire!Init, TargetTypeOK, TargetPhases
  <1>2. HostTypeOK
    BY DEF Wire!Init, HostTypeOK
  <1>3. AtNothing
    BY DEF Wire!Init, AtNothing
  <1> QED
    BY <1>1, <1>2, <1>3 DEF WireInv, WireAt

LEMMA TargetKeeps ==
  ASSUME TargetTypeOK, NEW b, Wire!Clocked(b)
  PROVE  TargetTypeOK'
  <1>1. ones' \in Nat /\ ones' <= 50
    <2>1. \/ ones' = 0
          \/ ones' = ones /\ ones = 50
          \/ ones' = ones + 1 /\ ones # 50
      <3>1. ones' = IF b # "ones" \/ Wire!TargetDrives THEN 0
                    ELSE IF ones = Wire!LineReset THEN ones ELSE ones + 1
        BY Zenon DEF Wire!Clocked
      <3> QED
        BY <3>1 DEF Wire!LineReset
    <2> QED
      BY <2>1 DEF TargetTypeOK
  <1>2. CASE ones' = Wire!LineReset
    BY <1>1, <1>2 DEF TargetTypeOK, Wire!Clocked, Wire!Then, Wire!LineReset, TargetPhases
  <1>3. CASE ones' # Wire!LineReset
    <2>1. CASE phase \in {"idle", "reset"}
      <3>1. packet' = [packet EXCEPT !.write = (b = "write")]
        BY <1>3, <2>1 DEF Wire!Clocked
      <3>2. packet' \in [write : BOOLEAN, ack : {"OK", "WAIT", "FAULT"}]
        BY <3>1 DEF TargetTypeOK
      <3>3. phase' \in {"idle", "header"} /\ bit' \in Nat
        BY <1>3, <2>1 DEF Wire!Clocked, Wire!Then
      <3> QED
        BY <1>1, <1>3, <3>2, <3>3 DEF TargetTypeOK, TargetPhases, Wire!LineReset
    <2>2. CASE phase = "turn"
      <3>1. PICK a \in {"OK", "WAIT", "FAULT"} : packet' = [packet EXCEPT !.ack = a]
        BY <1>3, <2>2 DEF Wire!Clocked
      <3>2. packet' \in [write : BOOLEAN, ack : {"OK", "WAIT", "FAULT"}]
        BY <3>1 DEF TargetTypeOK
      <3>3. phase' = "ack" /\ bit' = 0
        BY <1>3, <2>2 DEF Wire!Clocked, Wire!Then
      <3> QED
        BY <1>1, <1>3, <3>2, <3>3 DEF TargetTypeOK, TargetPhases, Wire!LineReset
    <2>3. CASE phase \notin {"idle", "reset", "turn"}
      <3>1. packet' = packet
        BY <1>3, <2>3 DEF Wire!Clocked, TargetTypeOK, TargetPhases
      <3> QED
        BY <1>1, <1>3, <2>3, <3>1 DEF TargetTypeOK, TargetPhases, Wire!LineReset,
           Wire!Clocked, Wire!Then, Wire!More
    <2> QED
      BY <2>1, <2>2, <2>3
  <1> QED
    BY <1>2, <1>3

(* A target that is sent ones gets lost, whatever it was about, or is      *)
(* reset.                                                                  *)
LEMMA OnesLose ==
  ASSUME TargetTypeOK, NEW n \in Nat, TargetLosesIn(n), Wire!Clocked("ones")
  PROVE  TargetLosesIn(n - 1)'
  <1>1. CASE ones' = Wire!LineReset
    BY <1>1 DEF Wire!Clocked, Wire!Then, TargetLosesIn
  <1>2. CASE ones' # Wire!LineReset
    <2>1. CASE phase \in {"idle", "reset"}
      BY <1>2, <2>1 DEF TargetTypeOK, Wire!Clocked, Wire!Then, TargetLosesIn,
         Wire!LineReset, Wire!TargetDrives
    <2>2. CASE phase = "turn"
      BY <1>2, <2>2 DEF TargetTypeOK, Wire!Clocked, Wire!Then, TargetLosesIn
    <2>3. CASE phase \in {"header", "turn_back", "lost"}
      BY <1>2, <2>3 DEF TargetTypeOK, Wire!Clocked, Wire!Then, Wire!More, TargetLosesIn
    <2>4. CASE phase = "ack"
      BY <1>2, <2>4 DEF TargetTypeOK, Wire!Clocked, Wire!Then, Wire!More, TargetLosesIn
    <2>5. CASE phase \in {"data_in", "data_out"}
      BY <1>2, <2>5 DEF TargetTypeOK, Wire!Clocked, Wire!Then, Wire!More, TargetLosesIn
    <2> QED
      BY <2>1, <2>2, <2>3, <2>4, <2>5 DEF TargetTypeOK, TargetPhases
  <1> QED
    BY <1>1, <1>2

(* What the target makes of a clock in which it is sent no one.            *)
LEMMA OtherBits ==
  ASSUME TargetTypeOK, NEW b, b # "ones", Wire!Clocked(b)
  PROVE  /\ phase \in {"idle", "reset"} =>
              /\ b \in {"low", "idle", "end"} => phase' = "idle"
              /\ b \notin {"low", "idle", "end"} =>
                   phase' = "header" /\ bit' = 1 /\ packet'.write = (b = "write")
         /\ phase = "header" =>
              /\ b \notin WireCommands => phase' = "lost"
              /\ b \in WireCommands /\ ~spoiled =>
                   /\ IF bit + 1 < 8 THEN phase' = "header" /\ bit' = bit + 1
                      ELSE phase' = "turn" /\ bit' = 0
                   /\ packet' = packet
         /\ phase = "turn" => phase' = "ack" /\ bit' = 0 /\ packet'.write = packet.write
         /\ phase = "ack" =>
              /\ IF bit + 1 < 3 THEN phase' = "ack" /\ bit' = bit + 1
                 ELSE /\ bit' = 0
                      /\ phase' = IF packet.ack = "OK" /\ ~packet.write THEN "data_out"
                                  ELSE "turn_back"
              /\ packet' = packet
         /\ phase = "data_out" =>
              /\ IF bit + 1 < 33 THEN phase' = "data_out" /\ bit' = bit + 1
                 ELSE phase' = "turn_back" /\ bit' = 0
              /\ packet' = packet
         /\ phase = "turn_back" =>
              /\ bit' = 0
              /\ phase' = IF packet.ack = "OK" /\ packet.write THEN "data_in" ELSE "idle"
         /\ phase = "data_in" =>
              IF bit + 1 < 33 THEN phase' = "data_in" /\ bit' = bit + 1
              ELSE phase' = "idle" /\ bit' = 0
         /\ phase = "lost" => phase' = "lost"
  <1>1. ones' # Wire!LineReset
    BY DEF Wire!Clocked, Wire!LineReset
  <1>2. CASE phase \in {"idle", "reset"}
    BY <1>1, <1>2 DEF TargetTypeOK, Wire!Clocked, Wire!Then
  <1>3. CASE phase = "turn"
    BY <1>1, <1>3 DEF TargetTypeOK, Wire!Clocked, Wire!Then
  <1>4. CASE phase = "header"
    BY <1>1, <1>4 DEF TargetTypeOK, Wire!Clocked, Wire!Then, Wire!More, WireCommands
  <1>5. CASE phase \in {"ack", "data_out"}
    BY <1>1, <1>5 DEF TargetTypeOK, Wire!Clocked, Wire!Then, Wire!More
  <1>6. CASE phase \in {"turn_back", "data_in", "lost"}
    BY <1>1, <1>6 DEF TargetTypeOK, Wire!Clocked, Wire!Then, Wire!More
  <1> QED
    BY <1>2, <1>3, <1>4, <1>5, <1>6 DEF TargetTypeOK, TargetPhases

LEMMA WireCalls ==
  /\ Head(SelectCalls) = "ones" /\ Tail(SelectCalls) = SwitchCalls
  /\ Head(SwitchCalls) = "switch" /\ Tail(SwitchCalls) = ResetCalls
  /\ Head(ResetCalls) = "ones" /\ Tail(ResetCalls) = IdleCalls
  /\ Head(IdleCalls) = "low" /\ Tail(IdleCalls) = <<"read", "ack", "read">>
  /\ SelectCalls # <<>> /\ SwitchCalls # <<>> /\ ResetCalls # <<>> /\ IdleCalls # <<>>
  BY DEF SelectCalls, SwitchCalls, ResetCalls, IdleCalls

LEMMA Commanded ==
  ASSUME NEW c \in WireCommands
  PROVE  /\ Head(<<c, "ack", c>>) = c /\ Tail(<<c, "ack", c>>) = <<"ack", c>>
         /\ Head(<<"ack", c>>) = "ack" /\ (<<"ack", c>>)[2] = c
         /\ Head(<<"idle", c, "ack", c>>) = "idle"
         /\ Tail(<<"idle", c, "ack", c>>) = <<c, "ack", c>>
         /\ <<c, "ack", c>> # <<>> /\ <<"ack", c>> # <<>> /\ <<"idle", c, "ack", c>> # <<>>
  BY DEF WireCommands

LEMMA AloneOrLast ==
  /\ \A op : Head(<<op>>) = op /\ Tail(<<op>>) = <<>> /\ <<op>> # <<>>
  /\ Head(<<"end", "off">>) = "end" /\ Tail(<<"end", "off">>) = <<"off">>
  /\ <<"end", "off">> # <<>>
  OBVIOUS

LEMMA WireLengths ==
  ASSUME HostTypeOK
  PROVE  /\ Wire!Length("read") = 8 /\ Wire!Length("write") = 8 /\ Wire!Length("ack") = 3
         /\ Wire!Length("switch") = 16 /\ Wire!Length("low") = 4 /\ Wire!Length("ones") = 64
         /\ Wire!Length("end") = 1 /\ Wire!Length("off") = 0
         /\ Wire!Length("data_in") = 33 /\ Wire!Length("data_out") = 33
         /\ Wire!Length("idle") \in Nat /\ 1 <= Wire!Length("idle")
  BY DEF HostTypeOK, Wire!Length

(* At each place it is known what is sent or received next. *)
LEMMA SendsNext ==
  /\ AtNothing => queue = <<>>
  /\ AtSelect \/ AtReset => queue # <<>> /\ Head(queue) = "ones"
  /\ AtSwitch => queue # <<>> /\ Head(queue) = "switch"
  /\ AtLow => queue # <<>> /\ Head(queue) = "low"
  /\ AtGiveUp => queue # <<>> /\ Head(queue) = "idle" /\ Tail(queue) = <<>>
  /\ AtDataIn => queue # <<>> /\ Head(queue) = "data_in" /\ Tail(queue) = <<>>
  /\ AtDataOut => queue # <<>> /\ Head(queue) = "data_out" /\ Tail(queue) = <<>>
  /\ AtEnd => queue # <<>> /\ Head(queue) = "end" /\ Tail(queue) = <<"off">>
  /\ AtOff => queue # <<>> /\ Head(queue) = "off"
  /\ \A c \in WireCommands :
       /\ AtCommand(c) => queue # <<>> /\ Head(queue) = c /\ Tail(queue) = <<"ack", c>>
       /\ AtAck(c) => queue # <<>> /\ Head(queue) = "ack" /\ queue[2] = c
       /\ AtRetry(c) =>
            queue # <<>> /\ Head(queue) = "idle" /\ Tail(queue) = <<c, "ack", c>>
  <1>1. /\ AtNothing => queue = <<>>
        /\ AtSelect \/ AtReset => queue # <<>> /\ Head(queue) = "ones"
        /\ AtSwitch => queue # <<>> /\ Head(queue) = "switch"
        /\ AtLow => queue # <<>> /\ Head(queue) = "low"
    BY WireCalls, Zenon DEF AtNothing, AtSelect, AtReset, AtSwitch, AtLow
  <1>2. /\ AtGiveUp => queue # <<>> /\ Head(queue) = "idle" /\ Tail(queue) = <<>>
        /\ AtDataIn => queue # <<>> /\ Head(queue) = "data_in" /\ Tail(queue) = <<>>
        /\ AtDataOut => queue # <<>> /\ Head(queue) = "data_out" /\ Tail(queue) = <<>>
    BY AloneOrLast, Zenon DEF AtGiveUp, AtDataIn, AtDataOut
  <1>3. /\ AtEnd => queue # <<>> /\ Head(queue) = "end" /\ Tail(queue) = <<"off">>
        /\ AtOff => queue # <<>> /\ Head(queue) = "off"
    BY AloneOrLast, Zenon DEF AtEnd, AtOff
  <1>4. ASSUME NEW c \in WireCommands
        PROVE  /\ AtCommand(c) => queue # <<>> /\ Head(queue) = c /\ Tail(queue) = <<"ack", c>>
               /\ AtAck(c) => queue # <<>> /\ Head(queue) = "ack" /\ queue[2] = c
               /\ AtRetry(c) =>
                    queue # <<>> /\ Head(queue) = "idle" /\ Tail(queue) = <<c, "ack", c>>
    BY Commanded, Zenon DEF AtCommand, AtAck, AtRetry
  <1> QED
    BY <1>1, <1>2, <1>3, <1>4

LEMMA TurnaroundKeeps ==
  ASSUME WireInv, Wire!Turnaround
  PROVE  WireInv'
  <1>1. /\ TargetTypeOK /\ HostTypeOK /\ WireAt /\ queue # <<>>
        /\ drive # Wire!Sends(Head(queue)) /\ drive' = Wire!Sends(Head(queue))
        /\ Wire!Clocked("float")
        /\ queue' = queue /\ left' = left /\ attempt' = attempt /\ retry' = retry
        /\ spoiled' = spoiled
    BY DEF WireInv, Wire!Turnaround
  <1>2. TargetTypeOK'
    BY <1>1, TargetKeeps
  <1>3. HostTypeOK'
    BY <1>1, Zenon DEF HostTypeOK, Wire!Sends
  <1>4. /\ phase = "idle" => phase' = "header"
        /\ TargetRefused => phase' = "idle"
        /\ phase = "turn" => phase' = "ack" /\ bit' = 0 /\ packet'.write = packet.write
        /\ phase = "turn_back" /\ packet.ack = "OK" /\ packet.write =>
             phase' = "data_in" /\ bit' = 0
    BY <1>1, OtherBits DEF TargetRefused
  <1>5. CASE AtSelect
    <2>1. drive' /\ ~drive
      BY <1>1, <1>5, SendsNext DEF Wire!Sends, HostTypeOK
    <2>2. left = 64
      BY <1>1, <1>5, <2>1 DEF AtSelect, HostTypeOK
    <2>3. TargetLosesIn(left)'
      <3>1. left' = 64
        BY <1>1, <2>2
      <3>2. \A b \in Nat : 35 - b <= 64 /\ 36 - b <= 64 /\ 39 - b <= 64
        OBVIOUS
      <3>3. bit' \in Nat
        BY <1>2 DEF TargetTypeOK
      <3>4. 35 - bit' <= 64 /\ 36 - bit' <= 64 /\ 39 - bit' <= 64
        BY <3>2, <3>3, Zenon
      <3> QED
        BY <3>1, <3>4 DEF TargetLosesIn
    <2>4. AtSelect'
      BY <1>1, <1>4, <1>5, <2>1, <2>2, <2>3 DEF AtSelect, Wire!TargetDrives
    <2> QED
      BY <1>2, <1>3, <2>4 DEF WireInv, WireAt
  <1>6. CASE AtSwitch \/ AtReset \/ AtLow \/ AtNothing
    BY <1>1, <1>6, SendsNext DEF Wire!Sends, AtSwitch, AtReset, AtLow
  <1>7. ASSUME NEW c \in WireCommands, AtCommand(c)
        PROVE  AtCommand(c)'
    <2>1. drive' /\ ~drive
      BY <1>1, <1>7, SendsNext DEF Wire!Sends, HostTypeOK, WireCommands
    <2> QED
      BY <1>1, <1>4, <1>7, <2>1 DEF AtCommand, TargetReady
  <1>8. ASSUME NEW c \in WireCommands, AtAck(c)
        PROVE  AtAck(c)'
    <2>1. ~drive' /\ drive
      BY <1>1, <1>8, SendsNext DEF Wire!Sends, HostTypeOK
    <2> QED
      BY <1>1, <1>4, <1>8, <2>1 DEF AtAck
  <1>9. ASSUME NEW c \in WireCommands, AtRetry(c)
        PROVE  AtRetry(c)'
    <2>1. drive' /\ ~drive
      BY <1>1, <1>9, SendsNext DEF Wire!Sends, HostTypeOK
    <2> QED
      BY <1>1, <1>4, <1>9, <2>1 DEF AtRetry, TargetReady
  <1>10. CASE AtGiveUp \/ AtEnd
    <2>1. drive' /\ ~drive
      BY <1>1, <1>10, SendsNext DEF Wire!Sends, HostTypeOK
    <2>2. AtGiveUp' \/ AtEnd'
      BY <1>1, <1>4, <1>10, <2>1 DEF AtGiveUp, AtEnd, TargetReady
    <2> QED
      BY <1>2, <1>3, <2>2 DEF WireInv, WireAt
  <1>11. CASE AtDataIn
    <2>1. ~drive' /\ drive
      BY <1>1, <1>11, SendsNext DEF Wire!Sends, HostTypeOK
    <2>2. AtDataIn'
      BY <1>1, <1>11, <2>1 DEF AtDataIn
    <2> QED
      BY <1>2, <1>3, <2>2 DEF WireInv, WireAt
  <1>12. CASE AtDataOut
    <2>1. drive' /\ ~drive
      BY <1>1, <1>12, SendsNext DEF Wire!Sends, HostTypeOK
    <2>2. AtDataOut'
      BY <1>1, <1>4, <1>12, <2>1 DEF AtDataOut
    <2> QED
      BY <1>2, <1>3, <2>2 DEF WireInv, WireAt
  <1>13. CASE AtOff
    <2>1. ~drive' /\ drive
      BY <1>1, <1>13, SendsNext DEF Wire!Sends, HostTypeOK
    <2>2. AtOff'
      BY <1>1, <1>4, <1>13, <2>1 DEF AtOff
    <2> QED
      BY <1>2, <1>3, <2>2 DEF WireInv, WireAt
  <1> QED
    BY <1>1, <1>2, <1>3, <1>5, <1>6, <1>7, <1>8, <1>9, <1>10, <1>11, <1>12, <1>13
       DEF WireInv, WireAt

LEMMA BitKeeps ==
  ASSUME WireInv, Wire!Bit
  PROVE  WireInv'
  <1>1. /\ TargetTypeOK /\ HostTypeOK /\ WireAt /\ queue # <<>> /\ left > 1
        /\ drive = Wire!Sends(Head(queue)) /\ left' = left - 1 /\ Wire!Clocked(Head(queue))
        /\ drive' = drive /\ queue' = queue /\ attempt' = attempt /\ retry' = retry
        /\ spoiled' = spoiled
    BY DEF WireInv, Wire!Bit
  <1>2. TargetTypeOK'
    BY <1>1, TargetKeeps
  <1>3. left' \in Nat /\ 1 <= left' /\ left \in Nat
    BY <1>1 DEF HostTypeOK
  <1>4. HostTypeOK'
    BY <1>1, <1>3, Zenon DEF HostTypeOK
  <1>5. CASE AtSelect
    <2>1. Head(queue) = "ones" /\ drive
      BY <1>1, <1>5, SendsNext DEF Wire!Sends, HostTypeOK
    <2>2. TargetLosesIn(left)'
      <3>1. TargetLosesIn(left)
        BY <1>5, <2>1 DEF AtSelect
      <3>2. PICK n \in Nat : n = left
        BY <1>3
      <3>3. TargetLosesIn(n - 1)'
        BY <1>1, <2>1, <3>1, <3>2, OnesLose
      <3>4. left' = n - 1
        BY <1>1, <3>2
      <3> QED
        BY <3>3, <3>4 DEF TargetLosesIn
    <2>3. ~spoiled => phase' \in {"header", "lost", "reset"}
      BY <1>1, <1>5, <2>1 DEF AtSelect, Wire!Clocked, Wire!Then
    <2>4. AtSelect'
      BY <1>1, <1>3, <1>5, <2>1, <2>2, <2>3 DEF AtSelect, Wire!TargetDrives
    <2> QED
      BY <1>2, <1>4, <2>4 DEF WireInv, WireAt
  <1>6. CASE AtSwitch
    <2>1. Head(queue) = "switch"
      BY <1>6, SendsNext
    <2>2. phase' \in {"lost", "header"}
      BY <1>1, <1>6, <2>1, OtherBits DEF AtSwitch, WireCommands
    <2>3. AtSwitch'
      BY <1>1, <1>3, <1>6, <2>2 DEF AtSwitch
    <2> QED
      BY <1>2, <1>4, <2>3 DEF WireInv, WireAt
  <1>7. CASE AtReset
    <2>1. Head(queue) = "ones"
      BY <1>7, SendsNext
    <2>2. phase' \in {"lost", "reset", "header"} /\ (ones = 50 => ones' = 50)
          /\ (ones # 50 => ones' = ones + 1)
      BY <1>1, <1>7, <2>1 DEF AtReset, Wire!Clocked, Wire!Then, Wire!LineReset,
         Wire!TargetDrives
    <2>3. AtReset'
      BY <1>1, <1>3, <1>7, <2>2 DEF AtReset, TargetTypeOK
    <2> QED
      BY <1>2, <1>4, <2>3 DEF WireInv, WireAt
  <1>8. CASE AtLow
    <2>1. Head(queue) = "low"
      BY <1>8, SendsNext
    <2>2. phase' = "idle"
      BY <1>1, <1>8, <2>1, OtherBits DEF AtLow
    <2>3. AtLow'
      BY <1>1, <1>3, <1>8, <2>2 DEF AtLow
    <2> QED
      BY <1>2, <1>4, <2>3 DEF WireInv, WireAt
  <1>9. ASSUME NEW c \in WireCommands, AtCommand(c)
        PROVE  AtCommand(c)'
    <2>1. Head(queue) = c /\ drive /\ c \notin {"low", "idle", "end", "ones"}
      BY <1>1, <1>9, SendsNext DEF Wire!Sends, WireCommands
    <2>2. ~spoiled =>
            /\ phase = "idle" =>
                 phase' = "header" /\ bit' = 1 /\ packet'.write = (c = "write")
            /\ phase = "header" /\ bit + 1 < 8 =>
                 phase' = "header" /\ bit' = bit + 1 /\ packet' = packet
      BY <1>1, <2>1, OtherBits
    <2>3. CASE left = 8
      BY <1>1, <1>9, <2>1, <2>2, <2>3 DEF AtCommand, TargetReady
    <2>4. CASE left # 8
      BY <1>1, <1>3, <1>9, <2>1, <2>2, <2>4 DEF AtCommand
    <2> QED
      BY <2>3, <2>4
  <1>10. ASSUME NEW c \in WireCommands, AtAck(c)
         PROVE  AtAck(c)'
    <2>1. Head(queue) = "ack" /\ ~drive
      BY <1>1, <1>10, SendsNext DEF Wire!Sends, HostTypeOK
    <2>2. phase = "ack" /\ bit + 1 < 3 =>
            phase' = "ack" /\ bit' = bit + 1 /\ packet' = packet
      BY <1>1, <2>1, OtherBits
    <2> QED
      BY <1>1, <1>3, <1>10, <2>1, <2>2 DEF AtAck
  <1>11. ASSUME NEW c \in WireCommands, AtRetry(c)
         PROVE  AtRetry(c)'
    <2>1. Head(queue) = "idle" /\ drive
      BY <1>1, <1>11, SendsNext DEF Wire!Sends, HostTypeOK
    <2>2. phase = "idle" => phase' = "idle"
      BY <1>1, <2>1, OtherBits
    <2> QED
      BY <1>1, <1>3, <1>11, <2>1, <2>2 DEF AtRetry, TargetReady
  <1>12. CASE AtGiveUp
    <2>1. Head(queue) = "idle" /\ drive
      BY <1>1, <1>12, SendsNext DEF Wire!Sends, HostTypeOK
    <2>2. phase = "idle" => phase' = "idle"
      BY <1>1, <2>1, OtherBits
    <2>3. AtGiveUp'
      BY <1>1, <1>3, <1>12, <2>1, <2>2 DEF AtGiveUp, TargetReady
    <2> QED
      BY <1>2, <1>4, <2>3 DEF WireInv, WireAt
  <1>13. CASE AtDataIn
    <2>1. Head(queue) = "data_in" /\ ~drive
      BY <1>1, <1>13, SendsNext DEF Wire!Sends, HostTypeOK
    <2>2. phase = "data_out" /\ bit + 1 < 33 => phase' = "data_out" /\ bit' = bit + 1
      BY <1>1, <2>1, OtherBits
    <2>3. AtDataIn'
      BY <1>1, <1>3, <1>13, <2>1, <2>2 DEF AtDataIn
    <2> QED
      BY <1>2, <1>4, <2>3 DEF WireInv, WireAt
  <1>14. CASE AtDataOut
    <2>1. Head(queue) = "data_out" /\ drive
      BY <1>1, <1>14, SendsNext DEF Wire!Sends, HostTypeOK
    <2>2. phase = "data_in" /\ bit + 1 < 33 => phase' = "data_in" /\ bit' = bit + 1
      BY <1>1, <2>1, OtherBits
    <2>3. AtDataOut'
      BY <1>1, <1>3, <1>14, <2>1, <2>2 DEF AtDataOut
    <2> QED
      BY <1>2, <1>4, <2>3 DEF WireInv, WireAt
  <1>15. ~AtNothing /\ ~AtEnd /\ ~AtOff
    BY <1>1 DEF AtNothing, AtEnd, AtOff
  <1> QED
    BY <1>1, <1>2, <1>4, <1>5, <1>6, <1>7, <1>8, <1>9, <1>10, <1>11, <1>12, <1>13, <1>14,
       <1>15
       DEF WireInv, WireAt

LEMMA LastBitKeeps ==
  ASSUME WireInv, Wire!LastBit
  PROVE  WireInv'
  <1>1. /\ TargetTypeOK /\ HostTypeOK /\ WireAt /\ queue # <<>> /\ left = 1
        /\ drive = Wire!Sends(Head(queue)) /\ Head(queue) # "ack"
        /\ Wire!Clocked(Head(queue))
        /\ queue' = Tail(queue)
        /\ left' = IF Tail(queue) = <<>> THEN 0 ELSE Wire!Length(Head(Tail(queue)))
        /\ drive' = drive /\ attempt' = attempt /\ retry' = retry
        /\ spoiled' = (spoiled /\ Head(queue) # "low")
    BY DEF WireInv, Wire!LastBit, Wire!Go
  <1>2. TargetTypeOK'
    BY <1>1, TargetKeeps
  <1> DEFINE Kept == WireAt' /\ left' \in Nat
  <1>3. ASSUME AtSelect PROVE Kept
    <2>1. Head(queue) = "ones" /\ drive /\ queue' = SwitchCalls /\ left' = 16
      BY <1>1, <1>3, SendsNext, WireCalls, WireLengths DEF Wire!Sends, HostTypeOK, AtSelect
    <2>2. TargetLosesIn(0)'
      <3>1. TargetLosesIn(1)
        BY <1>1, <1>3, <2>1 DEF AtSelect
      <3>2. TargetLosesIn(1 - 1)'
        BY <1>1, <2>1, <3>1, OnesLose
      <3> QED
        BY <3>2
    <2>3. phase' \in {"lost", "reset"}
      <3>1. bit' \in Nat /\ phase' \in TargetPhases
        BY <1>2 DEF TargetTypeOK
      <3>2. phase' \in {"data_in", "data_out"} => bit' \in Nat /\ bit' < 33
        BY <1>2 DEF TargetTypeOK
      <3>3. phase' = "ack" => bit' \in Nat /\ bit' < 3
        BY <1>2 DEF TargetTypeOK
      <3>4. \A b \in Nat : /\ b < 33 => ~(35 - b <= 0) /\ ~(36 - b <= 0)
                           /\ b < 3 => ~(39 - b <= 0)
        OBVIOUS
      <3>5. phase' \notin {"data_in", "data_out", "ack"}
        BY <2>2, <3>2, <3>3, <3>4, Zenon DEF TargetLosesIn
      <3> QED
        BY <2>2, <3>1, <3>5 DEF TargetLosesIn, TargetPhases
    <2>4. AtSwitch'
      BY <1>1, <2>1, <2>3 DEF AtSwitch
    <2> QED
      BY <2>1, <2>4 DEF WireAt
  <1>4. ASSUME AtSwitch PROVE Kept
    <2>1. Head(queue) = "switch" /\ queue' = ResetCalls /\ left' = 64
      BY <1>1, <1>4, SendsNext, WireCalls, WireLengths DEF AtSwitch
    <2>2. phase' \in {"lost", "header"}
      BY <1>1, <1>4, <2>1, OtherBits DEF AtSwitch, WireCommands
    <2>3. ones' \in Nat
      BY <1>2 DEF TargetTypeOK
    <2>4. AtReset'
      BY <1>1, <1>4, <2>1, <2>2, <2>3 DEF AtSwitch, AtReset
    <2> QED
      BY <2>1, <2>4 DEF WireAt
  <1>5. ASSUME AtReset PROVE Kept
    <2>1. Head(queue) = "ones" /\ queue' = IdleCalls /\ left' = 4
      BY <1>1, <1>5, SendsNext, WireCalls, WireLengths DEF AtReset
    <2>2. ones' = 50
      BY <1>1, <1>5, <2>1 DEF AtReset, Wire!Clocked, Wire!LineReset, Wire!TargetDrives,
         TargetTypeOK
    <2>3. phase' = "reset"
      BY <1>2, <2>2 DEF TargetTypeOK
    <2>4. AtLow'
      BY <1>1, <1>5, <2>1, <2>3 DEF AtReset, AtLow
    <2> QED
      BY <2>1, <2>4 DEF WireAt
  <1>6. ASSUME AtLow PROVE Kept
    <2>1. Head(queue) = "low" /\ drive' /\ queue' = <<"read", "ack", "read">> /\ left' = 8
      <3>1. Head(queue) = "low" /\ drive' /\ queue' = <<"read", "ack", "read">>
        BY <1>1, <1>6, SendsNext, WireCalls, Zenon DEF AtLow
      <3>2. Head(<<"read", "ack", "read">>) = "read" /\ <<"read", "ack", "read">> # <<>>
        BY Commanded, Zenon DEF WireCommands
      <3>3. left' = Wire!Length("read")
        BY <1>1, <3>1, <3>2, Zenon
      <3> QED
        BY <1>1, <3>1, <3>3, WireLengths
    <2>2. phase' = "idle"
      BY <1>1, <1>6, <2>1, OtherBits DEF AtLow
    <2>3. AtCommand("read")'
      <3>1. 1 <= left' /\ left' <= 8
        BY <2>1
      <3> QED
        BY <2>1, <2>2, <3>1, Zenon DEF AtCommand, TargetReady
    <2> QED
      BY <2>1, <2>3 DEF WireAt, WireCommands
  <1>7. ASSUME NEW c \in WireCommands, AtCommand(c)
        PROVE  Kept
    <2>1. /\ Head(queue) = c /\ queue' = <<"ack", c>> /\ left' = 3 /\ drive
          /\ c \notin {"low", "idle", "end", "ones"}
      BY <1>1, <1>7, SendsNext, Commanded, WireLengths DEF Wire!Sends, WireCommands
    <2>2. ~spoiled => phase = "header" /\ bit = 7 /\ packet.write = (c = "write")
      BY <1>1, <1>7 DEF AtCommand
    <2>3. ~spoiled => phase' = "turn" /\ packet' = packet
      BY <1>1, <2>1, <2>2, OtherBits
    <2>4. ~spoiled' => ~spoiled
      BY <1>1, <2>1, Zenon
    <2>5. ~spoiled' =>
            packet'.write = (c = "write") /\ phase' = "turn" /\ drive' /\ left' = 3
      BY <1>1, <2>1, <2>2, <2>3, <2>4, Zenon
    <2>6. AtAck(c)'
      <3>1. 1 <= left' /\ left' <= 3
        BY <2>1
      <3> QED
        BY <2>1, <2>5, <3>1, Zenon DEF AtAck
    <2> QED
      BY <2>1, <2>6 DEF WireAt
  <1>8. ASSUME NEW c \in WireCommands, AtRetry(c)
        PROVE  Kept
    <2>1. Head(queue) = "idle" /\ drive /\ queue' = <<c, "ack", c>> /\ left' = 8
      BY <1>1, <1>8, SendsNext, Commanded, WireLengths DEF Wire!Sends, WireCommands
    <2>2. phase = "idle" => phase' = "idle"
      BY <1>1, <2>1, OtherBits
    <2>3. ~spoiled' => drive' /\ phase' = "idle"
      BY <1>1, <1>8, <2>1, <2>2, Zenon DEF AtRetry, TargetReady
    <2>4. AtCommand(c)'
      <3>1. 1 <= left' /\ left' <= 8
        BY <2>1
      <3> QED
        BY <2>1, <2>3, <3>1, Zenon DEF AtCommand, TargetReady
    <2> QED
      BY <2>1, <2>4 DEF WireAt
  <1>9. ASSUME AtGiveUp PROVE Kept
    <2>1. Head(queue) = "idle" /\ drive /\ queue' = <<>> /\ left' = 0
      BY <1>1, <1>9, SendsNext DEF Wire!Sends, HostTypeOK
    <2>2. phase = "idle" => phase' = "idle"
      BY <1>1, <2>1, OtherBits
    <2>3. AtNothing'
      BY <1>1, <1>9, <2>1, <2>2 DEF AtGiveUp, AtNothing, TargetReady
    <2> QED
      BY <2>1, <2>3 DEF WireAt
  <1>10. ASSUME AtDataIn PROVE Kept
    <2>1. Head(queue) = "data_in" /\ ~drive /\ queue' = <<>> /\ left' = 0
      BY <1>1, <1>10, SendsNext DEF Wire!Sends, HostTypeOK
    <2>2. ~spoiled => phase = "data_out" /\ bit = 32
      BY <1>1, <1>10 DEF AtDataIn
    <2>3. ~spoiled => phase' = "turn_back" /\ packet' = packet
      BY <1>1, <2>1, <2>2, OtherBits
    <2>4. AtNothing'
      BY <1>1, <2>1, <2>2, <2>3 DEF AtNothing, TargetReady, TargetRefused, TargetTypeOK
    <2> QED
      BY <2>1, <2>4 DEF WireAt
  <1>11. ASSUME AtDataOut PROVE Kept
    <2>1. Head(queue) = "data_out" /\ drive /\ queue' = <<>> /\ left' = 0
      BY <1>1, <1>11, SendsNext DEF Wire!Sends, HostTypeOK
    <2>2. ~spoiled => phase = "data_in" /\ bit = 32
      BY <1>1, <1>11, <2>1 DEF AtDataOut
    <2>3. ~spoiled => phase' = "idle"
      BY <1>1, <2>1, <2>2, OtherBits
    <2>4. AtNothing'
      BY <1>1, <2>1, <2>3 DEF AtNothing, TargetReady
    <2> QED
      BY <2>1, <2>4 DEF WireAt
  <1>12. ASSUME AtEnd PROVE Kept
    <2>1. Head(queue) = "end" /\ drive /\ queue' = <<"off">> /\ left' = 0
      BY <1>1, <1>12, SendsNext, AloneOrLast, WireLengths DEF Wire!Sends, HostTypeOK
    <2>2. phase = "idle" => phase' = "idle"
      BY <1>1, <2>1, OtherBits
    <2>3. AtOff'
      BY <1>1, <1>12, <2>1, <2>2 DEF AtEnd, AtOff, TargetReady
    <2> QED
      BY <2>1, <2>3 DEF WireAt
  <1>13. ~AtNothing /\ ~AtOff /\ \A c \in WireCommands : ~AtAck(c)
    BY <1>1, SendsNext DEF AtNothing, AtOff
  <1>14. Kept
    BY <1>1, <1>3, <1>4, <1>5, <1>6, <1>7, <1>8, <1>9, <1>10, <1>11, <1>12, <1>13 DEF WireAt
  <1>15. HostTypeOK'
    BY <1>1, <1>14, Zenon DEF HostTypeOK
  <1> QED
    BY <1>2, <1>14, <1>15 DEF WireInv

LEMMA AnswerKeeps ==
  ASSUME WireInv, NEW a \in {"OK", "WAIT", "FAULT", "none"}, Wire!Acknowledge(a)
  PROVE  WireInv'
  <1>1. /\ TargetTypeOK /\ HostTypeOK /\ WireAt /\ queue # <<>> /\ left = 1 /\ ~drive
        /\ Head(queue) = "ack" /\ Wire!Clocked("float")
        /\ spoiled' = (spoiled \/ phase # "ack" \/ a # packet.ack)
        /\ drive' = drive /\ retry' = retry
    BY DEF WireInv, Wire!Acknowledge
  <1>2. TargetTypeOK'
    BY <1>1, TargetKeeps
  <1>3. PICK c \in WireCommands : AtAck(c) /\ queue[2] = c
    BY <1>1, SendsNext DEF WireAt, AtSelect, AtSwitch, AtReset, AtLow, WireCommands
  <1>4. IF a = "WAIT" /\ retry /\ attempt < MAX_ATTEMPTS
        THEN /\ attempt' = attempt + 1
             /\ \/ Wire!Go(<<"idle">>)
                \/ Wire!Go(<<"idle", c, "ack", c>>)
        ELSE /\ attempt' = 0
             /\ Wire!Go(IF a # "OK" THEN <<>>
                   ELSE IF c = "read" THEN <<"data_in">> ELSE <<"data_out">>)
    BY <1>3 DEF Wire!Acknowledge
  <1>5. attempt' \in Nat
    BY <1>1, <1>4 DEF HostTypeOK
  <1>6. ~spoiled' => /\ ~spoiled /\ a = packet.ack /\ phase = "ack"
                     /\ packet.write = (c = "write") /\ bit = 2
    <2>1. ~spoiled' => ~spoiled /\ a = packet.ack /\ phase = "ack"
      BY <1>1, Zenon
    <2>2. ~spoiled /\ phase = "ack" => packet.write = (c = "write") /\ bit = 2
      BY <1>1, <1>3 DEF AtAck
    <2> QED
      BY <2>1, <2>2
  <1>7. ~spoiled' =>
          /\ bit' = 0 /\ packet' = packet
          /\ phase' = IF packet.ack = "OK" /\ ~packet.write THEN "data_out" ELSE "turn_back"
    BY <1>1, <1>6, OtherBits
  <1> DEFINE Kept == WireAt' /\ left' \in Nat
  <1>8. ASSUME a = "WAIT" /\ retry /\ attempt < MAX_ATTEMPTS
        PROVE  Kept
    <2>1. ~spoiled' => TargetReady'
      BY <1>1, <1>6, <1>7, <1>8 DEF TargetReady, TargetRefused
    <2>2. CASE Wire!Go(<<"idle">>)
      <3>1. queue' = <<"idle">> /\ left' = Wire!Length("idle")
        BY <2>2, AloneOrLast, Zenon DEF Wire!Go
      <3>2. left' \in Nat /\ 1 <= left'
        BY <1>1, <3>1, WireLengths
      <3>3. AtGiveUp'
        BY <2>1, <3>1, <3>2 DEF AtGiveUp
      <3> QED
        BY <3>2, <3>3 DEF WireAt
    <2>3. CASE Wire!Go(<<"idle", c, "ack", c>>)
      <3>1. queue' = <<"idle", c, "ack", c>> /\ left' = Wire!Length("idle")
        BY <2>3, Commanded, Zenon DEF Wire!Go
      <3>2. left' \in Nat /\ 1 <= left'
        BY <1>1, <3>1, WireLengths
      <3>3. AtRetry(c)'
        BY <2>1, <3>1, <3>2 DEF AtRetry
      <3> QED
        BY <3>2, <3>3 DEF WireAt
    <2> QED
      BY <1>4, <1>8, <2>2, <2>3
  <1>9. ASSUME ~(a = "WAIT" /\ retry /\ attempt < MAX_ATTEMPTS)
        PROVE  Kept
    <2>1. CASE a # "OK"
      <3>1. queue' = <<>> /\ left' = 0
        BY <1>4, <1>9, <2>1 DEF Wire!Go
      <3>2. AtNothing'
        BY <1>1, <1>6, <1>7, <2>1, <3>1 DEF AtNothing, TargetReady, TargetRefused
      <3> QED
        BY <3>1, <3>2 DEF WireAt
    <2>2. CASE a = "OK" /\ c = "read"
      <3>1. queue' = <<"data_in">> /\ left' = 33
        BY <1>1, <1>4, <1>9, <2>2, WireLengths, AloneOrLast DEF Wire!Go
      <3>2. AtDataIn'
        BY <1>1, <1>6, <1>7, <2>2, <3>1 DEF AtDataIn
      <3> QED
        BY <3>1, <3>2 DEF WireAt
    <2>3. CASE a = "OK" /\ c # "read"
      <3>1. queue' = <<"data_out">> /\ left' = 33
        BY <1>1, <1>4, <1>9, <2>3, WireLengths, AloneOrLast DEF Wire!Go
      <3>2. c = "write"
        BY <2>3 DEF WireCommands
      <3>3. ~spoiled' => packet.write /\ packet.ack = "OK"
        BY <1>6, <2>3, <3>2
      <3>4. AtDataOut'
        BY <1>1, <1>7, <3>1, <3>3 DEF AtDataOut
      <3> QED
        BY <3>1, <3>4 DEF WireAt
    <2> QED
      BY <2>1, <2>2, <2>3
  <1>10. HostTypeOK'
    <2>1. spoiled' \in BOOLEAN
      BY <1>1
    <2> QED
      BY <1>1, <1>5, <1>8, <1>9, <2>1, Zenon DEF HostTypeOK
  <1> QED
    BY <1>2, <1>8, <1>9, <1>10 DEF WireInv

LEMMA WireInvNext ==
  ASSUME WireInv, [Wire!Next]_Wire!vars
  PROVE  WireInv'
  <1>1. ASSUME queue = <<>>, TargetTypeOK, HostTypeOK,
               UNCHANGED <<drive, Wire!target, spoiled>>, left' \in Nat, attempt' \in Nat,
                 retry' \in BOOLEAN
        PROVE  TargetTypeOK' /\ HostTypeOK'
    BY <1>1, Zenon DEF TargetTypeOK, HostTypeOK, Wire!target
  <1>2. ASSUME queue = <<>> PROVE AtNothing
    BY <1>2, SendsNext, Zenon DEF WireInv, WireAt
  <1>3. CASE \E c \in {"read", "write"}, r \in BOOLEAN : Wire!Command(c, r)
    <2>1. PICK c \in WireCommands, r \in BOOLEAN : Wire!Command(c, r)
      BY <1>3 DEF WireCommands
    <2>2. /\ queue = <<>> /\ queue' = <<c, "ack", c>> /\ left' = 8
          /\ attempt' = 0 /\ retry' = r /\ UNCHANGED <<drive, Wire!target, spoiled>>
      <3>1. queue' = <<c, "ack", c>> /\ left' = Wire!Length(c)
        BY <2>1, Commanded, Zenon DEF Wire!Command, Wire!Go
      <3>2. Wire!Length(c) = 8
        BY WireLengths DEF WireInv, WireCommands
      <3> QED
        BY <2>1, <3>1, <3>2, Zenon DEF Wire!Command
    <2>3. TargetTypeOK' /\ HostTypeOK'
      BY <1>1, <2>2 DEF WireInv
    <2>4. ~spoiled' => TargetReady'
      BY <1>2, <2>2, Zenon DEF AtNothing, TargetReady, TargetRefused, Wire!target
    <2>5. AtCommand(c)'
      BY <2>2, <2>4 DEF AtCommand
    <2> QED
      BY <2>3, <2>5 DEF WireInv, WireAt
  <1>4. CASE Wire!InitializeSwd
    <2>1. /\ queue = <<>> /\ queue' = SelectCalls /\ left' = 64
          /\ attempt' = 0 /\ retry' = TRUE /\ UNCHANGED <<drive, Wire!target, spoiled>>
      <3>1. queue' = SelectCalls /\ left' = Wire!Length("ones")
        BY <1>4, WireCalls, Zenon DEF Wire!InitializeSwd, Wire!Go, SelectCalls
      <3> QED
        BY <1>4, <3>1, WireLengths DEF Wire!InitializeSwd, WireInv
    <2>2. TargetTypeOK' /\ HostTypeOK'
      BY <1>1, <2>1 DEF WireInv
    <2>3. TargetLosesIn(left)'
      <3>1. \A b \in Nat : 35 - b <= 64 /\ 36 - b <= 64 /\ 39 - b <= 64
        OBVIOUS
      <3>2. 35 - bit' <= 64 /\ 36 - bit' <= 64 /\ 39 - bit' <= 64
        BY <2>2, <3>1, Zenon DEF TargetTypeOK
      <3> QED
        BY <2>1, <3>2 DEF TargetLosesIn
    <2>4. ~spoiled' =>
            ~Wire!TargetDrives' /\ (~drive' => TargetRefused') /\ (drive' => phase' = "idle")
      BY <1>2, <2>1 DEF AtNothing, TargetReady, TargetRefused, Wire!TargetDrives,
         Wire!target
    <2>5. AtSelect'
      BY <2>1, <2>3, <2>4 DEF AtSelect
    <2> QED
      BY <2>2, <2>5 DEF WireInv, WireAt
  <1>5. CASE Wire!Disable
    <2>1. /\ queue = <<>> /\ queue' = <<"end", "off">> /\ left' = 1
          /\ UNCHANGED <<drive, attempt, retry, Wire!target, spoiled>>
      BY <1>5 DEF Wire!Disable
    <2>2. TargetTypeOK' /\ HostTypeOK'
      <3>1. left' \in Nat /\ attempt' \in Nat /\ retry' \in BOOLEAN
        BY <2>1 DEF WireInv, HostTypeOK
      <3> QED
        BY <1>1, <2>1, <3>1 DEF WireInv
    <2>3. ~spoiled' => TargetReady'
      BY <1>2, <2>1, Zenon DEF AtNothing, TargetReady, TargetRefused, Wire!target
    <2>4. AtEnd'
      BY <2>1, <2>3 DEF AtEnd
    <2> QED
      BY <2>2, <2>4 DEF WireInv, WireAt
  <1>6. CASE Wire!Off
    <2>1. /\ queue' = <<>> /\ left' = 0 /\ spoiled' = TRUE
          /\ UNCHANGED <<drive, attempt, retry, Wire!target>>
      BY <1>6 DEF Wire!Off, Wire!Go
    <2>2. TargetTypeOK'
      BY <2>1, Zenon DEF WireInv, TargetTypeOK, Wire!target
    <2>3. HostTypeOK'
      BY <2>1 DEF WireInv, HostTypeOK
    <2>4. AtNothing'
      BY <2>1 DEF AtNothing
    <2> QED
      BY <2>2, <2>3, <2>4 DEF WireInv, WireAt
  <1>7. CASE UNCHANGED Wire!vars
    <2>1. /\ TargetTypeOK' /\ HostTypeOK'
          /\ (TargetReady => TargetReady') /\ (TargetRefused => TargetRefused')
      BY <1>7, Zenon DEF Wire!vars, Wire!host, Wire!target, WireInv, TargetTypeOK,
         HostTypeOK, TargetReady, TargetRefused
    <2>2. /\ AtNothing => AtNothing'
          /\ AtGiveUp => AtGiveUp'
          /\ AtEnd => AtEnd'
          /\ AtOff => AtOff'
      BY <1>7, <2>1, Zenon DEF Wire!vars, Wire!host, Wire!target, AtNothing, AtGiveUp,
         AtEnd, AtOff
    <2>3. (AtSwitch => AtSwitch') /\ (AtReset => AtReset') /\ (AtLow => AtLow')
      BY <1>7, Zenon DEF Wire!vars, Wire!host, Wire!target, AtSwitch, AtReset, AtLow
    <2>4. ASSUME AtSelect PROVE AtSelect'
      <3>1. TargetLosesIn(left) => TargetLosesIn(left)'
        BY <1>7, Zenon DEF Wire!vars, Wire!host, Wire!target, TargetLosesIn
      <3> QED
        BY <1>7, <2>1, <2>4, <3>1, Zenon DEF Wire!vars, Wire!host, Wire!target, AtSelect,
           Wire!TargetDrives
    <2>5. (AtDataIn => AtDataIn') /\ (AtDataOut => AtDataOut')
      BY <1>7, Zenon DEF Wire!vars, Wire!host, Wire!target, AtDataIn, AtDataOut
    <2>6. ASSUME NEW c \in WireCommands
          PROVE  /\ AtCommand(c) => AtCommand(c)'
                 /\ AtAck(c) => AtAck(c)'
                 /\ AtRetry(c) => AtRetry(c)'
      BY <1>7, <2>1, Zenon DEF Wire!vars, Wire!host, Wire!target, AtCommand, AtAck, AtRetry
    <2> QED
      BY <2>1, <2>2, <2>3, <2>4, <2>5, <2>6, Zenon DEF WireInv, WireAt
  <1> QED
    BY <1>3, <1>4, <1>5, <1>6, <1>7, TurnaroundKeeps, BitKeeps, LastBitKeeps, AnswerKeeps
       DEF Wire!Next

LEMMA WireFollows ==
  ASSUME WireInv
  PROVE  Wire!WireInStep
  <1> SUFFICES ASSUME ~spoiled, queue # <<>>
               PROVE  /\ ~(drive /\ Wire!TargetDrives)
                      /\ (drive = Wire!Sends(Head(queue)) /\ left = Wire!Length(Head(queue))) =>
                           /\ Head(queue) \in {"read", "write"} => phase = "idle"
                           /\ Head(queue) = "data_in" => bit = 0 /\ phase = "data_out"
                           /\ Head(queue) = "data_out" => bit = 0 /\ phase = "data_in"
    BY DEF Wire!WireInStep
  <1>1. HostTypeOK /\ WireAt /\ ~AtNothing
    BY DEF WireInv, AtNothing
  <1>2. CASE AtSelect \/ AtSwitch \/ AtReset \/ AtLow
    BY <1>2, SendsNext DEF AtSelect, AtSwitch, AtReset, AtLow, Wire!TargetDrives
  <1>3. ASSUME NEW c \in WireCommands, AtCommand(c)
        PROVE  /\ ~Wire!TargetDrives \/ ~drive
               /\ drive /\ left = 8 => phase = "idle"
    BY <1>3 DEF AtCommand, TargetReady, TargetRefused, Wire!TargetDrives
  <1>4. ASSUME NEW c \in WireCommands, AtAck(c)
        PROVE  ~Wire!TargetDrives \/ ~drive
    BY <1>4 DEF AtAck, Wire!TargetDrives
  <1>5. ASSUME NEW c \in WireCommands, AtRetry(c)
        PROVE  ~Wire!TargetDrives \/ ~drive
    BY <1>5 DEF AtRetry, Wire!TargetDrives, TargetReady, TargetRefused
  <1>6. CASE AtGiveUp \/ AtEnd \/ AtOff
    BY <1>6, SendsNext DEF AtGiveUp, AtEnd, AtOff, TargetReady, TargetRefused,
       Wire!TargetDrives
  <1>7. CASE AtDataIn
    BY <1>1, <1>7, SendsNext, WireLengths DEF AtDataIn, Wire!TargetDrives
  <1>8. CASE AtDataOut
    <2>1. Head(queue) = "data_out" /\ Wire!Length("data_out") = 33 /\ Wire!Sends("data_out")
      BY <1>1, <1>8, SendsNext, WireLengths DEF Wire!Sends
    <2>2. /\ drive => phase = "data_in" /\ bit = 33 - left
          /\ ~drive => phase = "turn_back"
      BY <1>8 DEF AtDataOut
    <2>3. ~(drive /\ Wire!TargetDrives)
      BY <2>2 DEF Wire!TargetDrives
    <2>4. CASE drive
      <3>1. left = Wire!Length(Head(queue)) => left = 33
        BY <2>1, Zenon
      <3>2. left = 33 => bit = 0
        BY <2>2, <2>4
      <3> QED
        BY <2>1, <2>2, <2>3, <2>4, <3>1, <3>2
    <2>5. CASE ~drive
      <3>1. Wire!Sends(Head(queue))
        BY <2>1, Zenon
      <3>2. ~(drive = Wire!Sends(Head(queue)))
        BY <2>5, <3>1, Zenon
      <3> QED
        BY <2>3, <3>2, Zenon
    <2> QED
      BY <2>4, <2>5
  <1>9. CASE \E c \in WireCommands : AtCommand(c)
    <2>1. PICK c \in WireCommands : AtCommand(c)
      BY <1>9
    <2>2. Head(queue) = c /\ Wire!Length(c) = 8 /\ Wire!Sends(c) = TRUE
      BY <1>1, <2>1, SendsNext, WireLengths DEF WireCommands, Wire!Sends
    <2>3. c \notin {"data_in", "data_out"}
      BY DEF WireCommands
    <2> QED
      BY <1>3, <2>1, <2>2, <2>3
  <1>10. CASE \E c \in WireCommands : AtAck(c) \/ AtRetry(c)
    <2>1. PICK c \in WireCommands : AtAck(c) \/ AtRetry(c)
      BY <1>10
    <2>2. Head(queue) \in {"ack", "idle"} /\ (~Wire!TargetDrives \/ ~drive)
      BY <1>4, <1>5, <2>1, SendsNext
    <2> QED
      BY <2>2
  <1> QED
    BY <1>1, <1>2, <1>6, <1>7, <1>8, <1>9, <1>10 DEF WireAt

-----------------------------------------------------------------------------
(* The whole flash.  After the first batch of a page write_entire_flash    *)
(* gets on only when accesses are lost, one for each batch that is left.   *)
FewFaults == PageRows \in Nat /\ LinkFaults \in Nat /\ LinkFaults < 4 * PageRows - 1

AllErased == \A r \in Erasing!Rows : rows[r] = Erasing!Erased
ErrorMeansErased == "error" \in flags => AllErased
PageIsErased ==
  \A r \in Erasing!Rows : rows[r] = IF Erasing!PageOf(r) = argument THEN Erasing!Erased ELSE before[r]

ErasingGoesOn ==
  /\ step <= 8
  /\ step = 2 => lock = "half"
  /\ step >= 3 => lock = "unlocked"
  /\ step >= 2 => ErrorMeansErased
  /\ step \in {3, 4, 8} => cr = {}
  /\ operation = "mass_erase" =>
       /\ step \in {5, 6, 7} => cr = {"MER1"}
       /\ step >= 6 => AllErased
  /\ operation = "erase_page" =>
       /\ step \in {5, 6, 7} => cr = {"PER"} /\ cr_page = argument
       /\ step \in 1..5 => rows = before
       /\ step >= 6 => PageIsErased
WritingGoesOn ==
  /\ step <= 13
  /\ step = 2 => lock = "half"
  /\ step >= 3 => lock = "unlocked"
  /\ 1 <= step /\ step <= 9 => batch = 0
  /\ step = 10 /\ batch >= 1 => "FSTPG" \notin cr /\ batch <= lost + 1
  /\ step = 11 /\ batch >= 1 => batch <= lost + 1 /\ (success => "error" \in flags)
  /\ step \in {12, 13} /\ batch >= 1 => batch <= lost

Locks == {"locked", "half", "unlocked", "jammed"}
FlashTypeOK ==
  /\ step \in Nat /\ batch \in Nat /\ lost \in Nat /\ lost <= LinkFaults
  /\ operation \in Erasing!Operations
  /\ lock \in Locks
LockedIsClear == lock \in {"locked", "half"} => cr = {} /\ ErrorMeansErased
FlashInv ==
  /\ FlashTypeOK /\ LockedIsClear
  /\ step # 0 => result = "none"
  /\ operation \in {"mass_erase", "erase_page"} => ErasingGoesOn
  /\ operation = "write_entire_flash" => WritingGoesOn
  /\ Erasing!FlashIsAsReported

EraseOperations == {"mass_erase", "erase_page"}

(* Where each operation stands when it does something. *)
LEMMA ErasingSteps ==
  ASSUME operation \in EraseOperations, step \in Nat, step <= 8,
         NEW what, Erasing!Doing(what)
  PROVE  /\ Len(Erasing!Script(operation)) = 8
         /\ what \in {"key1", "key2", "wait", "mer1", "per", "start", "clear", "lock"}
         /\ what = "key1" => step = 1
         /\ what = "key2" => step = 2
         /\ what = "wait" => step \in {3, 6}
         /\ what = "mer1" => step = 4 /\ operation = "mass_erase"
         /\ what = "per" => step = 4 /\ operation = "erase_page"
         /\ what = "start" => step = 5
         /\ what = "clear" => step = 7
         /\ what = "lock" => step = 8
  <1>1. step \in {1, 2, 3, 4, 5, 6, 7, 8} /\ Erasing!Script(operation)[step] = what
    BY DEF Erasing!Doing
  <1>2. CASE operation = "mass_erase"
    <2> DEFINE script ==
                 <<"key1", "key2", "wait", "mer1", "start", "wait", "clear", "lock">>
    <2>1. Erasing!Script(operation) = script
      BY <1>2 DEF Erasing!Script
    <2>2. Len(script) = 8 /\ script[1] = "key1" /\ script[2] = "key2" /\ script[3] = "wait"
          /\ script[4] = "mer1" /\ script[5] = "start" /\ script[6] = "wait"
          /\ script[7] = "clear" /\ script[8] = "lock"
      OBVIOUS
    <2> HIDE DEF script
    <2> QED
      BY <1>1, <1>2, <2>1, <2>2
  <1>3. CASE operation = "erase_page"
    <2> DEFINE script ==
                 <<"key1", "key2", "wait", "per", "start", "wait", "clear", "lock">>
    <2>1. Erasing!Script(operation) = script
      BY <1>3 DEF Erasing!Script
    <2>2. Len(script) = 8 /\ script[1] = "key1" /\ script[2] = "key2" /\ script[3] = "wait"
          /\ script[4] = "per" /\ script[5] = "start" /\ script[6] = "wait"
          /\ script[7] = "clear" /\ script[8] = "lock"
      OBVIOUS
    <2> HIDE DEF script
    <2> QED
      BY <1>1, <1>3, <2>1, <2>2
  <1> QED
    BY <1>2, <1>3 DEF EraseOperations

LEMMA WritingSteps ==
  ASSUME operation = "write_entire_flash", step \in Nat, step <= 13,
         NEW what, Erasing!Doing(what)
  PROVE  /\ Len(Erasing!Script(operation)) = 15
         /\ what \in {"key1", "key2", "wait", "mer1", "start", "clear",
                      "fast", "batch", "poll", "acknowledge", "stop"}
         /\ what = "key1" => step = 1
         /\ what = "key2" => step = 2
         /\ what = "wait" => step \in {3, 6, 8}
         /\ what = "mer1" => step = 4
         /\ what = "start" => step = 5
         /\ what = "clear" => step = 7
         /\ what = "fast" => step = 9
         /\ what = "batch" => step = 10
         /\ what = "poll" => step = 11
         /\ what = "acknowledge" => step = 12
         /\ what = "stop" => step = 13
  <1>1. /\ step \in {1, 2, 3, 4, 5, 6, 7, 8, 9, 10, 11, 12, 13}
        /\ Erasing!Script(operation)[step] = what
    BY DEF Erasing!Doing
  <1> DEFINE script ==
               <<"key1", "key2", "wait", "mer1", "start", "wait", "clear",
                 "wait", "fast", "batch", "poll", "acknowledge", "stop", "wait", "lock">>
  <1>2. Erasing!Script(operation) = script
    BY DEF Erasing!Script
  <1>3. Len(script) = 15 /\ script[1] = "key1" /\ script[2] = "key2" /\ script[3] = "wait"
        /\ script[4] = "mer1" /\ script[5] = "start" /\ script[6] = "wait"
        /\ script[7] = "clear" /\ script[8] = "wait" /\ script[9] = "fast"
        /\ script[10] = "batch" /\ script[11] = "poll" /\ script[12] = "acknowledge"
        /\ script[13] = "stop"
    OBVIOUS
  <1> HIDE DEF script
  <1> QED
    BY <1>1, <1>2, <1>3

(* A call that gives up leaves whatever it has done so far. *)
LEMMA GivingUp ==
  ASSUME FlashInv, Erasing!Return(FALSE), UNCHANGED Erasing!call, LockedIsClear',
           lock' \in Locks,
         batch' \in Nat, lost' \in Nat, lost' <= LinkFaults
  PROVE  FlashInv'
  <1>1. step' = 0 /\ result' = "failed" /\ operation' = operation
    BY DEF Erasing!Return, Erasing!call
  <1>2. FlashTypeOK'
    BY <1>1 DEF FlashInv, FlashTypeOK
  <1>3. ErasingGoesOn' /\ WritingGoesOn'
    BY <1>1 DEF ErasingGoesOn, WritingGoesOn
  <1> QED
    BY <1>1, <1>2, <1>3 DEF FlashInv, Erasing!FlashIsAsReported

LEMMA StepTaken ==
  ASSUME NEW n \in Nat, NEW s \in Nat, Len(Erasing!Script(operation)) = n, Erasing!GoTo(s)
  PROVE  /\ s <= n => step' = s /\ success' = TRUE /\ result' = result
         /\ s > n => Erasing!Return(TRUE)
  <1>1. s <= n => ~(s > n)
    OBVIOUS
  <1>2. Erasing!GoTo(s) = IF s > n THEN Erasing!Return(TRUE)
                  ELSE step' = s /\ success' = TRUE /\ UNCHANGED result
    BY Zenon DEF Erasing!GoTo
  <1> QED
    BY <1>1, <1>2, Zenon

(* ... and one that goes on is where its next step expects it. *)
LEMMA GoingOn ==
  ASSUME FlashInv, step # 0, NEW s \in Nat, NEW n \in Nat, Erasing!GoTo(s), s <= n,
         Len(Erasing!Script(operation)) = n, s # 0,
         UNCHANGED Erasing!call, LockedIsClear', lock' \in Locks,
         batch' \in Nat, lost' \in Nat, lost' <= LinkFaults,
         operation \in EraseOperations => ErasingGoesOn',
         operation = "write_entire_flash" => WritingGoesOn'
  PROVE  FlashInv'
  <1>1. step' = s /\ result' = result /\ operation' = operation
    BY StepTaken, Zenon DEF Erasing!call
  <1>2. FlashTypeOK'
    BY <1>1 DEF FlashInv, FlashTypeOK
  <1>3. result' = "none"
    BY <1>1 DEF FlashInv
  <1> QED
    BY <1>1, <1>2, <1>3 DEF FlashInv, Erasing!FlashIsAsReported, EraseOperations

LEMMA FaultsAreFew ==
  ASSUME FlashInv, FewFaults, Erasing!Lose \/ Erasing!Keep
  PROVE  lost' \in Nat /\ lost' <= LinkFaults
  BY DEF FlashInv, FlashTypeOK, FewFaults, Erasing!Lose, Erasing!Keep

LEMMA FlashInvInit == ASSUME FewFaults, Erasing!Init PROVE FlashInv
  <1>1. /\ step = 0 /\ batch = 0 /\ lost = 0 /\ operation = "mass_erase"
        /\ lock = "locked" /\ cr = {} /\ flags = {} /\ result = "none"
    BY DEF Erasing!Init
  <1>2. LockedIsClear
    BY <1>1 DEF LockedIsClear, ErrorMeansErased
  <1>3. FlashTypeOK
    BY <1>1 DEF FlashTypeOK, FewFaults, Erasing!Operations, Locks
  <1>4. ErasingGoesOn
    BY <1>1 DEF ErasingGoesOn
  <1> QED
    BY <1>1, <1>2, <1>3, <1>4 DEF FlashInv, Erasing!FlashIsAsReported

LEMMA FlashCallKeeps ==
  ASSUME FlashInv, NEW op \in Erasing!Operations, NEW n, Erasing!Call(op, n)
  PROVE  FlashInv'
  <1>1. /\ operation' = op /\ step' = 1 /\ batch' = 0 /\ result' = "none" /\ before' = rows
        /\ lock' = lock /\ cr' = cr /\ flags' = flags /\ rows' = rows /\ lost' = lost
    BY DEF Erasing!Call, Erasing!target
  <1>2. FlashTypeOK'
    BY <1>1 DEF FlashInv, FlashTypeOK
  <1>3. LockedIsClear'
    BY <1>1 DEF FlashInv, LockedIsClear, ErrorMeansErased, AllErased
  <1>4. ErasingGoesOn' /\ WritingGoesOn'
    BY <1>1 DEF ErasingGoesOn, WritingGoesOn
  <1> QED
    BY <1>1, <1>2, <1>3, <1>4 DEF FlashInv, Erasing!FlashIsAsReported

LEMMA FlashResetKeeps ==
  ASSUME FlashInv, Erasing!Reset
  PROVE  FlashInv'
  <1>1. /\ operation' = operation /\ step' = 0 /\ batch' = batch /\ result' = "none"
        /\ lock' = "locked" /\ cr' = {} /\ flags' = {} /\ lost' = lost
    BY DEF Erasing!Reset, Erasing!call, Erasing!loops
  <1>2. FlashTypeOK'
    BY <1>1 DEF FlashInv, FlashTypeOK, Locks
  <1>3. LockedIsClear'
    BY <1>1 DEF LockedIsClear, ErrorMeansErased
  <1>4. ErasingGoesOn' /\ WritingGoesOn'
    BY <1>1 DEF ErasingGoesOn, WritingGoesOn
  <1> QED
    BY <1>1, <1>2, <1>3, <1>4 DEF FlashInv, Erasing!FlashIsAsReported

LEMMA SameFlash ==
  ASSUME FlashInv,
         UNCHANGED <<Erasing!call, step, Erasing!loops, success, result, lock, cr, cr_page,
           flags, rows, lost>>
  PROVE  FlashInv'
  <1>1. FlashTypeOK' /\ LockedIsClear'
    BY Zenon DEF FlashInv, FlashTypeOK, LockedIsClear, ErrorMeansErased, AllErased,
       Erasing!loops, Erasing!call
  <1>2. ErasingGoesOn => ErasingGoesOn'
    BY Zenon DEF ErasingGoesOn, ErrorMeansErased, AllErased, PageIsErased, Erasing!call
  <1>3. WritingGoesOn => WritingGoesOn'
    BY Zenon DEF WritingGoesOn, Erasing!loops
  <1>4. Erasing!FlashIsAsReported => Erasing!FlashIsAsReported'
    BY Zenon DEF Erasing!FlashIsAsReported, Erasing!call
  <1> QED
    BY <1>1, <1>2, <1>3, <1>4, Zenon DEF FlashInv, Erasing!call

LEMMA StepStands ==
  ASSUME FlashInv, NEW what, Erasing!Doing(what)
  PROVE  /\ step \in Nat /\ step # 0 /\ (operation \in EraseOperations => step <= 8)
         /\ operation = "write_entire_flash" => step <= 13
         /\ operation \in EraseOperations \/ operation = "write_entire_flash"
  BY DEF Erasing!Doing, FlashInv, FlashTypeOK, Erasing!Operations, EraseOperations,
     ErasingGoesOn, WritingGoesOn

LEMMA NextStep ==
  ASSUME FlashInv, FewFaults, NEW what, Erasing!Doing(what),
         Erasing!GoTo(step + 1), UNCHANGED Erasing!call, Erasing!Keep,
         what # "lock",
         batch' \in Nat, LockedIsClear', lock' \in Locks,
         step' = step + 1 /\ operation \in EraseOperations => ErasingGoesOn',
         step' = step + 1 /\ operation = "write_entire_flash" => WritingGoesOn'
  PROVE  FlashInv'
  <1>1. lost' \in Nat /\ lost' <= LinkFaults
    BY FaultsAreFew
  <1>2. PICK n \in Nat : Len(Erasing!Script(operation)) = n /\ step + 1 <= n
    <2>1. CASE operation \in EraseOperations
      <3>1. Len(Erasing!Script(operation)) = 8 /\ step # 8
        BY <2>1, StepStands, ErasingSteps
      <3>2. 8 \in Nat /\ step + 1 <= 8
        BY <2>1, <3>1, StepStands
      <3> QED
        BY <3>1, <3>2, Zenon
    <2>2. CASE operation = "write_entire_flash"
      <3>1. Len(Erasing!Script(operation)) = 15 /\ step <= 13
        BY <2>2, StepStands, WritingSteps
      <3>2. 15 \in Nat /\ step + 1 <= 15
        BY <3>1, StepStands
      <3> QED
        BY <3>1, <3>2, Zenon
    <2> QED
      BY <2>1, <2>2, StepStands
  <1>3. step # 0 /\ step \in Nat /\ step + 1 \in Nat /\ step + 1 # 0
    BY StepStands
  <1>4. step' = step + 1
    BY <1>2, <1>3, StepTaken
  <1> QED
    BY <1>1, <1>2, <1>3, <1>4, GoingOn

LEMMA KeyKeeps ==
  ASSUME FlashInv, FewFaults, Erasing!UnlockFlash
  PROVE  FlashInv'
  <1>1. PICK key \in {"key1", "key2"}, expected \in {"locked", "half"},
             opened \in {"half", "unlocked"} :
          /\ Erasing!Key(key, expected, opened)
          /\ key = "key1" => opened = "half" /\ expected = "locked"
          /\ key = "key2" => opened = "unlocked" /\ expected = "half"
    BY DEF Erasing!UnlockFlash
  <1>2. /\ Erasing!Doing(key) /\ UNCHANGED Erasing!call /\ batch' = batch
        /\ flags' = flags /\ rows' = rows
        /\ cr' = cr /\ lock' \in {lock, opened, "jammed"} /\ (Erasing!Lose \/ Erasing!Keep)
        /\ \/ Erasing!Return(FALSE)
           \/ Erasing!GoTo(step + 1) /\ lock = expected /\ lock' = opened /\ Erasing!Keep
        /\ lock' \in {"locked", "half"} => lock \in {"locked", "half"}
    BY <1>1 DEF Erasing!Key, Erasing!Access, Erasing!AccessTo, Erasing!call, Erasing!loops,
       Erasing!target, Erasing!Keep, Erasing!Lose
  <1>3. lock' \in Locks /\ batch' \in Nat
    BY <1>2 DEF FlashInv, FlashTypeOK, Locks
  <1>4. LockedIsClear'
    BY <1>2 DEF FlashInv, LockedIsClear, ErrorMeansErased, AllErased
  <1>5. CASE Erasing!Return(FALSE)
    BY <1>2, <1>3, <1>4, <1>5, FaultsAreFew, GivingUp
  <1>6. CASE Erasing!GoTo(step + 1) /\ lock = expected /\ lock' = opened /\ Erasing!Keep
    <2>1. ErrorMeansErased' /\ cr' = {}
      BY <1>2, <1>6 DEF FlashInv, LockedIsClear, ErrorMeansErased, AllErased
    <2>2. ASSUME operation \in EraseOperations, step' = step + 1 PROVE ErasingGoesOn'
      <3>1. (key = "key1" => step = 1) /\ (key = "key2" => step = 2)
        BY <1>2, <2>2, StepStands, ErasingSteps
      <3>2. operation = "erase_page" => rows' = before'
        BY <1>1, <1>2, <3>1 DEF FlashInv, ErasingGoesOn, Erasing!call
      <3> QED
        BY <1>1, <1>2, <1>6, <2>1, <2>2, <3>1, <3>2 DEF ErasingGoesOn, Erasing!call
    <2>3. ASSUME operation = "write_entire_flash", step' = step + 1 PROVE WritingGoesOn'
      <3>1. (key = "key1" => step = 1) /\ (key = "key2" => step = 2)
        BY <1>2, <2>3, StepStands, WritingSteps
      <3>2. batch' = 0
        BY <1>1, <1>2, <2>3, <3>1 DEF FlashInv, WritingGoesOn
      <3> QED
        BY <1>1, <1>6, <2>3, <3>1, <3>2 DEF WritingGoesOn
    <2>4. key # "lock"
      BY <1>1
    <2> QED
      BY <1>2, <1>3, <1>4, <1>6, <2>2, <2>3, <2>4, NextStep
  <1> QED
    BY <1>2, <1>5, <1>6

LEMMA FlashWaitKeeps ==
  ASSUME FlashInv, FewFaults, Erasing!WaitWhileBusy
  PROVE  FlashInv'
  <1>1. /\ Erasing!Doing("wait") /\ UNCHANGED <<Erasing!call, Erasing!loops,
             Erasing!target>>
        /\ \/ Erasing!Lose /\ Erasing!Return(FALSE)
           \/ Erasing!Keep /\ (Erasing!GoTo(step) \/ Erasing!GoTo(step + 1))
    BY DEF Erasing!WaitWhileBusy, Erasing!AccessTo
  <1>2. /\ batch' = batch /\ lock' = lock /\ cr' = cr /\ flags' = flags /\ rows' = rows
        /\ cr_page' = cr_page /\ UNCHANGED Erasing!call
    BY <1>1 DEF Erasing!loops, Erasing!target
  <1>3. lock' \in Locks /\ batch' \in Nat
    BY <1>2 DEF FlashInv, FlashTypeOK
  <1>4. LockedIsClear' /\ (ErrorMeansErased => ErrorMeansErased') /\ (AllErased => AllErased')
        /\ (PageIsErased => PageIsErased')
    BY <1>2, Zenon DEF FlashInv, LockedIsClear, ErrorMeansErased, AllErased, PageIsErased,
       Erasing!call
  <1>5. CASE Erasing!Lose /\ Erasing!Return(FALSE)
    BY <1>2, <1>3, <1>4, <1>5, FaultsAreFew, GivingUp
  <1>6. ASSUME operation \in EraseOperations, step' \in {step, step + 1}
        PROVE ErasingGoesOn'
    <2>1. step \in {3, 6}
      BY <1>1, <1>6, StepStands, ErasingSteps
    <2>2. ErasingGoesOn /\ operation' = operation /\ argument' = argument /\ before' = before
      BY <1>2, <1>6 DEF FlashInv, Erasing!call, EraseOperations
    <2> QED
      BY <1>2, <1>4, <1>6, <2>1, <2>2 DEF ErasingGoesOn
  <1>7. ASSUME operation = "write_entire_flash", step' \in {step, step + 1}
        PROVE WritingGoesOn'
    <2>1. step \in {3, 6, 8}
      BY <1>1, <1>7, StepStands, WritingSteps
    <2> QED
      BY <1>2, <1>7, <2>1 DEF WritingGoesOn, FlashInv
  <1>8. CASE Erasing!GoTo(step + 1) /\ Erasing!Keep
    BY <1>1, <1>2, <1>3, <1>4, <1>6, <1>7, <1>8, NextStep
  <1>9. CASE Erasing!GoTo(step) /\ Erasing!Keep
    <2>1. step \in Nat /\ step # 0
      BY <1>1, StepStands
    <2>2. PICK n \in Nat : Len(Erasing!Script(operation)) = n /\ step <= n
      <3>1. CASE operation \in EraseOperations
        <4>1. Len(Erasing!Script(operation)) = 8 /\ step <= 8
          BY <1>1, <3>1, StepStands, ErasingSteps
        <4> QED
          BY <4>1
      <3>2. CASE operation = "write_entire_flash"
        <4>1. Len(Erasing!Script(operation)) = 15 /\ step <= 13
          BY <1>1, <3>2, StepStands, WritingSteps
        <4>2. 15 \in Nat /\ step <= 15
          BY <2>1, <4>1
        <4> QED
          BY <4>1, <4>2, Zenon
      <3> QED
        BY <1>1, <3>1, <3>2, StepStands
    <2>3. step' = step
      BY <1>9, <2>1, <2>2, StepTaken
    <2>4. lost' \in Nat /\ lost' <= LinkFaults
      BY <1>9, FaultsAreFew
    <2>5. /\ operation \in EraseOperations => ErasingGoesOn'
          /\ operation = "write_entire_flash" => WritingGoesOn'
      BY <1>6, <1>7, <2>3
    <2> QED
      BY <1>2, <1>3, <1>4, <1>9, <2>1, <2>2, <2>4, <2>5, GoingOn
  <1> QED
    BY <1>1, <1>5, <1>8, <1>9

LEMMA ControlKeeps ==
  ASSUME FlashInv, FewFaults, Erasing!UpdateControl
  PROVE  FlashInv'
  <1>1. PICK what \in {"mer1", "per", "clear", "fast"} :
          /\ Erasing!Doing(what) /\ UNCHANGED <<Erasing!call, Erasing!loops>>
          /\ lock' = lock /\ flags' = flags /\ rows' = rows
          /\ lock # "unlocked" => cr' = cr
          /\ \/ Erasing!Lose /\ Erasing!Return(FALSE)
             \/ /\ Erasing!Keep /\ Erasing!GoTo(step + 1)
                /\ lock = "unlocked" =>
                     /\ what = "mer1" => cr' = cr \union {"MER1"}
                     /\ what = "per" => cr' = cr \union {"PER"} /\ cr_page' = argument
                     /\ what = "clear" => cr' = cr \ {"MER1", "PER"} /\ cr_page' = cr_page
    BY DEF Erasing!UpdateControl, Erasing!Access, Erasing!AccessTo, Erasing!Control,
       Erasing!Select, Erasing!target
  <1>2. batch' = batch /\ UNCHANGED Erasing!call /\ argument' = argument /\ before' = before
        /\ operation' = operation
    BY <1>1 DEF Erasing!loops, Erasing!call
  <1>3. lock' \in Locks /\ batch' \in Nat
    BY <1>1, <1>2 DEF FlashInv, FlashTypeOK
  <1>4. (ErrorMeansErased => ErrorMeansErased') /\ (AllErased => AllErased') /\ (PageIsErased => PageIsErased')
    BY <1>1, <1>2, Zenon DEF ErrorMeansErased, AllErased, PageIsErased
  <1>5. LockedIsClear'
    BY <1>1, <1>4 DEF FlashInv, LockedIsClear
  <1>6. CASE Erasing!Lose /\ Erasing!Return(FALSE)
    BY <1>2, <1>3, <1>5, <1>6, FaultsAreFew, GivingUp
  <1>7. CASE ~(Erasing!Lose /\ Erasing!Return(FALSE))
    <2>1. ASSUME operation \in EraseOperations, step' = step + 1 PROVE ErasingGoesOn'
      <3>1. /\ what = "mer1" => step = 4 /\ operation = "mass_erase"
            /\ what = "per" => step = 4 /\ operation = "erase_page"
            /\ what = "clear" => step = 7
            /\ what \in {"mer1", "per", "clear"}
        BY <1>1, <2>1, StepStands, ErasingSteps
      <3>2. ErasingGoesOn /\ lock = "unlocked"
        BY <2>1, <3>1 DEF FlashInv, EraseOperations, ErasingGoesOn
      <3>3. /\ what = "mer1" => cr' = {"MER1"}
            /\ what = "per" => cr' = {"PER"} /\ cr_page' = argument'
            /\ what = "clear" => cr' = {}
        <4>1. /\ what \in {"mer1", "per"} => cr = {}
              /\ what = "clear" => cr \subseteq {"MER1", "PER"}
          BY <2>1, <3>1, <3>2 DEF ErasingGoesOn, EraseOperations
        <4> QED
          BY <1>1, <1>2, <1>7, <3>2, <4>1
      <3> QED
        BY <1>1, <1>2, <1>4, <2>1, <3>1, <3>2, <3>3 DEF ErasingGoesOn
    <2>2. ASSUME operation = "write_entire_flash", step' = step + 1 PROVE WritingGoesOn'
      <3>1. /\ what = "mer1" => step = 4
            /\ what = "clear" => step = 7
            /\ what = "fast" => step = 9
            /\ what \in {"mer1", "clear", "fast"}
        BY <1>1, <2>2, StepStands, WritingSteps
      <3> QED
        BY <1>1, <1>2, <2>2, <3>1 DEF FlashInv, WritingGoesOn
    <2>3. what # "lock"
      BY <1>1
    <2> QED
      BY <1>1, <1>2, <1>3, <1>5, <1>7, <2>1, <2>2, <2>3, NextStep
  <1> QED
    BY <1>6, <1>7

LEMMA StartKeeps ==
  ASSUME FlashInv, FewFaults, Erasing!StartErase
  PROVE  FlashInv'
  <1>1. /\ Erasing!Doing("start") /\ UNCHANGED <<Erasing!call, Erasing!loops>>
        /\ lock' = lock /\ cr' = cr /\ cr_page' = cr_page /\ flags' = flags
        /\ \/ rows' = rows
           \/ /\ lock = "unlocked" /\ "error" \notin flags
              /\ rows' = [r \in Erasing!Rows |-> IF "MER1" \in cr \/ ("PER" \in cr /\ Erasing!PageOf(r) = cr_page)
                                        THEN Erasing!Erased ELSE rows[r]]
        /\ \/ Erasing!Lose /\ Erasing!Return(FALSE)
           \/ /\ Erasing!Keep /\ Erasing!GoTo(step + 1)
              /\ lock = "unlocked" =>
                   IF "error" \in flags THEN rows' = rows
                   ELSE rows' = [r \in Erasing!Rows |-> IF "MER1" \in cr \/ ("PER" \in cr /\ Erasing!PageOf(r) = cr_page)
                                              THEN Erasing!Erased ELSE rows[r]]
    BY DEF Erasing!StartErase, Erasing!Access, Erasing!AccessTo, Erasing!Erase,
       Erasing!target
  <1>2. batch' = batch /\ UNCHANGED Erasing!call /\ argument' = argument /\ before' = before
        /\ operation' = operation
    BY <1>1 DEF Erasing!loops, Erasing!call
  <1>3. lock' \in Locks /\ batch' \in Nat
    BY <1>1, <1>2 DEF FlashInv, FlashTypeOK
  <1>4. ErrorMeansErased => ErrorMeansErased'
    <2>1. CASE rows' = rows
      BY <1>1, <2>1 DEF ErrorMeansErased, AllErased
    <2>2. CASE rows' # rows
      BY <1>1, <2>2 DEF ErrorMeansErased
    <2> QED
      BY <2>1, <2>2
  <1>5. LockedIsClear'
    BY <1>1, <1>4 DEF FlashInv, LockedIsClear
  <1>6. CASE Erasing!Lose /\ Erasing!Return(FALSE)
    BY <1>2, <1>3, <1>5, <1>6, FaultsAreFew, GivingUp
  <1>7. CASE ~(Erasing!Lose /\ Erasing!Return(FALSE))
    <2>1. ASSUME operation \in EraseOperations, step' = step + 1 PROVE ErasingGoesOn'
      <3>1. step = 5
        BY <1>1, <2>1, StepStands, ErasingSteps
      <3>2. ErasingGoesOn /\ lock = "unlocked" /\ ErrorMeansErased
        BY <2>1, <3>1 DEF FlashInv, EraseOperations, ErasingGoesOn
      <3>3. CASE operation = "mass_erase"
        <4>1. "MER1" \in cr
          BY <3>1, <3>2, <3>3 DEF ErasingGoesOn
        <4>2. AllErased'
          BY <1>1, <1>7, <3>2, <4>1 DEF AllErased, ErrorMeansErased
        <4> QED
          BY <1>1, <1>2, <1>4, <2>1, <3>1, <3>2, <3>3, <4>2 DEF ErasingGoesOn
      <3>4. CASE operation = "erase_page"
        <4>1. cr = {"PER"} /\ cr_page = argument /\ rows = before
          BY <3>1, <3>2, <3>4 DEF ErasingGoesOn
        <4>2. PageIsErased'
          <5>1. CASE "error" \in flags
            <6>1. rows' = rows /\ AllErased
              BY <1>1, <1>7, <3>2, <5>1 DEF ErrorMeansErased
            <6> QED
              BY <1>2, <4>1, <6>1 DEF AllErased, PageIsErased
          <5>2. CASE "error" \notin flags
            <6>1. rows' = [r \in Erasing!Rows |-> IF Erasing!PageOf(r) = argument THEN Erasing!Erased ELSE before[r]]
              BY <1>1, <1>7, <3>2, <4>1, <5>2
            <6> QED
              BY <1>2, <6>1 DEF PageIsErased
          <5> QED
            BY <5>1, <5>2
        <4> QED
          BY <1>1, <1>2, <1>4, <2>1, <3>1, <3>2, <3>4, <4>1, <4>2 DEF ErasingGoesOn
      <3> QED
        BY <2>1, <3>3, <3>4 DEF EraseOperations
    <2>2. ASSUME operation = "write_entire_flash", step' = step + 1 PROVE WritingGoesOn'
      <3>1. step = 5
        BY <1>1, <2>2, StepStands, WritingSteps
      <3> QED
        BY <1>1, <1>2, <2>2, <3>1 DEF FlashInv, WritingGoesOn
    <2> QED
      BY <1>1, <1>2, <1>3, <1>5, <1>7, <2>1, <2>2, NextStep
  <1> QED
    BY <1>6, <1>7

LEMMA BatchKeeps ==
  ASSUME FlashInv, FewFaults, Erasing!WriteBatch
  PROVE  FlashInv'
  <1>1. /\ Erasing!Doing("batch") /\ UNCHANGED <<Erasing!call, Erasing!loops, result>>
        /\ step' = step + 1
        /\ lock' = lock
        /\ \/ /\ Erasing!Keep /\ success' = TRUE
              /\ "FSTPG" \notin cr => "error" \in flags'
           \/ Erasing!Lose /\ success' = FALSE
    BY DEF Erasing!WriteBatch, Erasing!Program, Erasing!target
  <1>2. operation = "write_entire_flash" /\ step = 10
    <2>1. operation \notin EraseOperations
      BY <1>1, StepStands, ErasingSteps
    <2>2. operation = "write_entire_flash"
      BY <1>1, <2>1, StepStands
    <2> QED
      BY <1>1, <2>2, StepStands, WritingSteps
  <1>3. WritingGoesOn /\ lock = "unlocked" /\ batch \in Nat /\ lost \in Nat
    BY <1>2 DEF FlashInv, FlashTypeOK, WritingGoesOn
  <1>4. batch' = batch /\ lost' \in Nat /\ lost' >= lost /\ lost' <= LinkFaults /\ operation' = operation
    BY <1>1, <1>3, FaultsAreFew DEF Erasing!Keep, Erasing!Lose, Erasing!loops, Erasing!call
  <1>5. WritingGoesOn'
    <2>1. batch >= 1 => "FSTPG" \notin cr /\ batch <= lost + 1
      BY <1>2, <1>3 DEF WritingGoesOn
    <2>2. batch' >= 1 => batch' <= lost' + 1 /\ (success' => "error" \in flags')
      <3>1. batch >= 1 => (success' => "error" \in flags')
        BY <1>1, <2>1, Zenon
      <3>2. batch >= 1 => batch <= lost' + 1
        <4>1. \A n \in Nat : n >= lost /\ batch <= lost + 1 => batch <= n + 1
          BY <1>3
        <4> QED
          BY <1>4, <2>1, <4>1, Zenon
      <3> QED
        BY <1>4, <3>1, <3>2
    <2> QED
      BY <1>1, <1>2, <1>3, <2>2 DEF WritingGoesOn
  <1>6. FlashTypeOK'
    BY <1>1, <1>2, <1>3, <1>4 DEF FlashInv, FlashTypeOK
  <1>7. LockedIsClear' /\ result' = "none"
    BY <1>1, <1>2, <1>3 DEF LockedIsClear, FlashInv
  <1> QED
    BY <1>2, <1>4, <1>5, <1>6, <1>7 DEF FlashInv, Erasing!FlashIsAsReported

LEMMA PollKeeps ==
  ASSUME FlashInv, FewFaults, Erasing!PollStatus
  PROVE  FlashInv'
  <1>1. /\ Erasing!Doing("poll") /\ UNCHANGED <<Erasing!call, Erasing!loops,
             Erasing!target>>
        /\ \/ Erasing!Keep /\ ("error" \in flags => "error" \in status')
           \/ Erasing!Lose
        /\ \/ UNCHANGED <<step, success, result>>
           \/ Erasing!Return(FALSE)
           \/ /\ success /\ "error" \notin status'
              /\ Erasing!GoTo(step + 1) \/ Erasing!GoTo(step + 2)
    BY DEF Erasing!PollStatus
  <1>2. operation = "write_entire_flash" /\ step = 11
    <2>1. operation \notin EraseOperations
      BY <1>1, StepStands, ErasingSteps
    <2>2. operation = "write_entire_flash"
      BY <1>1, <2>1, StepStands
    <2> QED
      BY <1>1, <2>2, StepStands, WritingSteps
  <1>3. WritingGoesOn /\ lock = "unlocked" /\ batch \in Nat /\ lost \in Nat
    BY <1>2 DEF FlashInv, FlashTypeOK, WritingGoesOn
  <1>4. /\ batch' = batch /\ lost' \in Nat /\ lost' >= lost /\ lost' <= LinkFaults
        /\ operation' = operation /\ lock' = lock /\ flags' = flags
    BY <1>1, <1>3, FaultsAreFew DEF Erasing!Keep, Erasing!Lose, Erasing!loops,
       Erasing!call, Erasing!target
  <1>5. LockedIsClear' /\ lock' \in Locks /\ batch' \in Nat
    BY <1>3, <1>4 DEF LockedIsClear, Locks
  <1>6. batch >= 1 => batch <= lost + 1 /\ (success => "error" \in flags)
    BY <1>2, <1>3 DEF WritingGoesOn
  <1>7. CASE UNCHANGED <<step, success, result>>
    <2>1. WritingGoesOn'
      <3>1. batch' >= 1 => (success' => "error" \in flags')
        BY <1>4, <1>6, <1>7, Zenon
      <3>2. batch' >= 1 => batch' <= lost' + 1
        <4>1. \A n \in Nat : n >= lost /\ batch <= lost + 1 => batch <= n + 1
          BY <1>3
        <4> QED
          BY <1>4, <1>6, <4>1, Zenon
      <3>3. step' = 11 /\ lock' = "unlocked"
        BY <1>2, <1>3, <1>4, <1>7
      <3> QED
        BY <3>1, <3>2, <3>3 DEF WritingGoesOn
    <2>2. FlashTypeOK'
      BY <1>4, <1>7 DEF FlashInv, FlashTypeOK
    <2>3. result' = "none"
      BY <1>2, <1>7 DEF FlashInv
    <2> QED
      BY <1>2, <1>4, <1>5, <2>1, <2>2, <2>3 DEF FlashInv, Erasing!FlashIsAsReported
  <1>8. CASE Erasing!Return(FALSE)
    BY <1>1, <1>4, <1>5, <1>8, GivingUp
  <1>9. CASE success /\ "error" \notin status' /\ (Erasing!GoTo(step + 1) \/ Erasing!GoTo(step + 2))
    <2>1. batch >= 1 => batch <= lost'
      BY <1>1, <1>3, <1>6, <1>9 DEF Erasing!Keep, Erasing!Lose
    <2>2. PICK s \in {12, 13} : Erasing!GoTo(s)
      BY <1>2, <1>9
    <2>3. Len(Erasing!Script(operation)) = 15 /\ 15 \in Nat /\ s \in Nat /\ s <= 15 /\ s # 0
      BY <1>1, <1>2, <2>2, WritingSteps
    <2>4. step' = s
      BY <2>2, <2>3, StepTaken
    <2>5. WritingGoesOn'
      <3>1. batch' >= 1 => batch' <= lost'
        BY <1>4, <2>1
      <3>2. step' \in {12, 13} /\ lock' = "unlocked"
        BY <1>3, <1>4, <2>2, <2>4
      <3> QED
        BY <3>1, <3>2 DEF WritingGoesOn
    <2>6. operation \notin EraseOperations /\ step # 0
      BY <1>2 DEF EraseOperations
    <2> QED
      BY <1>1, <1>4, <1>5, <2>2, <2>3, <2>5, <2>6, GoingOn
  <1> QED
    BY <1>1, <1>7, <1>8, <1>9

LEMMA FlashAcknowledgeKeeps ==
  ASSUME FlashInv, FewFaults, Erasing!Acknowledge
  PROVE  FlashInv'
  <1>1. /\ Erasing!Doing("acknowledge") /\ UNCHANGED <<Erasing!call, Erasing!loops>>
        /\ lock' = lock /\ cr' = cr
        /\ \/ Erasing!Keep /\ Erasing!GoTo(step + 1)
           \/ Erasing!Lose /\ Erasing!Return(FALSE)
    BY DEF Erasing!Acknowledge
  <1>2. operation = "write_entire_flash" /\ step = 12
    <2>1. operation \notin EraseOperations
      BY <1>1, StepStands, ErasingSteps
    <2>2. operation = "write_entire_flash"
      BY <1>1, <2>1, StepStands
    <2> QED
      BY <1>1, <2>2, StepStands, WritingSteps
  <1>3. WritingGoesOn /\ lock = "unlocked" /\ batch \in Nat /\ UNCHANGED Erasing!call /\ batch' = batch
    BY <1>1, <1>2 DEF FlashInv, FlashTypeOK, WritingGoesOn, Erasing!loops
  <1>4. LockedIsClear' /\ lock' \in Locks /\ batch' \in Nat
    BY <1>1, <1>3 DEF LockedIsClear, Locks
  <1>5. CASE Erasing!Lose /\ Erasing!Return(FALSE)
    BY <1>3, <1>4, <1>5, FaultsAreFew, GivingUp
  <1>6. CASE Erasing!Keep /\ Erasing!GoTo(step + 1)
    <2>1. ASSUME step' = step + 1 PROVE WritingGoesOn'
      <3>1. batch' >= 1 => batch' <= lost'
        BY <1>2, <1>3, <1>6 DEF Erasing!Keep, WritingGoesOn
      <3> QED
        BY <1>1, <1>2, <1>3, <2>1, <3>1 DEF WritingGoesOn
    <2> QED
      BY <1>1, <1>2, <1>3, <1>4, <1>6, <2>1, NextStep DEF EraseOperations
  <1> QED
    BY <1>1, <1>5, <1>6

(* The loop never gets to the end of the batches: each after the first     *)
(* takes a status that the link lost.                                      *)
LEMMA StopKeeps ==
  ASSUME FlashInv, FewFaults, Erasing!StopBatch
  PROVE  FlashInv'
  <1>1. /\ Erasing!Doing("stop") /\ UNCHANGED Erasing!call
    BY DEF Erasing!StopBatch, Erasing!AccessTo
  <1>2. operation = "write_entire_flash" /\ step = 13
    <2>1. operation \notin EraseOperations
      BY <1>1, StepStands, ErasingSteps
    <2>2. operation = "write_entire_flash"
      BY <1>1, <2>1, StepStands
    <2> QED
      BY <1>1, <2>2, StepStands, WritingSteps
  <1>3. WritingGoesOn /\ lock = "unlocked" /\ batch \in Nat /\ lost \in Nat /\ lost <= LinkFaults
    BY <1>2 DEF FlashInv, FlashTypeOK, WritingGoesOn
  <1>4. batch <= lost
    BY <1>2, <1>3 DEF WritingGoesOn
  <1>5. batch + 1 < Erasing!Batches
    BY <1>3, <1>4 DEF FewFaults, Erasing!Batches
  <1>6. /\ batch' = batch + 1 /\ lock' = lock
        /\ \/ Erasing!Keep /\ Erasing!GoTo(10) /\ "FSTPG" \notin cr'
           \/ Erasing!Lose /\ Erasing!Return(FALSE)
    BY <1>3, <1>5 DEF Erasing!StopBatch, Erasing!AccessTo, Erasing!Control, Erasing!target,
       Erasing!Batch
  <1>7. LockedIsClear' /\ lock' \in Locks /\ batch' \in Nat
    BY <1>3, <1>6 DEF LockedIsClear, Locks
  <1>8. CASE Erasing!Lose /\ Erasing!Return(FALSE)
    BY <1>1, <1>7, <1>8, FaultsAreFew, GivingUp
  <1>9. CASE Erasing!Keep /\ Erasing!GoTo(10) /\ "FSTPG" \notin cr'
    <2>1. Len(Erasing!Script(operation)) = 15 /\ 15 \in Nat /\ 10 \in Nat /\ 10 <= 15 /\ 10 # 0
      BY <1>1, <1>2, WritingSteps
    <2>2. step' = 10
      BY <1>9, <2>1, StepTaken
    <2>3. batch' <= lost' + 1 /\ lost' \in Nat /\ lost' <= LinkFaults
      BY <1>3, <1>4, <1>6, <1>9 DEF Erasing!Keep
    <2>4. WritingGoesOn'
      <3>1. lock' = "unlocked"
        BY <1>3, <1>6
      <3> QED
        BY <1>9, <2>2, <2>3, <3>1 DEF WritingGoesOn
    <2>5. operation \notin EraseOperations /\ step # 0
      BY <1>2 DEF EraseOperations
    <2> QED
      BY <1>1, <1>7, <1>9, <2>1, <2>3, <2>4, <2>5, GoingOn
  <1> QED
    BY <1>6, <1>8, <1>9

LEMMA LockKeeps ==
  ASSUME FlashInv, FewFaults, Erasing!LockFlash
  PROVE  FlashInv'
  <1>1. /\ Erasing!Doing("lock") /\ UNCHANGED <<Erasing!call, Erasing!loops>>
        /\ cr' = cr /\ flags' = flags /\ rows' = rows
        /\ lock' \in {lock, "locked"}
        /\ \/ Erasing!Keep /\ Erasing!GoTo(step + 1) /\ (lock = "unlocked" => lock' = "locked")
           \/ Erasing!Lose /\ Erasing!Return(FALSE)
    BY DEF Erasing!LockFlash, Erasing!Access, Erasing!AccessTo, Erasing!target
  <1>2. operation \in EraseOperations /\ step = 8
    <2>1. operation # "write_entire_flash"
      BY <1>1, StepStands, WritingSteps
    <2> QED
      BY <1>1, <2>1, StepStands, ErasingSteps
  <1>3. lock = "unlocked" /\ cr = {} /\ ErrorMeansErased /\ batch \in Nat
    BY <1>2 DEF FlashInv, FlashTypeOK, ErasingGoesOn, EraseOperations
  <1>4. ErrorMeansErased' /\ batch' = batch /\ UNCHANGED Erasing!call /\ operation' = operation /\ argument' = argument
        /\ before' = before
    BY <1>1, <1>3 DEF ErrorMeansErased, AllErased, Erasing!loops, Erasing!call
  <1>5. LockedIsClear' /\ lock' \in Locks /\ batch' \in Nat
    BY <1>1, <1>3, <1>4 DEF LockedIsClear, Locks
  <1>6. CASE Erasing!Lose /\ Erasing!Return(FALSE)
    BY <1>4, <1>5, <1>6, FaultsAreFew, GivingUp
  <1>7. CASE Erasing!Keep /\ Erasing!GoTo(step + 1) /\ lock' = "locked"
    <2>1. Len(Erasing!Script(operation)) = 8 /\ 8 \in Nat /\ step + 1 \in Nat /\ step + 1 > 8
      BY <1>1, <1>2, ErasingSteps
    <2>2. step' = 0 /\ result' = "ok"
      <3>1. Erasing!Return(TRUE)
        BY <1>7, <2>1, StepTaken
      <3> QED
        BY <3>1 DEF Erasing!Return
    <2>3. FlashTypeOK'
      <3>1. lost' \in Nat /\ lost' <= LinkFaults
        BY <1>7, FaultsAreFew
      <3> QED
        BY <1>4, <1>5, <2>2, <3>1 DEF FlashInv, FlashTypeOK
    <2>4. ErasingGoesOn' /\ WritingGoesOn'
      BY <2>2 DEF ErasingGoesOn, WritingGoesOn
    <2>5. Erasing!FlashIsAsReported'
      <3>1. /\ operation = "mass_erase" => AllErased
            /\ operation = "erase_page" => PageIsErased
        BY <1>2 DEF FlashInv, ErasingGoesOn, EraseOperations
      <3> QED
        BY <1>1, <1>2, <1>3, <1>4, <1>7, <3>1
           DEF Erasing!FlashIsAsReported, AllErased, PageIsErased, EraseOperations
    <2> QED
      BY <1>5, <2>2, <2>3, <2>4, <2>5 DEF FlashInv
  <1> QED
    BY <1>1, <1>3, <1>6, <1>7

LEMMA FlashInvNext ==
  ASSUME FlashInv, FewFaults, [Erasing!Next]_Erasing!vars
  PROVE  FlashInv'
  <1>1. ASSUME Erasing!Call("mass_erase", 0)
                \/ (\E p \in Erasing!Pages : Erasing!Call("erase_page", p))
                \/ (\E n \in 1..PageCount : Erasing!Call("write_entire_flash", n))
        PROVE  FlashInv'
    BY <1>1, FlashCallKeeps DEF Erasing!Operations
  <1>2. CASE Erasing!FlashDone \/ UNCHANGED Erasing!vars
    BY <1>2, SameFlash DEF Erasing!FlashDone, Erasing!vars, Erasing!target, Erasing!call,
       Erasing!loops
  <1> QED
    BY <1>1, <1>2, FlashResetKeeps, KeyKeeps, FlashWaitKeeps, ControlKeeps, StartKeeps,
       BatchKeeps, PollKeeps, FlashAcknowledgeKeeps, StopKeeps, LockKeeps DEF Erasing!Next

(* Whatever happened on the wire before, from initialize_swd on and until  *)
(* an acknowledgement is misread host and target are at the same bit of a  *)
(* packet; and a call of flash.cc that reports success has left the flash  *)
(* as it should, as long as the link loses fewer accesses than             *)
(* write_entire_flash would have to have lost to get through.              *)
THEOREM ProgrammerStaysSound ==
  ASSUME FewFaults
  PROVE  Spec => []ProgrammerIsSound
  <1>1. WireInv /\ FlashInv => ProgrammerIsSound
    BY WireFollows DEF ProgrammerIsSound, FlashInv
  <1>2. WireInv /\ [Next]_vars => WireInv'
    <2> SUFFICES ASSUME WireInv, [Next]_vars PROVE WireInv'
      OBVIOUS
    <2>1. [Wire!Next]_Wire!vars
      BY OnlyOneMoves DEF wire, Wire!vars, Wire!host, Wire!target
    <2> QED
      BY <2>1, WireInvNext
  <1>3. FlashInv /\ [Next]_vars => FlashInv'
    <2> SUFFICES ASSUME FlashInv, [Next]_vars PROVE FlashInv'
      OBVIOUS
    <2>1. [Erasing!Next]_Erasing!vars
      BY OnlyOneMoves DEF erasing, Erasing!vars, Erasing!call, Erasing!loops, Erasing!target
    <2> QED
      BY <2>1, FlashInvNext
  <1>4. Init => WireInv /\ FlashInv
    BY WireInvInit, FlashInvInit, DriversInit
  <1> QED
    BY <1>1, <1>2, <1>3, <1>4, PTL DEF Spec

-----------------------------------------------------------------------------
(* The callbacks of the ring.  The hazard is a pointer that has been read   *)
(* and is moved before it is used.  Positions only grow: a read pointer    *)
(* that is behind shows more elements than there are, so the sink is told  *)
(* too often and never too seldom, while the source may go without, but    *)
(* only if another call has moved the pointer and still has to check.      *)
RingSizes == PageSize \in Nat \ {0} /\ NumPages \in Nat \ {0} /\ MaxElements \in Nat

RingLabels == {"load_read", "load_write", "swap", "publish", "before_available", "available",
           "before_needed", "needed"}
RingCalls == [op : {"supply", "consume", "connect"}, at : RingLabels, n : Nat, r : Nat, w : Nat]

Threads == \A p \in Ring!Parties : style[p] = "signal"
Loading == {"load_read", "load_write", "swap", "publish"}
ToSink == Loading \union {"before_available", "available"}

(* What f is to accept of a supply. *)
Taken(f) ==
  LET fits == Ring!Smaller(PageSize - (f.w % PageSize), f.n)
  IN  IF prioritize_old THEN Ring!Smaller(Ring!max_buffered_elements - (f.w - f.r), fits)
                        ELSE Ring!Smaller(Ring!max_buffered_elements, fits)

(* What call f, with the pointers at r and w, can rely on of what it read. *)
Follows(f, r, w) ==
  /\ f.op = "connect" => f.at \notin Loading
  /\ f.at = "publish" => f.op = "supply" /\ f.w + Taken(f) - Ring!max_buffered_elements <= r
  /\ f.at \in {"load_write", "swap", "publish", "available", "needed"} => f.r <= r
  /\ f.at \in {"swap", "publish"} => f.r <= f.w /\ f.w <= w
  /\ f.op = "supply" /\ f.at \in {"load_write", "swap", "publish"} =>
       w - f.r <= Ring!max_buffered_elements
  /\ f.op = "supply" /\ f.at \in {"swap", "publish"} => f.w = w
  /\ f.op = "consume" /\ f.at \in Loading => f.n = PageSize

(* Alone, nobody moves a pointer that has been read. *)
Current(f, r, w) ==
  /\ f.at \in {"load_write", "swap", "available", "needed"} => f.r = r
  /\ f.at = "swap" => f.w = w

(* A sink that calls nests under itself, each call on a page of its own:   *)
(* those that wait and the pages left are no more than the ring has.       *)
Pages(r, w) == (w \div PageSize) - (r \div PageSize)
Depth(n, f, r, w) ==
  /\ n <= NumPages + 2
  /\ n >= 2 /\ f.at \in Loading =>
       f.op = "consume" /\ w - r >= PageSize /\ n + Pages(r, w) <= NumPages + 2
  /\ f.at \in {"before_available", "available"} => n + Pages(r, w) <= NumPages + 1

(* Every call but the last is at its last check. *)
Nested(s) == \A i \in 1..(Len(s) - 1) : s[i].at = "before_needed"

RingTypeOK ==
  /\ read_pointer \in Nat /\ write_pointer \in Nat
  /\ signalled \in [Ring!Parties -> BOOLEAN]
  /\ stack \in [Ring!Parties -> Seq(RingCalls)]
RingHolds ==
  /\ read_pointer <= write_pointer
  /\ write_pointer - read_pointer <= Ring!max_buffered_elements

(* Threads keep to their own calls; without, only one stack is in use.     *)
StackFollows(p) ==
  /\ Nested(stack[p])
  /\ stack[p] # <<>> =>
       /\ Follows(Ring!Frame(p), read_pointer, write_pointer)
       /\ Threads => Ring!Frame(p).op # (IF p = "source" THEN "consume" ELSE "supply")
       /\ ~Threads => Current(Ring!Frame(p), read_pointer, write_pointer)
       /\ style["source"] = "signal" /\ style["sink"] # "signal" =>
            Depth(Len(stack[p]), Ring!Frame(p), read_pointer, write_pointer)
  /\ style["sink"] = "signal" => Len(stack[p]) <= 1
Alone == ~Threads => stack["source"] = <<>> \/ stack["sink"] = <<>>

(* The checks that are still to come; one that has read a pointer that is  *)
(* still where it was counts as such.                                      *)
Reaches(f, r) ==
  \/ f.op # "connect" /\ f.at \in ToSink
  \/ f.at = "before_needed"
  \/ f.at = "needed" /\ f.r = r
SinkIsTold ==
  "sink" \in connected /\ write_pointer - read_pointer >= PageSize =>
    \/ style["sink"] = "signal" /\ signalled["sink"]
    \/ \E p \in Ring!Parties : stack[p] # <<>> /\ Ring!Frame(p).at \in ToSink
SourceIsTold ==
  "source" \in connected /\ Ring!max_buffered_elements - (write_pointer - read_pointer) >= PageSize =>
    \/ style["source"] = "signal" /\ signalled["source"]
    \/ style["source"] # "signal" /\ write_pointer + PageSize > MaxElements
    \/ \E p \in Ring!Parties :
         \/ Len(stack[p]) >= 2
         \/ stack[p] # <<>> /\ Reaches(Ring!Frame(p), read_pointer)

RingInv ==
  /\ RingTypeOK /\ RingHolds
  /\ \A p \in Ring!Parties : StackFollows(p)
  /\ Alone /\ SinkIsTold /\ SourceIsTold

LEMMA RingSizesAre ==
  ASSUME RingSizes
  PROVE  /\ Ring!max_buffered_elements \in Nat /\ PageSize <= Ring!max_buffered_elements
         /\ PageSize \in Nat /\ PageSize > 0 /\ NumPages \in Nat /\ NumPages > 0
  <1>1. \A m, n \in Nat \ {0} : m * n \in Nat /\ n <= m * n
    OBVIOUS
  <1> QED
    BY <1>1 DEF RingSizes, Ring!max_buffered_elements

LEMMA RingInvInit == ASSUME RingSizes, Ring!Init PROVE RingInv
  <1>1. RingTypeOK
    BY DEF Ring!Init, RingTypeOK
  <1>2. RingHolds
    BY RingSizesAre DEF Ring!Init, RingHolds
  <1>3. \A p \in Ring!Parties : StackFollows(p)
    BY DEF Ring!Init, StackFollows, Nested
  <1> QED
    BY <1>1, <1>2, <1>3 DEF Ring!Init, RingInv, Alone, SinkIsTold, SourceIsTold, Ring!Parties

(* What becomes of a stack. *)
AllWait(s) == \A i \in 1..Len(s) : s[i].at = "before_needed"

LEMMA Indices ==
  ASSUME NEW n \in Nat, n # 0
  PROVE  /\ n \in 1..n /\ n - 1 \in Nat
         /\ \A i \in 1..(n - 1) : i \in 1..n /\ i # n /\ 1 + i - 1 = i
         /\ \A i \in 1..n : i = n \/ i \in 1..(n - 1)
  OBVIOUS

LEMMA ReplaceLast ==
  ASSUME NEW s \in Seq(RingCalls), s # <<>>, Nested(s), NEW f \in RingCalls,
         NEW u, u = [s EXCEPT ![Len(s)] = f]
  PROVE  /\ u \in Seq(RingCalls) /\ u # <<>> /\ Len(u) = Len(s) /\ u[Len(u)] = f
         /\ Nested(u) /\ (f.at = "before_needed" => AllWait(u))
  <1>1. PICK n \in Nat : n = Len(s) /\ n # 0
    BY EmptySeq
  <1>2. n \in 1..n /\ (\A i \in 1..(n - 1) : i \in 1..n /\ i # n)
        /\ \A i \in 1..n : i = n \/ i \in 1..(n - 1)
    BY <1>1, Indices
  <1>3. u \in Seq(RingCalls) /\ Len(u) = n /\ \A j \in 1..n : u[j] = IF j = n THEN f ELSE s[j]
    BY <1>1, <1>2, ExceptSeq
  <1>4. \A i \in 1..(n - 1) : u[i].at = "before_needed"
    BY <1>1, <1>2, <1>3 DEF Nested
  <1>5. Nested(u)
    BY <1>3, <1>4 DEF Nested
  <1>6. ASSUME f.at = "before_needed" PROVE AllWait(u)
    BY <1>2, <1>3, <1>4, <1>6 DEF AllWait
  <1>7. u # <<>>
    BY <1>1, <1>3
  <1> QED
    BY <1>1, <1>2, <1>3, <1>5, <1>6, <1>7

LEMMA DropLast ==
  ASSUME NEW s \in Seq(RingCalls), s # <<>>, Nested(s), NEW u, u = SubSeq(s, 1, Len(s) - 1)
  PROVE  u \in Seq(RingCalls) /\ Len(u) = Len(s) - 1 /\ AllWait(u)
  <1>1. PICK n \in Nat : n = Len(s) /\ n # 0
    BY EmptySeq
  <1>2. \A i \in 1..(n - 1) : i \in 1..n /\ 1 + i - 1 = i
    BY <1>1, Indices
  <1>3. n - 1 \in Int /\ 1 \in Int /\ (n - 1) - 1 + 1 = n - 1
        /\ (IF 1 <= n - 1 THEN (n - 1) - 1 + 1 ELSE 0) = n - 1
    BY <1>1
  <1>4. \A i \in 1..(n - 1) : s[i] \in RingCalls
    BY <1>1, <1>2, ElementOfSeq
  <1>5. u \in Seq(RingCalls) /\ Len(u) = n - 1 /\ \A i \in 1..(n - 1) : u[i] = s[1 + i - 1]
    <2> DEFINE k == n - 1
    <2>1. k \in Int /\ k - 1 + 1 = k /\ (IF 1 <= k THEN k - 1 + 1 ELSE 0) = k
      BY <1>3
    <2>2. \A i \in 1..k : s[i] \in RingCalls
      BY <1>4
    <2> HIDE DEF k
    <2>3. /\ SubSeq(s, 1, k) \in Seq(RingCalls)
          /\ Len(SubSeq(s, 1, k)) = IF 1 <= k THEN k - 1 + 1 ELSE 0
          /\ \A i \in 1..(k - 1 + 1) : SubSeq(s, 1, k)[i] = s[1 + i - 1]
      BY <1>3, <2>1, <2>2, SubSeqProperties
    <2>4. u = SubSeq(s, 1, k)
      BY <1>1 DEF k
    <2>5. u \in Seq(RingCalls) /\ Len(u) = k /\ \A i \in 1..k : u[i] = s[1 + i - 1]
      BY <2>1, <2>3, <2>4, Zenon
    <2> QED
      BY <2>5 DEF k
  <1>6. \A i \in 1..(n - 1) : u[i].at = "before_needed"
    BY <1>1, <1>2, <1>5 DEF Nested
  <1> QED
    BY <1>1, <1>5, <1>6 DEF AllWait

LEMMA Push ==
  ASSUME NEW s \in Seq(RingCalls), AllWait(s), NEW f \in RingCalls, NEW u, u = Append(s, f)
  PROVE  /\ u \in Seq(RingCalls) /\ u # <<>> /\ Len(u) = Len(s) + 1 /\ u[Len(u)] = f
         /\ Nested(u)
  <1>1. Len(s) \in Nat
    OBVIOUS
  <1>2. /\ u \in Seq(RingCalls) /\ Len(u) = Len(s) + 1 /\ u[Len(s) + 1] = f
        /\ \A i \in 1..Len(s) : u[i] = s[i]
    OBVIOUS
  <1>3. Nested(u)
    BY <1>1, <1>2 DEF AllWait, Nested
  <1> QED
    BY <1>1, <1>2, <1>3

LEMMA WaitingNests ==
  ASSUME NEW s \in Seq(RingCalls), AllWait(s)
  PROVE  Nested(s) /\ (s # <<>> => s[Len(s)].at = "before_needed" /\ s[Len(s)] \in RingCalls)
  <1>1. Len(s) \in Nat /\ (s # <<>> => Len(s) \in 1..Len(s))
    OBVIOUS
  <1>2. \A i \in 1..(Len(s) - 1) : i \in 1..Len(s)
    BY <1>1
  <1>3. Nested(s)
    BY <1>2 DEF Nested, AllWait
  <1> QED
    BY <1>1, <1>3 DEF AllWait

LEMMA TopIsCall ==
  ASSUME RingTypeOK, NEW p \in Ring!Parties, stack[p] # <<>>
  PROVE  Ring!Frame(p) \in RingCalls /\ Len(stack[p]) \in Nat /\ Len(stack[p]) >= 1
  <1>1. stack[p] \in Seq(RingCalls)
    BY DEF RingTypeOK
  <1> QED
    BY <1>1 DEF Ring!Frame

(* A step within a call changes the last call of one stack. *)
LEMMA UpdateIs ==
  ASSUME RingTypeOK, NEW t \in Ring!Parties, stack[t] # <<>>, Nested(stack[t]),
         NEW f \in RingCalls, Ring!Update(t, f)
  PROVE  /\ stack' \in [Ring!Parties -> Seq(RingCalls)]
         /\ stack'[t] # <<>> /\ Len(stack'[t]) = Len(stack[t]) /\ Ring!Frame(t)' = f
         /\ Nested(stack'[t]) /\ \A q \in Ring!Parties \ {t} : stack'[q] = stack[q]
  <1>1. stack[t] \in Seq(RingCalls)
    BY DEF RingTypeOK
  <1>2. /\ stack'[t] = [stack[t] EXCEPT ![Len(stack[t])] = f]
        /\ \A q \in Ring!Parties \ {t} : stack'[q] = stack[q]
        /\ DOMAIN stack' = Ring!Parties /\ stack' = [q \in Ring!Parties |-> stack'[q]]
    BY DEF RingTypeOK, Ring!Update
  <1>3. /\ stack'[t] \in Seq(RingCalls) /\ stack'[t] # <<>> /\ Len(stack'[t]) = Len(stack[t])
        /\ stack'[t][Len(stack'[t])] = f /\ Nested(stack'[t])
    BY <1>1, <1>2, ReplaceLast
  <1>4. \A q \in Ring!Parties : stack'[q] \in Seq(RingCalls)
    BY <1>2, <1>3 DEF RingTypeOK
  <1> QED
    BY <1>2, <1>3, <1>4 DEF Ring!Frame

LEMMA RemainderIs ==
  ASSUME RingSizes, NEW n \in Nat
  PROVE  n % PageSize \in Nat /\ n % PageSize < PageSize
  BY DEF RingSizes

(* However many elements are asked for, no more are taken than fit. *)
LEMMA TakesIs ==
  ASSUME RingSizes, NEW f \in RingCalls
  PROVE  /\ Taken(f) \in Int
         /\ f.r <= f.w => Taken(f) <= Ring!max_buffered_elements
         /\ f.w - f.r <= Ring!max_buffered_elements => Taken(f) >= 0
         /\ prioritize_old => (f.w - f.r) + Taken(f) <= Ring!max_buffered_elements
  <1>1. f.r \in Nat /\ f.w \in Nat /\ f.n \in Nat
    BY DEF RingCalls
  <1>2. PICK m \in Nat : m = f.w % PageSize /\ m < PageSize
    BY <1>1, RemainderIs
  <1>3. PICK c \in Nat : c = Ring!max_buffered_elements
    BY RingSizesAre
  <1>4. PageSize \in Nat
    BY RingSizesAre
  <1>5. PICK g \in Nat : g = Ring!Smaller(PageSize - (f.w % PageSize), f.n)
    BY <1>1, <1>2, <1>4 DEF Ring!Smaller
  <1>6. Taken(f) = IF prioritize_old THEN Ring!Smaller(c - (f.w - f.r), g) ELSE Ring!Smaller(c, g)
    BY <1>3, <1>5 DEF Taken
  <1> QED
    BY <1>1, <1>3, <1>6 DEF Ring!Smaller

(* Whoever does not act has nothing to notice. *)
LEMMA OtherFollows ==
  ASSUME RingSizes, RingInv, UNCHANGED <<prioritize_old, style>>,
         NEW q \in Ring!Parties, stack'[q] = stack[q],
         read_pointer' \in Nat, write_pointer' \in Nat,
         read_pointer <= read_pointer', write_pointer <= write_pointer',
         Threads \/ stack[q] = <<>>,
         q = "sink" \/ write_pointer' = write_pointer \/ stack[q] = <<>>
  PROVE  StackFollows(q)'
  <1>1. Threads' <=> Threads
    BY DEF Threads
  <1>2. Ring!Frame(q)' = Ring!Frame(q) /\ Nested(stack'[q])
    BY DEF Ring!Frame, RingInv, StackFollows
  <1>3. style["sink"] = "signal" => Len(stack'[q]) <= 1
    BY DEF RingInv, StackFollows
  <1>4. CASE stack[q] = <<>>
    BY <1>2, <1>3, <1>4 DEF StackFollows
  <1>5. CASE stack[q] # <<>>
    <2>1. Threads /\ style["sink"] = "signal"
      BY <1>5 DEF Threads, Ring!Parties
    <2>2. /\ Follows(Ring!Frame(q), read_pointer, write_pointer)
          /\ Ring!Frame(q).op # (IF q = "source" THEN "consume" ELSE "supply")
      BY <1>5, <2>1 DEF RingInv, StackFollows
    <2>3. Ring!Frame(q) \in RingCalls
      BY <1>5, TopIsCall DEF RingInv
    <2>4. Taken(Ring!Frame(q))' = Taken(Ring!Frame(q))
      BY <1>2 DEF Taken, Ring!max_buffered_elements
    <2>5. Ring!Frame(q).op = "supply" => write_pointer' = write_pointer
      BY <1>5, <2>2
    <2>6. Follows(Ring!Frame(q), read_pointer', write_pointer')
      <3> DEFINE f == Ring!Frame(q)
      <3>1. f.r \in Nat /\ f.w \in Nat
        BY <2>3 DEF RingCalls
      <3>2. read_pointer \in Nat /\ write_pointer \in Nat
        BY DEF RingInv, RingTypeOK
      <3>3. Taken(f) \in Int /\ Ring!max_buffered_elements \in Nat
        BY <2>3, TakesIs, RingSizesAre
      <3> HIDE DEF f
      <3>4. Follows(f, read_pointer, write_pointer)
        BY <2>2 DEF f
      <3>5. f.op = "supply" => write_pointer' = write_pointer
        BY <2>5 DEF f
      <3>6. Follows(f, read_pointer', write_pointer')
        BY <3>1, <3>2, <3>3, <3>4, <3>5 DEF Follows
      <3> QED
        BY <3>6 DEF f
    <2>7. Follows(Ring!Frame(q), read_pointer, write_pointer)'
      BY <1>2, <2>4, <2>6 DEF Follows, Ring!max_buffered_elements
    <2> QED
      BY <1>1, <1>2, <1>3, <1>5, <2>1, <2>2, <2>7 DEF StackFollows
  <1> QED
    BY <1>4, <1>5

(* A step within a call. *)
LEMMA RingStepKeeps ==
  ASSUME RingSizes, RingInv, UNCHANGED <<prioritize_old, style, connected, signalled>>,
         NEW t \in Ring!Parties, stack[t] # <<>>, NEW f \in RingCalls, Ring!Update(t, f),
         read_pointer' \in Nat, write_pointer' \in Nat, RingHolds',
         read_pointer <= read_pointer', write_pointer <= write_pointer',
         f.op = Ring!Frame(t).op,
         write_pointer' = write_pointer \/ f.op = "supply",
         Follows(f, read_pointer', write_pointer'),
         ~Threads => Current(f, read_pointer', write_pointer'),
         style["source"] = "signal" /\ style["sink"] # "signal" =>
           Depth(Len(stack[t]), f, read_pointer', write_pointer'),
         \/ UNCHANGED <<read_pointer, write_pointer>>
         \/ f.op # "connect" /\ f.at \in ToSink,
         Ring!Frame(t).at \in ToSink => f.at \in ToSink,
         Reaches(Ring!Frame(t), read_pointer) => Reaches(f, read_pointer')
  PROVE  RingInv'
  <1>1. RingTypeOK /\ Nested(stack[t])
    BY DEF RingInv, StackFollows
  <1>2. /\ stack' \in [Ring!Parties -> Seq(RingCalls)]
        /\ stack'[t] # <<>> /\ Len(stack'[t]) = Len(stack[t]) /\ Ring!Frame(t)' = f
        /\ Nested(stack'[t]) /\ \A q \in Ring!Parties \ {t} : stack'[q] = stack[q]
    BY <1>1, UpdateIs
  <1>3. RingTypeOK'
    BY <1>1, <1>2 DEF RingTypeOK
  <1>4. Threads' <=> Threads
    BY DEF Threads
  <1>5. Alone'
    BY <1>2, <1>4 DEF Alone, RingInv, Ring!Parties
  <1>6. StackFollows(t)'
    <2>2. Follows(Ring!Frame(t), read_pointer, write_pointer)'
      BY <1>2 DEF Follows, Taken, Ring!max_buffered_elements
    <2> QED
      BY <1>2, <1>4, <2>2 DEF StackFollows, RingInv, Current, Depth, Pages
  <1>7. \A q \in Ring!Parties : StackFollows(q)'
    <2> SUFFICES ASSUME NEW q \in Ring!Parties, q # t PROVE StackFollows(q)'
      BY <1>6
    <2>1. stack'[q] = stack[q]
      BY <1>2
    <2>2. Threads \/ stack[q] = <<>>
      BY DEF RingInv, Alone, Ring!Parties
    <2>3. q = "sink" \/ write_pointer' = write_pointer \/ stack[q] = <<>>
      BY <2>2 DEF RingInv, StackFollows, Ring!Parties
    <2> QED
      BY <2>1, <2>2, <2>3, OtherFollows
  <1>8. SinkIsTold'
    <2>1. CASE UNCHANGED <<read_pointer, write_pointer>>
      <3>1. CASE Ring!Frame(t).at \in ToSink
        BY <1>2, <2>1, <3>1 DEF SinkIsTold
      <3>2. CASE Ring!Frame(t).at \notin ToSink
        <4> SUFFICES ASSUME NEW p \in Ring!Parties, stack[p] # <<>>, Ring!Frame(p).at \in ToSink
                     PROVE  stack'[p] # <<>> /\ Ring!Frame(p)'.at \in ToSink
          BY <2>1 DEF SinkIsTold, RingInv
        <4> QED
          BY <1>2, <3>2 DEF Ring!Frame
      <3> QED
        BY <3>1, <3>2
    <2>2. CASE f.at \in ToSink
      BY <1>2, <2>2 DEF SinkIsTold
    <2> QED
      BY <2>1, <2>2
  <1>9. SourceIsTold'
    <2>1. CASE UNCHANGED <<read_pointer, write_pointer>>
      <3> SUFFICES ASSUME NEW p \in Ring!Parties,
                          Len(stack[p]) >= 2 \/ (stack[p] # <<>> /\ Reaches(Ring!Frame(p), read_pointer))
                   PROVE  Len(stack'[p]) >= 2
                            \/ (stack'[p] # <<>> /\ Reaches(Ring!Frame(p)', read_pointer'))
        BY <2>1 DEF SourceIsTold, RingInv, Ring!max_buffered_elements, Reaches, ToSink, Loading
      <3> QED
        BY <1>2, <2>1 DEF Ring!Frame
    <2>2. CASE f.op # "connect" /\ f.at \in ToSink
      <3>1. Reaches(f, read_pointer')
        BY <2>2 DEF Reaches
      <3> QED
        BY <1>2, <3>1 DEF SourceIsTold, Reaches, ToSink, Loading
    <2> QED
      BY <2>1, <2>2
  <1> QED
    BY <1>3, <1>5, <1>7, <1>8, <1>9 DEF RingInv

(* What the invariant says of the call that acts. *)
LEMMA CallHas ==
  ASSUME RingSizes, RingInv, NEW t \in Ring!Parties, stack[t] # <<>>
  PROVE  /\ Ring!Frame(t) \in RingCalls
         /\ Ring!Frame(t).r \in Nat /\ Ring!Frame(t).w \in Nat /\ Ring!Frame(t).n \in Nat
         /\ Follows(Ring!Frame(t), read_pointer, write_pointer)
         /\ ~Threads => Current(Ring!Frame(t), read_pointer, write_pointer)
         /\ style["source"] = "signal" /\ style["sink"] # "signal" =>
              ~Threads /\ Depth(Len(stack[t]), Ring!Frame(t), read_pointer, write_pointer)
         /\ read_pointer \in Nat /\ write_pointer \in Nat /\ RingHolds
         /\ Ring!max_buffered_elements \in Nat /\ PageSize \in Nat /\ PageSize > 0
         /\ Len(stack[t]) \in Nat /\ Len(stack[t]) >= 1
  BY TopIsCall, RingSizesAre DEF RingInv, RingTypeOK, StackFollows, RingCalls, Threads,
     Ring!Parties

LEMMA LoadReadKeeps ==
  ASSUME RingSizes, RingInv, UNCHANGED <<prioritize_old, style>>, NEW t \in Ring!Parties,
         Ring!LoadRead(t)
  PROVE  RingInv'
  <1> DEFINE f == [Ring!Frame(t) EXCEPT !.r = read_pointer, !.at = "load_write"]
  <1>1. stack[t] # <<>> /\ Ring!Frame(t).at = "load_read" /\ Ring!Update(t, f)
        /\ UNCHANGED <<connected, read_pointer, write_pointer, signalled>>
    BY DEF Ring!LoadRead, Ring!In
  <1>2. /\ f \in RingCalls /\ f.op = Ring!Frame(t).op /\ f.at = "load_write"
        /\ f.r = read_pointer
        /\ f.w = Ring!Frame(t).w /\ f.n = Ring!Frame(t).n
    BY <1>1, CallHas DEF RingCalls, RingLabels
  <1> HIDE DEF f
  <1>3. Follows(f, read_pointer, write_pointer)
    BY <1>1, <1>2, CallHas DEF Follows, Loading, RingHolds
  <1>4. Current(f, read_pointer, write_pointer)
    BY <1>2 DEF Current
  <1>5. ASSUME style["source"] = "signal", style["sink"] # "signal"
        PROVE  Depth(Len(stack[t]), f, read_pointer, write_pointer)
    BY <1>1, <1>2, <1>5, CallHas DEF Depth, Loading
  <1>6. f.at \in ToSink
    BY <1>2 DEF ToSink, Loading
  <1>7. Reaches(Ring!Frame(t), read_pointer) => Reaches(f, read_pointer)
    BY <1>1, <1>2, <1>6 DEF Reaches
  <1> QED
    BY <1>1, <1>2, <1>3, <1>4, <1>5, <1>6, <1>7, RingStepKeeps DEF RingInv, RingTypeOK,
       RingHolds,
       Ring!max_buffered_elements

LEMMA LoadWriteKeeps ==
  ASSUME RingSizes, RingInv, UNCHANGED <<prioritize_old, style>>, NEW t \in Ring!Parties,
         Ring!LoadWrite(t)
  PROVE  RingInv'
  <1> DEFINE f == [Ring!Frame(t) EXCEPT !.w = write_pointer, !.at = "swap"]
  <1>1. stack[t] # <<>> /\ Ring!Frame(t).at = "load_write" /\ Ring!Update(t, f)
        /\ UNCHANGED <<connected, read_pointer, write_pointer, signalled>>
    BY DEF Ring!LoadWrite, Ring!In
  <1>2. /\ f \in RingCalls /\ f.op = Ring!Frame(t).op /\ f.at = "swap" /\ f.w = write_pointer
        /\ f.r = Ring!Frame(t).r /\ f.n = Ring!Frame(t).n
    BY <1>1, CallHas DEF RingCalls, RingLabels
  <1> HIDE DEF f
  <1>3. Follows(f, read_pointer, write_pointer)
    BY <1>1, <1>2, CallHas DEF Follows, Loading, RingHolds
  <1>4. ~Threads => Current(f, read_pointer, write_pointer)
    BY <1>1, <1>2, CallHas DEF Current
  <1>5. ASSUME style["source"] = "signal", style["sink"] # "signal"
        PROVE  Depth(Len(stack[t]), f, read_pointer, write_pointer)
    BY <1>1, <1>2, <1>5, CallHas DEF Depth, Loading
  <1>6. f.at \in ToSink
    BY <1>2 DEF ToSink, Loading
  <1>7. Reaches(Ring!Frame(t), read_pointer) => Reaches(f, read_pointer)
    BY <1>1, <1>2, <1>6 DEF Reaches
  <1> QED
    BY <1>1, <1>2, <1>3, <1>4, <1>5, <1>6, <1>7, RingStepKeeps DEF RingInv, RingTypeOK,
       RingHolds,
       Ring!max_buffered_elements

LEMMA CheckLoadReadKeeps ==
  ASSUME RingSizes, RingInv, UNCHANGED <<prioritize_old, style>>, NEW t \in Ring!Parties,
         NEW first, NEW check, Ring!CheckLoadRead(t, first, check),
         \/ first = "before_available" /\ check = "available"
         \/ first = "before_needed" /\ check = "needed"
  PROVE  RingInv'
  <1> DEFINE f == [Ring!Frame(t) EXCEPT !.r = read_pointer, !.at = check]
  <1>1. stack[t] # <<>> /\ Ring!Frame(t).at = first /\ Ring!Update(t, f)
        /\ UNCHANGED <<connected, read_pointer, write_pointer, signalled>>
    BY DEF Ring!CheckLoadRead, Ring!In
  <1>2. /\ f \in RingCalls /\ f.op = Ring!Frame(t).op /\ f.at = check /\ f.r = read_pointer
        /\ f.w = Ring!Frame(t).w /\ f.n = Ring!Frame(t).n
    BY <1>1, CallHas DEF RingCalls, RingLabels
  <1> HIDE DEF f
  <1>3. Follows(f, read_pointer, write_pointer)
    BY <1>1, <1>2, CallHas DEF Follows, Loading, RingHolds
  <1>4. ~Threads => Current(f, read_pointer, write_pointer)
    BY <1>1, <1>2, CallHas DEF Current
  <1>5. ASSUME style["source"] = "signal", style["sink"] # "signal"
        PROVE  Depth(Len(stack[t]), f, read_pointer, write_pointer)
    BY <1>1, <1>2, <1>5, CallHas DEF Depth, Loading
  <1>6. Ring!Frame(t).at \in ToSink => f.at \in ToSink
    BY <1>1, <1>2 DEF ToSink, Loading
  <1>7. Reaches(Ring!Frame(t), read_pointer) => Reaches(f, read_pointer)
    BY <1>1, <1>2, <1>6 DEF Reaches, ToSink, Loading
  <1> QED
    BY <1>1, <1>2, <1>3, <1>4, <1>5, <1>6, <1>7, RingStepKeeps DEF RingInv, RingTypeOK,
       RingHolds,
       Ring!max_buffered_elements

(* Positions and pages. *)
LEMMA PageIs ==
  ASSUME RingSizes, NEW n \in Nat
  PROVE  /\ n \div PageSize \in Nat /\ n % PageSize \in Nat /\ n % PageSize < PageSize
         /\ n = PageSize * (n \div PageSize) + (n % PageSize)
  BY DEF RingSizes

LEMMA OnlyPage ==
  ASSUME NEW s \in Nat, NEW a \in Int, NEW b \in Int, NEW x \in Nat, NEW y \in Nat,
         x < s, y < s, s * a + x <= s * b + y
  PROVE  a <= b
  <1> SUFFICES ASSUME b + 1 <= a PROVE FALSE
    OBVIOUS
  <1>1. PICK k \in Nat : a = b + 1 + k
    <2>1. a - (b + 1) \in Nat /\ a = b + 1 + (a - (b + 1))
      OBVIOUS
    <2> QED
      BY <2>1
  <1>2. s * a = s * b + s + s * k /\ s * k \in Nat /\ s * b \in Int
    BY <1>1
  <1>3. \A p, q \in Int : p <= q + y /\ p = q + s => FALSE \/ s <= y
    OBVIOUS
  <1> QED
    BY <1>2

LEMMA FewPages ==
  ASSUME RingSizes, NEW r \in Nat, NEW w \in Nat, w - r <= Ring!max_buffered_elements
  PROVE  Pages(r, w) \in Int /\ Pages(r, w) <= NumPages
  <1>1. /\ r \div PageSize \in Nat /\ r % PageSize \in Nat /\ r % PageSize < PageSize
        /\ r = PageSize * (r \div PageSize) + (r % PageSize)
    BY PageIs
  <1>2. /\ w \div PageSize \in Nat /\ w % PageSize \in Nat /\ w % PageSize < PageSize
        /\ w = PageSize * (w \div PageSize) + (w % PageSize)
    BY PageIs
  <1>3. \A s, n, a, x, b, y \in Nat : (s * b + y) - (s * a + x) <= n * s =>
             s * b + y <= s * (a + n) + x
    OBVIOUS
  <1>4. NumPages \in Nat /\ PageSize \in Nat
    BY DEF RingSizes
  <1>5. PageSize * (w \div PageSize) + (w % PageSize)
           <= PageSize * ((r \div PageSize) + NumPages) + (r % PageSize)
    BY <1>1, <1>2, <1>3, <1>4, Zenon DEF Ring!max_buffered_elements
  <1>6. (r \div PageSize) + NumPages \in Int /\ w \div PageSize \in Int
    BY <1>1, <1>2, <1>4
  <1>7. w \div PageSize <= (r \div PageSize) + NumPages
    BY <1>1, <1>2, <1>4, <1>5, <1>6, OnlyPage, Zenon
  <1> QED
    BY <1>1, <1>2, <1>4, <1>7 DEF Pages

(* A whole rest of a page goes. *)
LEMMA NextPage ==
  ASSUME RingSizes, NEW r \in Nat
  PROVE  /\ r + (PageSize - (r % PageSize)) \in Nat
         /\ (r + (PageSize - (r % PageSize))) \div PageSize = (r \div PageSize) + 1
  <1> DEFINE q == r \div PageSize
             m == r % PageSize
             n == r + (PageSize - m)
  <1>1. /\ q \in Nat /\ m \in Nat /\ m < PageSize /\ r = PageSize * q + m /\ PageSize \in Nat
    BY PageIs DEF RingSizes
  <1>2. n \in Nat
    BY <1>1
  <1>3. n = PageSize * (q + 1) + 0
    <2>1. \A s, a, x \in Nat : (s * a + x) + (s - x) = s * (a + 1) + 0
      OBVIOUS
    <2> QED
      BY <1>1, <2>1
  <1>4. \A d \in Nat \ {0}, k, x \in Nat : x = d * k + 0 => x \div d = k
    OBVIOUS
  <1>5. q + 1 \in Nat /\ PageSize \in Nat \ {0}
    BY <1>1 DEF RingSizes
  <1> HIDE DEF q, m, n
  <1>9. n \div PageSize = q + 1
    BY <1>2, <1>3, <1>4, <1>5
  <1> QED
    BY <1>2, <1>9 DEF q, m, n

LEMMA AcceptedIs ==
  ASSUME NEW t
  PROVE  Ring!Accepted(t) = Taken(Ring!Frame(t))
         /\ Ring!Available(t) = Ring!Frame(t).w - Ring!Frame(t).r
  BY DEF Ring!Accepted, Taken, Ring!Available

LEMMA GotoIs ==
  ASSUME RingSizes, RingInv, NEW t \in Ring!Parties, stack[t] # <<>>, NEW l \in RingLabels,
         Ring!Goto(t, l)
  PROVE  \E f \in RingCalls :
           /\ Ring!Update(t, f) /\ f.op = Ring!Frame(t).op /\ f.at = l
           /\ f.r = Ring!Frame(t).r /\ f.w = Ring!Frame(t).w /\ f.n = Ring!Frame(t).n
           /\ Taken(f) = Taken(Ring!Frame(t))
  <1> DEFINE f == [Ring!Frame(t) EXCEPT !.at = l]
  <1>1. /\ f \in RingCalls /\ f.op = Ring!Frame(t).op /\ f.at = l
        /\ f.r = Ring!Frame(t).r /\ f.w = Ring!Frame(t).w /\ f.n = Ring!Frame(t).n
    BY CallHas DEF RingCalls
  <1>2. Ring!Update(t, f)
    BY DEF Ring!Goto
  <1>3. Taken(f) = Taken(Ring!Frame(t))
    BY <1>1 DEF Taken
  <1> QED
    BY <1>1, <1>2, <1>3

(* The source only signals: a supply is not on the stack of another call. *)
LEMMA SupplyIsFirst ==
  ASSUME RingSizes, RingInv, NEW t \in Ring!Parties, stack[t] # <<>>,
         Ring!Frame(t).op = "supply",
         Ring!Frame(t).at \in Loading, style["source"] = "signal", style["sink"] # "signal",
         NEW f, f.at \notin Loading \/ f.at = "publish",
         NEW r \in Nat, NEW w \in Nat, w - r <= Ring!max_buffered_elements
  PROVE  Depth(Len(stack[t]), f, r, w)
  <1>1. Len(stack[t]) = 1
    <2>1. PICK n \in Nat : n = Len(stack[t]) /\ n >= 1
      BY CallHas
    <2>2. n >= 2 => Ring!Frame(t).op = "consume"
      BY <2>1, CallHas DEF Depth
    <2>3. n >= 1 /\ ~(n >= 2)
      BY <2>1, <2>2, Zenon
    <2>4. n = 1
      BY <2>3
    <2> QED
      BY <2>1, <2>4
  <1>2. Pages(r, w) \in Int /\ Pages(r, w) <= NumPages
    BY FewPages
  <1> QED
    BY <1>1, <1>2 DEF Depth, RingSizes

(* The steps that move a pointer. *)
LEMMA DropKeeps ==
  ASSUME RingSizes, RingInv, UNCHANGED <<prioritize_old, style>>, NEW t \in Ring!Parties,
         Ring!Drop(t)
  PROVE  RingInv'
  <1> DEFINE excess == Ring!Available(t) + Ring!Accepted(t) - Ring!max_buffered_elements
  <1>1. /\ stack[t] # <<>> /\ Ring!Frame(t).op = "supply" /\ Ring!Frame(t).at = "swap"
        /\ Ring!Available(t) + Ring!Accepted(t) > Ring!max_buffered_elements
        /\ UNCHANGED <<connected, write_pointer, signalled>>
    BY DEF Ring!Drop, Ring!At
  <1>2. /\ Ring!Frame(t) \in RingCalls /\ Ring!Frame(t).r \in Nat /\ Ring!Frame(t).w \in Nat
        /\ Ring!Frame(t).r <= read_pointer /\ Ring!Frame(t).r <= Ring!Frame(t).w
        /\ Ring!Frame(t).w = write_pointer
        /\ write_pointer - Ring!Frame(t).r <= Ring!max_buffered_elements
        /\ read_pointer \in Nat /\ write_pointer \in Nat /\ Ring!max_buffered_elements \in Nat
        /\ read_pointer <= write_pointer
        /\ write_pointer - read_pointer <= Ring!max_buffered_elements
    BY <1>1, CallHas DEF Follows, RingHolds
  <1>3. /\ Taken(Ring!Frame(t)) \in Int /\ Taken(Ring!Frame(t)) <= Ring!max_buffered_elements
        /\ Taken(Ring!Frame(t)) >= 0
    BY <1>2, TakesIs
  <1>4. Ring!Accepted(t) = Taken(Ring!Frame(t))
        /\ Ring!Available(t) = Ring!Frame(t).w - Ring!Frame(t).r
    BY AcceptedIs
  <1>5. Ring!max_buffered_elements' = Ring!max_buffered_elements
    BY DEF Ring!max_buffered_elements
  <1>6. CASE read_pointer = Ring!Frame(t).r /\ read_pointer' = read_pointer + excess
             /\ Ring!Goto(t, "publish")
    <2>1. PICK f \in RingCalls :
            /\ Ring!Update(t, f) /\ f.op = "supply" /\ f.at = "publish"
            /\ f.r = Ring!Frame(t).r /\ f.w = Ring!Frame(t).w /\ Taken(f) = Taken(Ring!Frame(t))
      BY <1>1, <1>6, GotoIs DEF RingLabels
    <2>2. /\ read_pointer' \in Nat /\ read_pointer <= read_pointer'
          /\ read_pointer' <= write_pointer
          /\ f.w + Taken(f) - Ring!max_buffered_elements <= read_pointer'
      <3>1. read_pointer' = Ring!Frame(t).w + Taken(Ring!Frame(t)) - Ring!max_buffered_elements
        BY <1>2, <1>3, <1>4, <1>6
      <3>2. Ring!Frame(t).w + Taken(Ring!Frame(t)) - Ring!max_buffered_elements > Ring!Frame(t).r
        BY <1>1, <1>2, <1>3, <1>4
      <3>3. /\ Ring!Frame(t).w + Taken(Ring!Frame(t)) - Ring!max_buffered_elements \in Nat
            /\ Ring!Frame(t).w + Taken(Ring!Frame(t)) - Ring!max_buffered_elements <= Ring!Frame(t).w
        BY <1>2, <1>3, <3>2
      <3>4. f.w + Taken(f) - Ring!max_buffered_elements = read_pointer'
        BY <2>1, <3>1
      <3> QED
        BY <1>2, <1>6, <3>1, <3>2, <3>3, <3>4
    <2>3. RingHolds' /\ write_pointer' = write_pointer /\ write_pointer' \in Nat
          /\ write_pointer <= write_pointer'
      <3>1. write_pointer' = write_pointer /\ write_pointer <= write_pointer
        BY <1>1, <1>2
      <3>2. \A x \in Nat : read_pointer <= x => write_pointer - x <= Ring!max_buffered_elements
        BY <1>2
      <3>3. write_pointer - read_pointer' <= Ring!max_buffered_elements
        BY <2>2, <3>2, Zenon
      <3> QED
        BY <1>2, <1>5, <2>2, <3>1, <3>3, Zenon DEF RingHolds
    <2>4. Follows(f, read_pointer', write_pointer')
      BY <1>1, <1>2, <2>1, <2>2 DEF Follows
    <2>5. Current(f, read_pointer', write_pointer')
      BY <2>1 DEF Current
    <2>6. f.at \in ToSink /\ f.op # "connect" /\ Reaches(f, read_pointer')
      BY <2>1 DEF ToSink, Loading, Reaches
    <2>7. style["source"] = "signal" /\ style["sink"] # "signal" =>
            Depth(Len(stack[t]), f, read_pointer', write_pointer')
      BY <1>1, <1>2, <2>1, <2>2, SupplyIsFirst DEF Loading
    <2> QED
      BY <1>1, <2>1, <2>2, <2>3, <2>4, <2>5, <2>6, <2>7, RingStepKeeps
  <1>7. CASE UNCHANGED read_pointer /\ Ring!Goto(t, "before_available")
    <2>1. PICK f \in RingCalls :
            /\ Ring!Update(t, f) /\ f.op = "supply" /\ f.at = "before_available"
      BY <1>1, <1>7, GotoIs DEF RingLabels
    <2>2. RingHolds' /\ write_pointer' = write_pointer /\ write_pointer' \in Nat
          /\ write_pointer <= write_pointer' /\ read_pointer <= read_pointer'
          /\ read_pointer' \in Nat
      BY <1>1, <1>2, <1>5, <1>7 DEF RingHolds
    <2>4. Follows(f, read_pointer', write_pointer')
      BY <2>1 DEF Follows, Loading
    <2>5. Current(f, read_pointer', write_pointer')
      BY <2>1 DEF Current
    <2>6. f.at \in ToSink /\ f.op # "connect" /\ Reaches(f, read_pointer')
      BY <2>1 DEF ToSink, Loading, Reaches
    <2>7. style["source"] = "signal" /\ style["sink"] # "signal" =>
            Depth(Len(stack[t]), f, read_pointer', write_pointer')
      BY <1>1, <1>2, <1>7, <2>1, <2>2, SupplyIsFirst DEF Loading
    <2> QED
      BY <1>1, <2>1, <2>2, <2>4, <2>5, <2>6, <2>7, RingStepKeeps
  <1> QED
    BY <1>6, <1>7 DEF Ring!Drop

LEMMA PublishKeeps ==
  ASSUME RingSizes, RingInv, UNCHANGED <<prioritize_old, style>>, NEW t \in Ring!Parties,
         Ring!Publish(t)
  PROVE  RingInv'
  <1>1. /\ stack[t] # <<>> /\ Ring!Frame(t).op = "supply"
        /\ Ring!Frame(t).at \in {"swap", "publish"}
        /\ Ring!Frame(t).at = "swap" =>
             Ring!Available(t) + Ring!Accepted(t) <= Ring!max_buffered_elements
        /\ write_pointer' = Ring!Frame(t).w + Ring!Accepted(t)
        /\ Ring!Goto(t, "before_available")
        /\ UNCHANGED <<connected, read_pointer, signalled>>
    BY DEF Ring!Publish, Ring!At
  <1>2. /\ Ring!Frame(t) \in RingCalls /\ Ring!Frame(t).r \in Nat /\ Ring!Frame(t).w \in Nat
        /\ Ring!Frame(t).r <= read_pointer /\ Ring!Frame(t).r <= Ring!Frame(t).w
        /\ Ring!Frame(t).w = write_pointer
        /\ write_pointer - Ring!Frame(t).r <= Ring!max_buffered_elements
        /\ read_pointer \in Nat /\ write_pointer \in Nat /\ Ring!max_buffered_elements \in Nat
        /\ read_pointer <= write_pointer
        /\ Ring!Frame(t).at = "publish" =>
             Ring!Frame(t).w + Taken(Ring!Frame(t)) - Ring!max_buffered_elements <= read_pointer
    BY <1>1, CallHas DEF Follows, RingHolds
  <1>3. Taken(Ring!Frame(t)) \in Int /\ Taken(Ring!Frame(t)) >= 0
    BY <1>2, TakesIs
  <1>4. Ring!Accepted(t) = Taken(Ring!Frame(t))
        /\ Ring!Available(t) = Ring!Frame(t).w - Ring!Frame(t).r
    BY AcceptedIs
  <1>5. Ring!max_buffered_elements' = Ring!max_buffered_elements
    BY DEF Ring!max_buffered_elements
  <1>6. /\ write_pointer' \in Nat /\ write_pointer <= write_pointer'
        /\ write_pointer' - read_pointer <= Ring!max_buffered_elements
    BY <1>1, <1>2, <1>3, <1>4
  <1>7. /\ RingHolds' /\ read_pointer' = read_pointer /\ read_pointer' \in Nat
        /\ read_pointer <= read_pointer'
    BY <1>1, <1>2, <1>5, <1>6 DEF RingHolds
  <1>8. PICK f \in RingCalls : Ring!Update(t, f) /\ f.op = "supply" /\ f.at = "before_available"
    BY <1>1, GotoIs DEF RingLabels
  <1>9. Follows(f, read_pointer', write_pointer') /\ Current(f, read_pointer', write_pointer')
    BY <1>8 DEF Follows, Loading, Current
  <1>10. f.at \in ToSink /\ f.op # "connect" /\ Reaches(f, read_pointer')
    BY <1>8 DEF ToSink, Loading, Reaches
  <1>11. style["source"] = "signal" /\ style["sink"] # "signal" =>
           Depth(Len(stack[t]), f, read_pointer', write_pointer')
    BY <1>1, <1>2, <1>6, <1>7, <1>8, SupplyIsFirst DEF Loading
  <1> QED
    BY <1>1, <1>6, <1>7, <1>8, <1>9, <1>10, <1>11, RingStepKeeps

LEMMA ConsumeKeeps ==
  ASSUME RingSizes, RingInv, UNCHANGED <<prioritize_old, style>>, NEW t \in Ring!Parties,
         Ring!Consume(t)
  PROVE  RingInv'
  <1> DEFINE k == Ring!Smaller(Ring!Frame(t).w - Ring!Frame(t).r,
                          Ring!Smaller(PageSize - (Ring!Frame(t).r % PageSize), PageSize))
  <1>1. /\ stack[t] # <<>> /\ Ring!Frame(t).op = "consume" /\ Ring!Frame(t).at = "swap"
        /\ Ring!Goto(t, "before_available") /\ UNCHANGED <<connected, write_pointer, signalled>>
    BY DEF Ring!Consume, Ring!At
  <1>2. /\ Ring!Frame(t) \in RingCalls /\ Ring!Frame(t).r \in Nat /\ Ring!Frame(t).w \in Nat
        /\ Ring!Frame(t).r <= read_pointer /\ Ring!Frame(t).r <= Ring!Frame(t).w
        /\ Ring!Frame(t).w <= write_pointer
        /\ read_pointer \in Nat /\ write_pointer \in Nat /\ Ring!max_buffered_elements \in Nat
        /\ read_pointer <= write_pointer
        /\ write_pointer - read_pointer <= Ring!max_buffered_elements
        /\ Ring!Frame(t).n = PageSize /\ PageSize \in Nat /\ PageSize > 0
    BY <1>1, CallHas DEF Follows, RingHolds, Loading
  <1>3. read_pointer' = IF read_pointer = Ring!Frame(t).r THEN Ring!Frame(t).r + k ELSE read_pointer
    BY <1>2, AcceptedIs DEF Ring!Consume
  <1>4. PICK m \in Nat : m = Ring!Frame(t).r % PageSize /\ m < PageSize
    BY <1>2, RemainderIs
  <1>5. k \in Nat /\ k <= Ring!Frame(t).w - Ring!Frame(t).r
    BY <1>2, <1>4 DEF Ring!Smaller
  <1>6. Ring!Frame(t).w - Ring!Frame(t).r >= PageSize =>
          k = PageSize - (Ring!Frame(t).r % PageSize)
    <2>1. PageSize \in Nat /\ m < PageSize
      BY <1>2, <1>4
    <2>2. PICK d \in Nat : d = Ring!Frame(t).w - Ring!Frame(t).r
      BY <1>2
    <2>3. k = Ring!Smaller(d, Ring!Smaller(PageSize - m, PageSize))
      BY <1>4, <2>2
    <2> HIDE DEF k
    <2>4. d >= PageSize => Ring!Smaller(d, Ring!Smaller(PageSize - m, PageSize)) = PageSize - m
      BY <2>1 DEF Ring!Smaller
    <2> QED
      BY <1>4, <2>2, <2>3, <2>4
  <1> HIDE DEF k
  <1>7. /\ read_pointer' \in Nat /\ read_pointer <= read_pointer'
        /\ read_pointer' <= write_pointer
    BY <1>2, <1>3, <1>5
  <1>8. write_pointer - read_pointer' <= Ring!max_buffered_elements
    <2>1. \A x \in Nat : read_pointer <= x => write_pointer - x <= Ring!max_buffered_elements
      BY <1>2
    <2> QED
      BY <1>7, <2>1, Zenon
  <1>9. /\ RingHolds' /\ write_pointer' = write_pointer /\ write_pointer' \in Nat
        /\ write_pointer <= write_pointer'
    BY <1>1, <1>2, <1>7, <1>8 DEF RingHolds, Ring!max_buffered_elements
  <1>10. PICK f \in RingCalls : Ring!Update(t, f) /\ f.op = "consume"
         /\ f.at = "before_available"
    BY <1>1, GotoIs DEF RingLabels
  <1>11. Follows(f, read_pointer', write_pointer') /\ Current(f, read_pointer', write_pointer')
    BY <1>10 DEF Follows, Loading, Current
  <1>12. f.at \in ToSink /\ f.op # "connect" /\ Reaches(f, read_pointer')
    BY <1>10 DEF ToSink, Loading, Reaches
  <1>13. ASSUME style["source"] = "signal", style["sink"] # "signal"
         PROVE  Depth(Len(stack[t]), f, read_pointer', write_pointer)
    <2>1. PICK n \in Nat : n = Len(stack[t]) /\ n >= 1
      BY <1>1, CallHas
    <2>2. Depth(n, Ring!Frame(t), read_pointer, write_pointer) /\ n \in Nat /\ n >= 1
          /\ Ring!Frame(t).r = read_pointer /\ Ring!Frame(t).w = write_pointer
      BY <1>1, <1>13, <2>1, CallHas DEF Current
    <2>3. Pages(read_pointer', write_pointer) \in Int
          /\ Pages(read_pointer', write_pointer) <= NumPages /\ NumPages \in Nat
      BY <1>2, <1>7, <1>8, FewPages DEF RingSizes
    <2>4. ASSUME n = 1 PROVE Depth(n, f, read_pointer', write_pointer)
      BY <1>10, <2>2, <2>3, <2>4 DEF Depth, Loading
    <2>5. ASSUME n >= 2 PROVE Depth(n, f, read_pointer', write_pointer)
      <3>1. /\ write_pointer - read_pointer >= PageSize
            /\ n + Pages(read_pointer, write_pointer) <= NumPages + 2 /\ n <= NumPages + 2
        BY <1>1, <2>2, <2>5 DEF Depth, Loading
      <3>2. read_pointer' = read_pointer + (PageSize - (read_pointer % PageSize))
        BY <1>3, <1>6, <2>2, <3>1
      <3>3. read_pointer' \div PageSize = (read_pointer \div PageSize) + 1
        BY <1>2, <3>2, NextPage
      <3>4. /\ read_pointer \div PageSize \in Nat /\ write_pointer \div PageSize \in Nat
        BY <1>2, PageIs
      <3>5. n + Pages(read_pointer', write_pointer) <= NumPages + 1
        BY <2>2, <2>3, <3>1, <3>3, <3>4 DEF Pages
      <3> QED
        BY <1>10, <2>2, <2>3, <3>1, <3>5 DEF Depth, Loading
    <2>6. Depth(n, f, read_pointer', write_pointer)
      <3>1. n = 1 \/ n >= 2
        BY <2>2
      <3> QED
        BY <2>4, <2>5, <3>1
    <2> QED
      BY <2>1, <2>6
  <1>14. style["source"] = "signal" /\ style["sink"] # "signal" =>
           Depth(Len(stack[t]), f, read_pointer', write_pointer')
    BY <1>9, <1>13
  <1> QED
    BY <1>1, <1>7, <1>9, <1>10, <1>11, <1>12, <1>14, RingStepKeeps

(* A call begins, or comes back. *)
Fits(u, t) ==
  /\ Nested(u)
  /\ u # <<>> =>
       /\ Follows(u[Len(u)], read_pointer, write_pointer)
       /\ Threads => u[Len(u)].op # (IF t = "source" THEN "consume" ELSE "supply")
       /\ ~Threads => Current(u[Len(u)], read_pointer, write_pointer)
       /\ style["source"] = "signal" /\ style["sink"] # "signal" =>
            Depth(Len(u), u[Len(u)], read_pointer, write_pointer)
  /\ style["sink"] = "signal" => Len(u) <= 1

LEMMA CallsKeep ==
  ASSUME RingSizes, RingInv, UNCHANGED <<prioritize_old, style, read_pointer, write_pointer>>,
         NEW t \in Ring!Parties, NEW u \in Seq(RingCalls), stack' = [stack EXCEPT ![t] = u],
         Fits(u, t),
         signalled' \in [Ring!Parties -> BOOLEAN],
         Threads \/ \A q \in Ring!Parties \ {t} : stack[q] = <<>>,
         SinkIsTold', SourceIsTold'
  PROVE  RingInv'
  <1>1. RingTypeOK /\ RingHolds
    BY DEF RingInv
  <1>2. stack'[t] = u /\ \A q \in Ring!Parties \ {t} : stack'[q] = stack[q]
    BY <1>1 DEF RingTypeOK
  <1>3. RingTypeOK'
    BY <1>1 DEF RingTypeOK
  <1>4. RingHolds'
    BY <1>1 DEF RingHolds, Ring!max_buffered_elements
  <1>5. Threads' <=> Threads
    BY DEF Threads
  <1>6. Alone'
    BY <1>2, <1>5 DEF Alone, Ring!Parties
  <1>7. StackFollows(t)'
    <2>1. u # <<>> => Ring!Frame(t)' = u[Len(u)]
      BY <1>2 DEF Ring!Frame
    <2> QED
      BY <1>2, <1>5, <2>1 DEF Fits, StackFollows, Follows, Taken, Ring!max_buffered_elements,
         Current,
         Depth, Pages, Nested
  <1>8. \A q \in Ring!Parties : StackFollows(q)'
    <2> SUFFICES ASSUME NEW q \in Ring!Parties, q # t PROVE StackFollows(q)'
      BY <1>7
    <2>1. /\ stack'[q] = stack[q] /\ (Threads \/ stack[q] = <<>>)
          /\ read_pointer' \in Nat /\ write_pointer' \in Nat
          /\ read_pointer <= read_pointer' /\ write_pointer <= write_pointer'
      BY <1>1, <1>2 DEF RingTypeOK
    <2> QED
      BY <2>1, OtherFollows
  <1> QED
    BY <1>3, <1>4, <1>6, <1>8 DEF RingInv

LEMMA WaitingFits ==
  ASSUME RingSizes, RingInv, NEW t \in Ring!Parties, stack[t] # <<>>,
         NEW u \in Seq(RingCalls), AllWait(u), Len(u) <= Len(stack[t]),
         Len(u) = Len(stack[t]) => u[Len(u)].op = Ring!Frame(t).op
  PROVE  Fits(u, t)
  <1>1. PICK n \in Nat : n = Len(u)
    OBVIOUS
  <1>2. PICK k \in Nat : k = Len(stack[t]) /\ k >= 1
    BY CallHas
  <1>3. n <= k /\ k >= 1 /\ (n # 0 <=> u # <<>>)
    BY <1>1, <1>2, EmptySeq, Zenon
  <1>4. style["sink"] = "signal" => k <= 1
    BY <1>2 DEF RingInv, StackFollows
  <1>5. style["sink"] = "signal" => n <= 1 /\ (n # 0 => n = k)
    BY <1>3, <1>4
  <1>6. Nested(u) /\ (u # <<>> => u[Len(u)].at = "before_needed")
    BY WaitingNests
  <1>7. ASSUME Threads, u # <<>>
        PROVE  u[Len(u)].op # (IF t = "source" THEN "consume" ELSE "supply")
    <2>1. n = k
      BY <1>3, <1>5, <1>7 DEF Threads, Ring!Parties
    <2> QED
      BY <1>1, <1>2, <1>7, <2>1 DEF RingInv, StackFollows
  <1>8. ASSUME style["source"] = "signal", style["sink"] # "signal", u # <<>>
        PROVE  Depth(Len(u), u[Len(u)], read_pointer, write_pointer)
    <2>1. k <= NumPages + 2 /\ NumPages \in Nat
      BY <1>2, <1>8, CallHas DEF Depth, RingSizes
    <2>2. n <= NumPages + 2
      BY <1>3, <2>1
    <2> QED
      BY <1>1, <1>6, <1>8, <2>2 DEF Depth, Loading
  <1>9. u # <<>> => /\ Follows(u[Len(u)], read_pointer, write_pointer)
                    /\ Current(u[Len(u)], read_pointer, write_pointer)
    BY <1>6 DEF Follows, Current, Loading
  <1>10. style["sink"] = "signal" => Len(u) <= 1
    BY <1>1, <1>5, Zenon
  <1> QED
    BY <1>6, <1>7, <1>8, <1>9, <1>10 DEF Fits

LEMMA NewCallIs ==
  ASSUME RingSizes, NEW p \in Ring!Parties, NEW n \in Nat
  PROVE  /\ Ring!Call(p, n) \in RingCalls /\ Ring!Call(p, n).at = "load_read"
         /\ Ring!Call(p, n).n = n
         /\ Ring!Call(p, n).op = Ring!Operation(p) /\ Ring!Operation(p) # "connect"
         /\ Ring!Operation(p) = "supply" <=> p = "source"
         /\ Ring!Operation(p) = "consume" <=> p = "sink"
  BY DEF Ring!Call, RingCalls, RingLabels, Ring!Operation, Ring!Parties

LEMMA StackIs ==
  ASSUME RingInv, NEW t \in Ring!Parties, stack[t] # <<>>
  PROVE  /\ stack[t] \in Seq(RingCalls) /\ Nested(stack[t])
         /\ stack \in [Ring!Parties -> Seq(RingCalls)]
         /\ signalled \in [Ring!Parties -> BOOLEAN]
         /\ Threads \/ \A q \in Ring!Parties \ {t} : stack[q] = <<>>
  BY DEF RingInv, RingTypeOK, StackFollows, Alone, Ring!Parties

(* Room is seen if the read pointer is where the check has read it, or     *)
(* else another call has moved it since and goes on to its own check.      *)
LEMMA CheckNeededKeeps ==
  ASSUME RingSizes, RingInv, UNCHANGED <<prioritize_old, style>>, NEW t \in Ring!Parties,
         Ring!CheckNeeded(t)
  PROVE  RingInv'
  <1> DEFINE u == SubSeq(stack[t], 1, Len(stack[t]) - 1)
             c == Ring!Call("source", PageSize)
  <1>1. /\ stack[t] # <<>> /\ Ring!Frame(t).at = "needed"
        /\ UNCHANGED <<connected, read_pointer, write_pointer>>
    BY DEF Ring!CheckNeeded, Ring!In
  <1>2. /\ u \in Seq(RingCalls) /\ Len(u) = Len(stack[t]) - 1 /\ AllWait(u)
    BY <1>1, StackIs, DropLast
  <1>3. Ring!Return(t) = [stack EXCEPT ![t] = u]
    BY DEF Ring!Return
  <1> HIDE DEF u
  <1>4. PICK n \in Nat : n = Len(u)
    BY <1>2
  <1>5. Len(stack[t]) = n + 1
    <2>1. PICK k \in Nat : k = Len(stack[t]) /\ k >= 1
      BY <1>1, CallHas
    <2>2. n = k - 1 /\ k \in Nat
      BY <1>2, <1>4, <2>1
    <2>3. k = n + 1
      BY <2>2
    <2> QED
      BY <2>1, <2>3
  <1>6. Len(u) <= Len(stack[t]) /\ Len(u) # Len(stack[t]) /\ (n = 0 <=> u = <<>>)
    <2>1. n <= n + 1 /\ n # n + 1
      OBVIOUS
    <2> QED
      BY <1>2, <1>4, <1>5, <2>1, EmptySeq, Zenon
  <1>7. /\ c \in RingCalls /\ c.at = "load_read" /\ c.op = "supply"
    BY NewCallIs, RingSizesAre DEF Ring!Parties, Ring!Operation
  <1>8. u # <<>> => u[Len(u)].at = "before_needed"
    BY <1>2, WaitingNests
  <1> HIDE DEF c
  <1>9. \/ /\ stack' = [stack EXCEPT ![t] = u]
           /\ \/ UNCHANGED signalled
              \/ signalled' = [signalled EXCEPT !["source"] = TRUE]
        \/ /\ style["source"] # "signal" /\ UNCHANGED signalled
           /\ stack' = [stack EXCEPT ![t] = Append(u, c)]
    <2>1. [[stack EXCEPT ![t] = u] EXCEPT ![t] = Append(@, c)] = [stack EXCEPT ![t] = Append(u, c)]
      BY <1>1, StackIs
    <2> QED
      BY <1>3, <2>1 DEF Ring!CheckNeeded, Ring!Notify, c
  <1>10. "source" \in connected /\ Ring!RoomFor(write_pointer - Ring!Frame(t).r) =>
           \/ /\ style["source"] = "signal" /\ signalled' = [signalled EXCEPT !["source"] = TRUE]
           \/ style["source"] # "signal" /\ write_pointer + PageSize > MaxElements
           \/ stack' = [stack EXCEPT ![t] = Append(u, c)]
    <2>1. [[stack EXCEPT ![t] = u] EXCEPT ![t] = Append(@, c)] = [stack EXCEPT ![t] = Append(u, c)]
      BY <1>1, StackIs
    <2> QED
      BY <1>3, <2>1 DEF Ring!CheckNeeded, Ring!Notify, c
  <1>11. PICK v \in Seq(RingCalls) :
           /\ stack' = [stack EXCEPT ![t] = v] /\ (v = u \/ v = Append(u, c))
           /\ v # u => style["source"] # "signal"
           /\ \/ UNCHANGED signalled
              \/ signalled' = [signalled EXCEPT !["source"] = TRUE]
    <2>1. CASE stack' = [stack EXCEPT ![t] = u]
      BY <1>2, <1>9, <2>1
    <2>2. CASE stack' # [stack EXCEPT ![t] = u]
      <3>1. Append(u, c) \in Seq(RingCalls)
        BY <1>2, <1>7, Push
      <3> QED
        BY <1>9, <2>2, <3>1
    <2> QED
      BY <2>1, <2>2
  <1>12. /\ stack'[t] = v /\ \A q \in Ring!Parties \ {t} : stack'[q] = stack[q]
         /\ signalled' \in [Ring!Parties -> BOOLEAN] /\ signalled'["sink"] = signalled["sink"]
         /\ signalled["source"] => signalled'["source"]
    BY <1>1, <1>11, StackIs DEF Ring!Parties
  <1>13. ASSUME v = Append(u, c)
         PROVE  /\ Nested(v) /\ v # <<>> /\ Len(v) = n + 1 /\ v[Len(v)] = c
    BY <1>2, <1>4, <1>7, <1>13, Push
  <1>14. Fits(v, t)
    <2>1. CASE v = u
      BY <1>1, <1>2, <1>6, <2>1, WaitingFits
    <2>2. CASE v = Append(u, c) /\ v # u
      <3>1. style["source"] # "signal" /\ ~Threads
        BY <1>11, <2>2 DEF Threads, Ring!Parties
      <3>2. Follows(c, read_pointer, write_pointer) /\ Current(c, read_pointer, write_pointer)
        BY <1>7 DEF Follows, Current
      <3>3. style["sink"] = "signal" => Len(v) <= 1
        BY <1>5, <1>13, <2>2 DEF RingInv, StackFollows
      <3> QED
        BY <1>13, <2>2, <3>1, <3>2, <3>3 DEF Fits
    <2> QED
      BY <1>11, <2>1, <2>2
  <1>15. SinkIsTold'
    <2> SUFFICES ASSUME NEW p \in Ring!Parties, stack[p] # <<>>, Ring!Frame(p).at \in ToSink
                 PROVE  stack'[p] # <<>> /\ Ring!Frame(p)'.at \in ToSink
      BY <1>1, <1>12 DEF SinkIsTold, RingInv
    <2>1. p # t
      BY <1>1 DEF ToSink, Loading
    <2> QED
      BY <1>12, <2>1 DEF Ring!Frame
  <1>16. ASSUME v # <<>>, v[Len(v)].at = "before_needed" \/ v[Len(v)] = c
         PROVE  SourceIsTold'
    <2>1. stack'[t] # <<>> /\ Ring!Frame(t)' = v[Len(v)]
      BY <1>12, <1>16 DEF Ring!Frame
    <2>2. Reaches(Ring!Frame(t), read_pointer)'
      BY <1>7, <1>16, <2>1 DEF Reaches, ToSink, Loading
    <2> QED
      BY <2>1, <2>2 DEF SourceIsTold
  <1>17. SourceIsTold'
    <2>1. CASE v = Append(u, c)
      BY <1>13, <1>16, <2>1
    <2>2. CASE v = u /\ u # <<>>
      BY <1>8, <1>16, <2>2
    <2>3. CASE v = u /\ u = <<>> /\ v # Append(u, c)
      <3>1. n = 0 /\ Len(stack[t]) = 1
        BY <1>5, <1>6, <2>3
      <3>2. CASE Ring!Frame(t).r = read_pointer
        <4>1. Ring!max_buffered_elements - (write_pointer - read_pointer) >= PageSize =>
                Ring!RoomFor(write_pointer - Ring!Frame(t).r)
          BY <3>2 DEF Ring!RoomFor
        <4>2. stack' # [stack EXCEPT ![t] = Append(u, c)]
          <5>1. [stack EXCEPT ![t] = Append(u, c)][t] = Append(u, c)
            BY <1>1, StackIs
          <5> QED
            BY <1>12, <2>3, <5>1
        <4>3. signalled' = [signalled EXCEPT !["source"] = TRUE] => signalled'["source"]
          BY <1>1, StackIs DEF Ring!Parties
        <4> QED
          BY <1>1, <1>10, <4>1, <4>2, <4>3 DEF SourceIsTold, Ring!max_buffered_elements
      <3>3. CASE Ring!Frame(t).r # read_pointer
        <4>1. ~Reaches(Ring!Frame(t), read_pointer) /\ ~(Len(stack[t]) >= 2)
          BY <1>1, <3>1, <3>3 DEF Reaches, ToSink, Loading
        <4> SUFFICES ASSUME NEW p \in Ring!Parties, p # t,
                            Len(stack[p]) >= 2 \/ (stack[p] # <<>> /\ Reaches(Ring!Frame(p), read_pointer))
                     PROVE  Len(stack'[p]) >= 2
                              \/ (stack'[p] # <<>> /\ Reaches(Ring!Frame(p)', read_pointer'))
          BY <1>1, <1>12, <4>1 DEF SourceIsTold, RingInv, Ring!max_buffered_elements, Reaches,
             ToSink, Loading
        <4> QED
          BY <1>1, <1>12 DEF Ring!Frame
      <3> QED
        BY <3>2, <3>3
    <2> QED
      BY <1>11, <2>1, <2>2, <2>3
  <1> QED
    BY <1>1, <1>11, <1>12, <1>14, <1>15, <1>17, StackIs, CallsKeep

LEMMA AfterAvailableIs ==
  ASSUME RingSizes, RingInv, NEW t \in Ring!Parties, stack[t] # <<>>
  PROVE  \E u \in Seq(RingCalls), n \in Nat :
           /\ Ring!AfterAvailable(t) = [stack EXCEPT ![t] = u] /\ AllWait(u) /\ Len(u) = n
           /\ Ring!Frame(t).op = "connect" => Len(stack[t]) = n + 1
           /\ Ring!Frame(t).op # "connect" =>
                Len(stack[t]) = n /\ n >= 1 /\ u[Len(u)].op = Ring!Frame(t).op
  <1>1. PICK k \in Nat : k = Len(stack[t]) /\ k >= 1
    BY CallHas
  <1>2. CASE Ring!Frame(t).op = "connect"
    <2> DEFINE u == SubSeq(stack[t], 1, Len(stack[t]) - 1)
    <2>1. u \in Seq(RingCalls) /\ Len(u) = Len(stack[t]) - 1 /\ AllWait(u)
      BY StackIs, DropLast
    <2>2. Ring!AfterAvailable(t) = [stack EXCEPT ![t] = u]
      BY <1>2 DEF Ring!AfterAvailable, Ring!Return
    <2>3. k - 1 \in Nat /\ k = (k - 1) + 1
      BY <1>1
    <2> HIDE DEF u
    <2>4. Len(u) = k - 1 /\ Len(stack[t]) = (k - 1) + 1
      BY <1>1, <2>1, <2>3, Zenon
    <2> QED
      BY <1>2, <2>1, <2>2, <2>3, <2>4, Zenon
  <1>3. CASE Ring!Frame(t).op # "connect"
    <2> DEFINE f == [Ring!Frame(t) EXCEPT !.at = "before_needed"]
               u == [stack[t] EXCEPT ![Len(stack[t])] = f]
    <2>1. f \in RingCalls /\ f.op = Ring!Frame(t).op /\ f.at = "before_needed"
      BY CallHas DEF RingCalls, RingLabels
    <2>2. Ring!AfterAvailable(t) = [stack EXCEPT ![t] = u]
      BY <1>3 DEF Ring!AfterAvailable, Ring!Frame
    <2> HIDE DEF f
    <2>3. u \in Seq(RingCalls) /\ Len(u) = Len(stack[t]) /\ u[Len(u)] = f /\ AllWait(u)
      BY <2>1, StackIs, ReplaceLast
    <2> HIDE DEF u
    <2> QED
      BY <1>1, <1>3, <2>1, <2>2, <2>3, Zenon
  <1> QED
    BY <1>2, <1>3

(* A page that is there is seen: the read pointer of the check is at most  *)
(* what it is now.                                                         *)
LEMMA CheckAvailableKeeps ==
  ASSUME RingSizes, RingInv, UNCHANGED <<prioritize_old, style>>, NEW t \in Ring!Parties,
         Ring!CheckAvailable(t)
  PROVE  RingInv'
  <1> DEFINE c == Ring!Call("sink", PageSize)
             ready == "sink" \in connected /\ write_pointer - Ring!Frame(t).r >= PageSize
  <1>1. /\ stack[t] # <<>> /\ Ring!Frame(t).at = "available"
        /\ UNCHANGED <<connected, read_pointer, write_pointer>>
    BY DEF Ring!CheckAvailable, Ring!In
  <1>2. PICK u \in Seq(RingCalls), n \in Nat :
           /\ Ring!AfterAvailable(t) = [stack EXCEPT ![t] = u] /\ AllWait(u) /\ Len(u) = n
           /\ Ring!Frame(t).op = "connect" => Len(stack[t]) = n + 1
           /\ Ring!Frame(t).op # "connect" =>
                Len(stack[t]) = n /\ n >= 1 /\ u[Len(u)].op = Ring!Frame(t).op
    BY <1>1, AfterAvailableIs
  <1>3. PICK k \in Nat :
           /\ k = Len(stack[t]) /\ k >= 1 /\ n <= k /\ k <= n + 1
           /\ n = k => Ring!Frame(t).op # "connect"
           /\ n # k => Ring!Frame(t).op = "connect" /\ k = n + 1
    <2>1. PICK k \in Nat : k = Len(stack[t]) /\ k >= 1
      BY <1>1, CallHas
    <2>2. (Ring!Frame(t).op = "connect" => k = n + 1) /\ (Ring!Frame(t).op # "connect" => k = n)
      BY <1>2, <2>1, Zenon
    <2>3. n <= k /\ k <= n + 1 /\ (n = k => Ring!Frame(t).op # "connect")
          /\ (n # k => Ring!Frame(t).op = "connect" /\ k = n + 1)
      BY <2>2
    <2> QED
      BY <2>1, <2>3
  <1>4. n = 0 <=> u = <<>>
    BY <1>2, EmptySeq, Zenon
  <1>5. u # <<>> => u[Len(u)].at = "before_needed"
    BY <1>2, WaitingNests
  <1>6. Len(u) <= Len(stack[t]) /\ (Len(u) = Len(stack[t]) => u[Len(u)].op = Ring!Frame(t).op)
    BY <1>2, <1>3, Zenon
  <1>7. /\ c \in RingCalls /\ c.at = "load_read" /\ c.op = "consume" /\ c.n = PageSize
    BY NewCallIs, RingSizesAre DEF Ring!Parties, Ring!Operation
  <1> HIDE DEF c
  <1>8. \/ /\ ready /\ style["sink"] = "signal" /\ stack' = [stack EXCEPT ![t] = u]
           /\ signalled' = [signalled EXCEPT !["sink"] = TRUE]
        \/ /\ ready /\ style["sink"] # "signal" /\ UNCHANGED signalled
           /\ stack' = [stack EXCEPT ![t] = Append(u, c)]
        \/ ~ready /\ stack' = [stack EXCEPT ![t] = u] /\ UNCHANGED signalled
    <2>1. [[stack EXCEPT ![t] = u] EXCEPT ![t] = Append(@, c)] = [stack EXCEPT ![t] = Append(u, c)]
      BY <1>1, StackIs
    <2> QED
      BY <1>2, <2>1 DEF Ring!CheckAvailable, Ring!Notify, c
  <1>9. "sink" \in connected /\ write_pointer - read_pointer >= PageSize => ready
    BY <1>1, CallHas DEF Follows
  <1> HIDE DEF ready
  <1>10. Append(u, c) \in Seq(RingCalls) /\ Append(u, c) # <<>> /\ Len(Append(u, c)) = n + 1
         /\ Append(u, c)[Len(Append(u, c))] = c /\ Nested(Append(u, c))
    <2>1. AllWait(u) /\ Len(u) = n
      BY <1>2
    <2>2. Append(u, c) \in Seq(RingCalls) /\ Append(u, c) # <<>>
          /\ Len(Append(u, c)) = Len(u) + 1
          /\ Append(u, c)[Len(Append(u, c))] = c /\ Nested(Append(u, c))
      BY <1>7, <2>1, Push
    <2> QED
      BY <2>1, <2>2, Zenon
  <1>11. PICK v \in Seq(RingCalls) :
           /\ stack' = [stack EXCEPT ![t] = v]
           /\ \/ v = u /\ (ready => style["sink"] = "signal" /\ signalled'["sink"])
              \/ v = Append(u, c) /\ style["sink"] # "signal" /\ ready
           /\ signalled' \in [Ring!Parties -> BOOLEAN]
           /\ signalled'["source"] = signalled["source"]
    <2>1. signalled \in [Ring!Parties -> BOOLEAN]
      BY <1>1, StackIs
    <2>2. /\ signalled' \in [Ring!Parties -> BOOLEAN]
          /\ signalled'["source"] = signalled["source"]
          /\ signalled' = [signalled EXCEPT !["sink"] = TRUE] => signalled'["sink"]
      BY <1>8, <2>1 DEF Ring!Parties
    <2>3. u \in Seq(RingCalls) /\ Append(u, c) \in Seq(RingCalls)
      BY <1>2, <1>10
    <2> QED
      BY <1>8, <2>2, <2>3, Zenon
  <1>12. stack'[t] = v /\ \A q \in Ring!Parties \ {t} : stack'[q] = stack[q]
    BY <1>1, <1>11, StackIs
  <1>13. v # <<>> => stack'[t] # <<>> /\ Ring!Frame(t)' = v[Len(v)]
    BY <1>12 DEF Ring!Frame
  <1>14. ASSUME style["source"] = "signal", style["sink"] # "signal", ready
         PROVE  Depth(n + 1, c, read_pointer, write_pointer)
    <2>1. /\ Depth(k, Ring!Frame(t), read_pointer, write_pointer)
          /\ Ring!Frame(t).r = read_pointer
          /\ read_pointer \in Nat /\ write_pointer \in Nat /\ PageSize \in Nat
          /\ write_pointer - read_pointer <= Ring!max_buffered_elements
          /\ read_pointer <= write_pointer
      BY <1>1, <1>3, <1>14, CallHas DEF Current, RingHolds
    <2>2. k + Pages(read_pointer, write_pointer) <= NumPages + 1
      BY <1>1, <2>1 DEF Depth
    <2>3. write_pointer - read_pointer >= PageSize
      BY <1>14, <2>1 DEF ready
    <2>4. /\ read_pointer \div PageSize \in Nat /\ write_pointer \div PageSize \in Nat
          /\ read_pointer \div PageSize <= write_pointer \div PageSize
      <3>1. /\ read_pointer \div PageSize \in Nat /\ write_pointer \div PageSize \in Nat
            /\ read_pointer % PageSize \in Nat /\ read_pointer % PageSize < PageSize
            /\ write_pointer % PageSize \in Nat /\ write_pointer % PageSize < PageSize
            /\ read_pointer = PageSize * (read_pointer \div PageSize) + (read_pointer % PageSize)
            /\ write_pointer = PageSize * (write_pointer \div PageSize) + (write_pointer % PageSize)
        BY <2>1, PageIs
      <3>2. read_pointer \div PageSize \in Int /\ write_pointer \div PageSize \in Int
        BY <3>1
      <3>3. PageSize * (read_pointer \div PageSize) + (read_pointer % PageSize)
              <= PageSize * (write_pointer \div PageSize) + (write_pointer % PageSize)
        BY <2>1, <3>1, Zenon
      <3> QED
        BY <2>1, <3>1, <3>2, <3>3, OnlyPage, Zenon
    <2>5. PICK d \in Nat : d = Pages(read_pointer, write_pointer)
      BY <2>4 DEF Pages
    <2>6. k + d <= NumPages + 1 /\ k <= n + 1 /\ n <= k /\ NumPages \in Nat
      BY <1>3, <2>2, <2>5 DEF RingSizes
    <2>7. n + 1 <= NumPages + 2 /\ (n + 1) + d <= NumPages + 2
      BY <2>6
    <2> QED
      BY <1>7, <2>3, <2>5, <2>7 DEF Depth, Loading
  <1>15. Fits(v, t)
    <2>1. CASE v = u
      BY <1>1, <1>2, <1>6, <2>1, WaitingFits
    <2>2. CASE v = Append(u, c) /\ style["sink"] # "signal" /\ ready
      <3>1. ~Threads
        BY <2>2 DEF Threads, Ring!Parties
      <3>2. Follows(c, read_pointer, write_pointer) /\ Current(c, read_pointer, write_pointer)
        BY <1>7 DEF Follows, Current
      <3> QED
        BY <1>10, <1>14, <2>2, <3>1, <3>2 DEF Fits
    <2> QED
      BY <1>11, <2>1, <2>2
  <1>16. SinkIsTold'
    <2> SUFFICES ASSUME ready
                 PROVE  \/ style'["sink"] = "signal" /\ signalled'["sink"]
                        \/ stack'[t] # <<>> /\ Ring!Frame(t)'.at \in ToSink
      BY <1>1, <1>9 DEF SinkIsTold
    <2>1. CASE v = u
      BY <1>11, <2>1
    <2>2. CASE v = Append(u, c)
      BY <1>7, <1>10, <1>13, <2>2 DEF ToSink, Loading
    <2> QED
      BY <1>11, <2>1, <2>2
  <1>17. SourceIsTold'
    <2>1. ASSUME v # <<>> PROVE Reaches(Ring!Frame(t), read_pointer)' /\ stack'[t] # <<>>
      <3>1. v[Len(v)].at = "before_needed" \/ v[Len(v)] = c
        BY <1>5, <1>10, <1>11, <2>1
      <3> QED
        BY <1>7, <1>13, <2>1, <3>1 DEF Reaches, ToSink, Loading
    <2>2. CASE v # <<>>
      BY <2>1, <2>2 DEF SourceIsTold
    <2>3. CASE v = <<>>
      <3>1. n = 0
        BY <1>4, <1>10, <1>11, <2>3
      <3>2. Ring!Frame(t).op = "connect" /\ k = 1
        BY <1>3, <3>1
      <3>3. ~(Len(stack[t]) >= 2) /\ ~Reaches(Ring!Frame(t), read_pointer)
        BY <1>1, <1>3, <3>2 DEF Reaches
      <3> SUFFICES ASSUME NEW p \in Ring!Parties, p # t,
                          Len(stack[p]) >= 2 \/ (stack[p] # <<>> /\ Reaches(Ring!Frame(p), read_pointer))
                   PROVE  Len(stack'[p]) >= 2
                            \/ (stack'[p] # <<>> /\ Reaches(Ring!Frame(p)', read_pointer'))
        BY <1>1, <1>11, <1>12, <3>3 DEF SourceIsTold, RingInv, Ring!max_buffered_elements,
           Reaches,
           ToSink, Loading
      <3> QED
        BY <1>1, <1>12 DEF Ring!Frame
    <2> QED
      BY <2>2, <2>3
  <1> QED
    BY <1>1, <1>11, <1>15, <1>16, <1>17, StackIs, CallsKeep

LEMMA FirstCall ==
  ASSUME NEW f \in RingCalls
  PROVE  /\ <<f>> \in Seq(RingCalls) /\ <<f>> # <<>> /\ Len(<<f>>) = 1 /\ <<f>>[Len(<<f>>)] = f
         /\ Nested(<<f>>)
  <1>1. <<f>> \in Seq(RingCalls) /\ <<f>> # <<>> /\ Len(<<f>>) = 1 /\ <<f>>[1] = f
    OBVIOUS
  <1>2. 1..(1 - 1) = {}
    OBVIOUS
  <1>3. Nested(<<f>>)
    BY <1>1, <1>2 DEF Nested
  <1> QED
    BY <1>1, <1>3

(* A flag is cleared before the call that checks again begins. *)
LEMMA RingStartKeeps ==
  ASSUME RingSizes, RingInv, UNCHANGED <<prioritize_old, style>>, NEW p \in Ring!Parties,
         NEW n \in 1..PageSize, Ring!Start(p, n)
  PROVE  RingInv'
  <1> DEFINE c == Ring!Call(p, n)
  <1>1. /\ stack' = [stack EXCEPT ![p] = <<c>>] /\ signalled' = [signalled EXCEPT ![p] = FALSE]
        /\ UNCHANGED <<connected, read_pointer, write_pointer>> /\ (p = "sink" => n = PageSize)
        /\ Threads \/ \A q \in Ring!Parties \ {p} : stack[q] = <<>>
    BY DEF Ring!Start, Ring!MayStart, Threads, Ring!Quiet
  <1>2. n \in Nat
    BY RingSizesAre
  <1>3. /\ c \in RingCalls /\ c.at = "load_read" /\ c.n = n /\ c.op # "connect"
        /\ (p = "source" => c.op = "supply") /\ (p = "sink" => c.op = "consume")
    BY <1>2, NewCallIs DEF Ring!Operation, Ring!Parties
  <1> HIDE DEF c
  <1>4. /\ <<c>> \in Seq(RingCalls) /\ <<c>> # <<>> /\ Len(<<c>>) = 1 /\ <<c>>[Len(<<c>>)] = c
        /\ Nested(<<c>>)
    BY <1>3, FirstCall
  <1>5. Follows(c, read_pointer, write_pointer) /\ Current(c, read_pointer, write_pointer)
    BY <1>1, <1>3 DEF Follows, Current, Ring!Parties
  <1>6. Depth(1, c, read_pointer, write_pointer)
    BY <1>3 DEF Depth, RingSizes
  <1>7. c.op # (IF p = "source" THEN "consume" ELSE "supply")
    BY <1>3 DEF Ring!Parties
  <1>8. Fits(<<c>>, p)
    BY <1>4, <1>5, <1>6, <1>7 DEF Fits
  <1>9. stack'[p] = <<c>> /\ signalled' \in [Ring!Parties -> BOOLEAN]
    BY <1>1 DEF RingInv, RingTypeOK
  <1>10. stack'[p] # <<>> /\ Ring!Frame(p)' = c
    BY <1>4, <1>9 DEF Ring!Frame
  <1>11. SinkIsTold' /\ SourceIsTold'
    BY <1>3, <1>10 DEF SinkIsTold, SourceIsTold, Reaches, ToSink, Loading
  <1> QED
    BY <1>1, <1>4, <1>8, <1>9, <1>11, CallsKeep

(* Whoever sets a callback makes the check for it at once. *)
LEMMA ConnectKeeps ==
  ASSUME RingSizes, RingInv, UNCHANGED <<prioritize_old, style>>, NEW p \in Ring!Parties,
         Ring!Connect(p)
  PROVE  RingInv'
  <1> DEFINE f == [Ring!Call(p, 0) EXCEPT !.op = "connect",
                                     !.at = IF p = "source" THEN "before_needed"
                                                            ELSE "before_available"]
  <1>1. /\ stack' = [stack EXCEPT ![p] = <<f>>] /\ connected' = connected \union {p}
        /\ Ring!Quiet
        /\ UNCHANGED <<read_pointer, write_pointer, signalled>>
    BY DEF Ring!Connect
  <1>2. /\ f \in RingCalls /\ f.op = "connect"
        /\ f.at = IF p = "source" THEN "before_needed" ELSE "before_available"
    BY DEF Ring!Call, RingCalls, RingLabels
  <1> HIDE DEF f
  <1>3. /\ <<f>> \in Seq(RingCalls) /\ <<f>> # <<>> /\ Len(<<f>>) = 1 /\ <<f>>[Len(<<f>>)] = f
        /\ Nested(<<f>>)
    BY <1>2, FirstCall
  <1>4. Follows(f, read_pointer, write_pointer) /\ Current(f, read_pointer, write_pointer)
    BY <1>2 DEF Follows, Current, Loading
  <1>5. Depth(1, f, read_pointer, write_pointer)
    <2>1. Pages(read_pointer, write_pointer) \in Int
          /\ Pages(read_pointer, write_pointer) <= NumPages
      BY FewPages DEF RingInv, RingTypeOK, RingHolds
    <2> QED
      BY <1>2, <2>1 DEF Depth, RingSizes, Loading
  <1>6. Fits(<<f>>, p)
    BY <1>2, <1>3, <1>4, <1>5 DEF Fits
  <1>7. stack'[p] = <<f>> /\ signalled' \in [Ring!Parties -> BOOLEAN]
        /\ \A q \in Ring!Parties \ {p} : stack[q] = <<>>
    BY <1>1 DEF RingInv, RingTypeOK, Ring!Quiet
  <1>8. stack'[p] # <<>> /\ Ring!Frame(p)' = f
    BY <1>3, <1>7 DEF Ring!Frame
  <1>9. \A q \in Ring!Parties : stack[q] = <<>> /\ ~(Len(stack[q]) >= 2)
    <2>1. \A q \in Ring!Parties : stack[q] = <<>>
      BY <1>1 DEF Ring!Quiet
    <2>2. ~(Len(<<>>) >= 2)
      OBVIOUS
    <2> QED
      BY <2>1, <2>2, Zenon
  <1>10. SinkIsTold'
    <2>1. CASE p = "sink"
      BY <1>2, <1>8, <2>1 DEF SinkIsTold, ToSink
    <2>2. CASE p # "sink"
      BY <1>1, <1>9, <2>2 DEF SinkIsTold, RingInv
    <2> QED
      BY <2>1, <2>2
  <1>11. SourceIsTold'
    <2>1. CASE p = "source"
      BY <1>2, <1>8, <2>1 DEF SourceIsTold, Reaches
    <2>2. CASE p # "source"
      BY <1>1, <1>9, <2>2 DEF SourceIsTold, RingInv, Ring!max_buffered_elements
    <2> QED
      BY <2>1, <2>2
  <1> QED
    BY <1>1, <1>3, <1>6, <1>7, <1>10, <1>11, CallsKeep

LEMMA RingInvNext == ASSUME RingSizes, RingInv, [Ring!Next]_Ring!vars PROVE RingInv'
  <1>1. CASE UNCHANGED Ring!vars
    <2>1. \A p \in Ring!Parties : Ring!Frame(p)' = Ring!Frame(p)
      BY <1>1 DEF Ring!vars, Ring!Frame
    <2>2. (\A p \in Ring!Parties : StackFollows(p))'
      BY <1>1, <2>1 DEF Ring!vars, RingInv, StackFollows, Follows, Taken,
         Ring!max_buffered_elements, Current,
         Depth, Pages, Nested, Threads
    <2>3. SinkIsTold' /\ SourceIsTold'
      BY <1>1, <2>1 DEF Ring!vars, RingInv, SinkIsTold, SourceIsTold, Reaches,
         Ring!max_buffered_elements
    <2> QED
      BY <1>1, <2>2, <2>3 DEF Ring!vars, RingInv, RingTypeOK, RingHolds, Alone, Threads,
         Ring!max_buffered_elements
  <1>2. CASE Ring!Next
    <2>1. UNCHANGED <<prioritize_old, style>>
      BY <1>2 DEF Ring!Next
    <2>2. PICK p \in Ring!Parties :
            \/ Ring!Connect(p)
            \/ \E n \in 1..PageSize : Ring!Start(p, n)
            \/ Ring!LoadRead(p) \/ Ring!LoadWrite(p) \/ Ring!Drop(p) \/ Ring!Publish(p) \/ Ring!Consume(p)
            \/ Ring!CheckLoadRead(p, "before_available", "available") \/ Ring!CheckAvailable(p)
            \/ Ring!CheckLoadRead(p, "before_needed", "needed") \/ Ring!CheckNeeded(p)
      BY <1>2 DEF Ring!Next
    <2>3. CASE Ring!Connect(p)
      BY <2>1, <2>3, ConnectKeeps
    <2>4. CASE \E n \in 1..PageSize : Ring!Start(p, n)
      BY <2>1, <2>4, RingStartKeeps
    <2>5. CASE Ring!LoadRead(p)
      BY <2>1, <2>5, LoadReadKeeps
    <2>6. CASE Ring!LoadWrite(p)
      BY <2>1, <2>6, LoadWriteKeeps
    <2>7. CASE Ring!Drop(p)
      BY <2>1, <2>7, DropKeeps
    <2>8. CASE Ring!Publish(p)
      BY <2>1, <2>8, PublishKeeps
    <2>9. CASE Ring!Consume(p)
      BY <2>1, <2>9, ConsumeKeeps
    <2>10. CASE Ring!CheckLoadRead(p, "before_available", "available")
      BY <2>1, <2>10, CheckLoadReadKeeps
    <2>11. CASE Ring!CheckAvailable(p)
      BY <2>1, <2>11, CheckAvailableKeeps
    <2>12. CASE Ring!CheckLoadRead(p, "before_needed", "needed")
      BY <2>1, <2>12, CheckLoadReadKeeps
    <2>13. CASE Ring!CheckNeeded(p)
      BY <2>1, <2>13, CheckNeededKeeps
    <2> QED
      BY <2>2, <2>3, <2>4, <2>5, <2>6, <2>7, <2>8, <2>9, <2>10, <2>11, <2>12, <2>13, Zenon
  <1> QED
    BY <1>1, <1>2

LEMMA RingFollows == ASSUME RingSizes, RingInv PROVE Ring!SignalsAreNotMissed
  <1>1. ASSUME Ring!Quiet
        PROVE  \A p \in Ring!Parties : stack[p] = <<>> /\ ~(Len(stack[p]) >= 2)
    <2>1. \A p \in Ring!Parties : stack[p] = <<>>
      BY <1>1 DEF Ring!Quiet
    <2>2. ~(Len(<<>>) >= 2)
      OBVIOUS
    <2> QED
      BY <2>1, <2>2, Zenon
  <1>2. Ring!Quiet /\ "sink" \in connected /\ Ring!Elements >= PageSize =>
          style["sink"] = "signal" /\ signalled["sink"]
    BY <1>1 DEF RingInv, SinkIsTold, Ring!Elements
  <1>3. Ring!Quiet /\ "source" \in connected /\ Ring!max_buffered_elements - Ring!Elements >= PageSize =>
          IF style["source"] = "signal" THEN signalled["source"]
          ELSE write_pointer + PageSize > MaxElements
    BY <1>1 DEF RingInv, SourceIsTold, Ring!Elements
  <1>4. ASSUME \E p \in Ring!Parties : style[p] = "signal", NEW t \in Ring!Parties
        PROVE  Len(stack[t]) <= NumPages + 2
    <2>1. PICK n \in Nat : n = Len(stack[t])
      <3>1. stack[t] \in Seq(RingCalls)
        BY DEF RingInv, RingTypeOK
      <3> QED
        BY <3>1, LenProperties
    <2>2. CASE style["sink"] = "signal"
      <3>1. n <= 1
        BY <2>1, <2>2 DEF RingInv, StackFollows
      <3>2. n <= NumPages + 2
        BY <3>1 DEF RingSizes
      <3> QED
        BY <2>1, <3>2, Zenon
    <2>3. CASE stack[t] = <<>>
      <3>1. Len(<<>>) = 0 /\ 0 <= NumPages + 2
        BY DEF RingSizes
      <3> QED
        BY <2>3, <3>1, Zenon
    <2>4. CASE style["sink"] # "signal" /\ stack[t] # <<>>
      <3>1. style["source"] = "signal"
        BY <1>4, <2>4 DEF Ring!Parties
      <3> QED
        BY <2>4, <3>1, CallHas DEF Depth
    <2> QED
      BY <2>2, <2>3, <2>4
  <1> QED
    BY <1>2, <1>3, <1>4 DEF Ring!SignalsAreNotMissed

(* Between calls of supply and consume nobody waits for a callback that is *)
(* due already, in ring_buffer.h: whoever moves a pointer still has to ask *)
(* check_data_available and check_data_needed, and a pointer of theirs     *)
(* that others have moved since errs towards telling.  Callbacks that call *)
(* the ring again nest at most once per page.                              *)
THEOREM SignalsAreSeen ==
  ASSUME RingSizes
  PROVE  Spec => []SignalsAreNotMissed
  <1>1. RingInv => SignalsAreNotMissed
    BY RingFollows DEF SignalsAreNotMissed
  <1>2. RingInv /\ [Next]_vars => RingInv'
    <2> SUFFICES ASSUME RingInv, [Next]_vars PROVE RingInv'
      OBVIOUS
    <2>1. [Ring!Next]_Ring!vars
      BY OnlyOneMoves DEF callbacks, Ring!vars
    <2> QED
      BY <2>1, RingInvNext
  <1>3. Init => RingInv
    BY RingInvInit, DriversInit
  <1> QED
    BY <1>1, <1>2, <1>3, PTL DEF Spec

=============================================================================
