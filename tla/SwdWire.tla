------------------------------ MODULE SwdWire ------------------------------
(***************************************************************************)
(* serial_wire/serial_wire.cc over hal/programmer/stm32l4xx_programmer.cc, *)
(* clock by clock: who drives SWDIO, and which bit of a packet each side   *)
(* thinks it is at.  DebugPort.tla has the same calls as whole commands.   *)
(***************************************************************************)
EXTENDS Naturals, Sequences

CONSTANTS MAX_ATTEMPTS

VARIABLES
  drive,           \* current_swdio_drive_state_: TRUE for DRIVE
  todo,            \* the sends and receives of the call under way
  left,            \* bits left of the first of them
  attempt,         \* attempt_count
  retry,           \* the call retries a command that is to wait
  phase, bit,      \* the target, and the bits of this phase it has seen
  packet,          \* what it makes of the packet: [write, ack]
  ones,            \* it has seen so many ones in a row
  spoiled          \* history: a bit was misread since initialize_swd

host == <<drive, todo, left, attempt, retry>>
target == <<phase, bit, packet, ones>>
vars == <<host, target, spoiled>>

LineReset == 50
Length(op) ==
  CASE op \in {"read", "write"} -> 8 [] op = "ack" -> 3 [] op = "switch" -> 16
    [] op = "low" -> 4 [] op = "ones" -> 64 [] op = "end" -> 1
    [] op = "idle" -> 2 * attempt + 8 [] op = "off" -> 0 [] OTHER -> 33
Sends(op) == op \notin {"ack", "data_in", "off"}

(* The line is left to float by disable(); a target wakes up as JTAG. *)
Init ==
  /\ drive = FALSE /\ todo = <<>> /\ left = 0 /\ attempt = 0 /\ retry = FALSE
  /\ phase = "lost" /\ bit = 0 /\ packet = [write |-> FALSE, ack |-> "OK"] /\ ones = 0
  /\ spoiled = TRUE

-----------------------------------------------------------------------------
(* The target, which answers a header that it understood after a cycle in  *)
(* which nobody drives, and waits for a line reset after one that it did   *)
(* not.                                                                    *)
TargetDrives == phase \in {"ack", "data_out"}

Then(p) == phase' = p /\ bit' = 0
More(n, p) == IF bit + 1 < n THEN bit' = bit + 1 /\ UNCHANGED phase ELSE Then(p)

Clocked(b) ==
  /\ ones' = IF b # "ones" \/ TargetDrives THEN 0 ELSE IF ones = LineReset THEN ones ELSE ones + 1
  /\ IF ones' = LineReset THEN Then("reset") /\ UNCHANGED packet
     ELSE
     CASE phase \in {"idle", "reset"} ->
            /\ IF b \in {"low", "idle", "end"} THEN Then("idle") ELSE phase' = "header" /\ bit' = 1
            /\ packet' = [packet EXCEPT !.write = (b = "write")]
       [] phase = "header" ->
            /\ \/ b \in {"read", "write"} /\ More(8, "turn")
               \/ (b \notin {"read", "write"} \/ spoiled) /\ Then("lost")
            /\ UNCHANGED packet
       [] phase = "turn" ->
            /\ Then("ack")
            /\ \E a \in {"OK", "WAIT", "FAULT"} : packet' = [packet EXCEPT !.ack = a]
       [] phase = "ack" ->
            /\ More(3, IF packet.ack = "OK" /\ ~packet.write THEN "data_out" ELSE "turn_back")
            /\ UNCHANGED packet
       [] phase = "data_out" -> More(33, "turn_back") /\ UNCHANGED packet
       [] phase = "turn_back" ->
            Then(IF packet.ack = "OK" /\ packet.write THEN "data_in" ELSE "idle") /\ UNCHANGED packet
       [] phase = "data_in" -> More(33, "idle") /\ UNCHANGED packet
       [] OTHER -> UNCHANGED <<phase, bit, packet>>

-----------------------------------------------------------------------------
(* turnaround(): the pin floats before the clock, or is driven after it. *)
Turnaround ==
  /\ todo # <<>> /\ drive # Sends(Head(todo))
  /\ drive' = Sends(Head(todo))
  /\ Clocked("float")
  /\ UNCHANGED <<todo, left, attempt, retry, spoiled>>

Go(ops) == todo' = ops /\ left' = IF ops = <<>> THEN 0 ELSE Length(Head(ops))

(* send_no_parity, send, receive_no_parity, receive: the next bit but the last *)
Bit ==
  /\ todo # <<>> /\ drive = Sends(Head(todo)) /\ left > 1
  /\ left' = left - 1
  /\ Clocked(Head(todo))
  /\ UNCHANGED <<drive, todo, attempt, retry, spoiled>>

LastBit ==
  /\ todo # <<>> /\ drive = Sends(Head(todo)) /\ left = 1 /\ Head(todo) # "ack"
  /\ Go(Tail(todo))
  /\ Clocked(Head(todo))
  /\ spoiled' = (spoiled /\ Head(todo) # "low")
  /\ UNCHANGED <<drive, attempt, retry>>

(* The last bit of the acknowledgement, which may be misread: send_command *)
(* idles and sends the command again, or read() or write() goes on.        *)
Acknowledge(a) ==
  LET command == todo[2] IN
  /\ todo # <<>> /\ Head(todo) = "ack" /\ ~drive /\ left = 1
  /\ spoiled' = (spoiled \/ phase # "ack" \/ a # packet.ack)
  /\ IF a = "WAIT" /\ retry /\ attempt < MAX_ATTEMPTS
       THEN /\ attempt' = attempt + 1
            /\ Go(IF attempt' = MAX_ATTEMPTS THEN <<"idle">> ELSE <<"idle", command, "ack", command>>)
       ELSE /\ attempt' = 0
            /\ Go(IF a # "OK" THEN <<>> ELSE IF command = "read" THEN <<"data_in">> ELSE <<"data_out">>)
  /\ Clocked("float")
  /\ UNCHANGED <<drive, retry>>

-----------------------------------------------------------------------------
Command(c, r) ==
  /\ todo = <<>>
  /\ Go(<<c, "ack", c>>) /\ attempt' = 0 /\ retry' = r
  /\ UNCHANGED <<drive, target, spoiled>>

(* Fault: one line reset, before the switch, is thought to be enough. *)
InitializeSwdOnce ==
  /\ todo = <<>>
  /\ Go(<<"ones", "switch", "low", "read", "ack", "read">>) /\ attempt' = 0 /\ retry' = FALSE
  /\ UNCHANGED <<drive, target, spoiled>>

(* initialize_swd; the two sends of 32 ones are one of 64. *)
InitializeSwd ==
  /\ todo = <<>>
  /\ Go(<<"ones", "switch", "ones", "low", "read", "ack", "read">>) /\ attempt' = 0 /\ retry' = TRUE
  /\ UNCHANGED <<drive, target, spoiled>>

(* disable() of the programmer: one idle cycle, and a turnaround to a line *)
(* that nobody drives, after which the pins are unused.                    *)
Disable ==
  /\ todo = <<>>
  /\ todo' = <<"end", "off">> /\ left' = 1
  /\ UNCHANGED <<drive, attempt, retry, target, spoiled>>

Off ==
  /\ todo = <<"off">> /\ ~drive
  /\ Go(<<>>) /\ spoiled' = TRUE
  /\ UNCHANGED <<drive, attempt, retry, target>>

Next ==
  \/ Turnaround \/ Bit \/ LastBit \/ InitializeSwd \/ Disable \/ Off
  \/ \E a \in {"OK", "WAIT", "FAULT", "none"} : Acknowledge(a)
  \/ \E c \in {"read", "write"}, r \in BOOLEAN : Command(c, r)

Spec == Init /\ [][Next]_vars

-----------------------------------------------------------------------------
(* After initialize_swd, whatever went wrong before it, and until an       *)
(* acknowledgement is misread, the two sides agree about the wire through  *)
(* retries and refusals: never do both drive it, a command starts when the *)
(* target is ready for one, and the bits of a word are taken for data.     *)
WireInStep ==
  ~spoiled /\ todo # <<>> =>
    LET op == Head(todo)
        begins == drive = Sends(op) /\ left = Length(op)
    IN  /\ ~(drive /\ TargetDrives)
        /\ begins /\ op \in {"read", "write"} => phase = "idle"
        /\ begins /\ op \in {"data_in", "data_out"} =>
              bit = 0 /\ phase = (IF op = "data_in" THEN "data_out" ELSE "data_in")

=============================================================================
