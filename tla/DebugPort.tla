----------------------------- MODULE DebugPort -----------------------------
(***************************************************************************)
(* Target and SerialWire of serial_wire/: access to another board's memory *)
(* through its serial wire debug port.                                     *)
(*                                                                         *)
(* One action is one command on the wire.  The wire is noisy: a command    *)
(* may be lost, and the word that follows it may arrive with bad parity.   *)
(* The port itself is external.  It runs memory accesses after it has      *)
(* acknowledged them, answers WAIT while one is running, and FAULT from a  *)
(* sticky error until ABORT clears it.                                     *)
(***************************************************************************)
EXTENDS Integers, Sequences

CONSTANTS
  LastAddress,  \* memory has the words 0..LastAddress
  Values,       \* the values of a word
  MaxLength,    \* bound: words of a block access
  MaxAttempts,  \* MAX_ATTEMPTS of send_command (8)
  MaxRetries,   \* MAX_RETRIES of the loops on CTRL/STAT (8, 32 and 256)
  MaxNoise      \* bound: words and commands the wire spoils, accesses that fail

ASSUME PortAssumption ==
  /\ LastAddress \in Nat /\ MaxLength \in Nat \ {0} /\ MaxNoise \in Nat
  /\ MaxAttempts \in Nat \ {0} /\ MaxRetries \in Nat \ {0}

Addresses == 0..LastAddress

VARIABLES
  pc,            \* the command Target sends next
  loop,          \* the loop on CTRL/STAT it is in
  polls,         \* attempt_count of that loop
  attempts,      \* attempt_count of send_command
  op,            \* the access asked for last
  index,         \* the commands of it that are done
  out,           \* the words it read
  result,        \* the Result of the last call
  select_value,  \* select_value_: the bank Target believes selected
  last,          \* no further Target will be made
  select,        \* port: the bank selected
  sticky,        \* port: STICKYERR and WDATAERR
  requested,     \* port: power up requests in CTRL/STAT
  powered,       \* port: power up acknowledgements
  tar,           \* port: transfer address
  increment,     \* port: CSW tells TAR to move on
  rdbuff,        \* port: the result of the last access
  running,       \* port: the access in progress
  memory,        \* the board's memory
  noise

target == <<pc, loop, polls, op, index, out, result, select_value, last>>
port   == <<select, sticky, requested, powered, tar, increment, rdbuff, running, memory>>
vars   == <<target, attempts, port, noise>>

Nothing == [kind |-> "none"]
NoOp == [kind |-> "none", addr |-> 0, data |-> <<>>, length |-> 0, block |-> FALSE]

(* A command: the register, the direction and the word to write. *)
Read(reg)         == [reg |-> reg, write |-> FALSE, value |-> 0]
Write(reg, value) == [reg |-> reg, write |-> TRUE, value |-> value]

Bank(reg) == IF reg = "IDR" THEN "F" ELSE "0"

AccessPort(c) == c.reg \in {"CSW", "TAR", "DRW", "IDR"}

(* Fault: a write does not wait for its last word. *)
CommandsUnflushed(o) ==
  CASE o.kind = "read" ->
         <<Write("CSW", o.block), Write("TAR", o.addr)>>
           \o [i \in 1..o.length |-> Read("DRW")] \o <<Read("RDBUFF")>>
    [] o.kind = "write" ->
         <<Write("CSW", o.block), Write("TAR", o.addr)>>
           \o [i \in 1..o.length |-> Write("DRW", o.data[i])]
    [] o.kind = "id" -> <<Write("CSW", FALSE), Read("IDR"), Read("RDBUFF")>>

(* ap_read_mem, ap_write_mem and read_ap_id, command by command. *)
Commands(o) ==
  CASE o.kind = "read" ->
         <<Write("CSW", o.block), Write("TAR", o.addr)>>
           \o [i \in 1..o.length |-> Read("DRW")] \o <<Read("RDBUFF")>>
    [] o.kind = "write" ->
         <<Write("CSW", o.block), Write("TAR", o.addr)>>
           \o [i \in 1..o.length |-> Write("DRW", o.data[i])] \o <<Read("CSW")>>
    [] o.kind = "id" -> <<Write("CSW", FALSE), Read("IDR"), Read("RDBUFF")>>

Command == Commands(op)[index + 1]

(* Fault: every reply is kept. *)
KeepsAll(c) == c.reg = "RDBUFF" \/ (c.reg = "DRW" /\ ~c.write)

(* The reply to the first read of DRW belongs to an earlier access. *)
Keeps(c) == c.reg = "RDBUFF" \/ (c.reg = "DRW" /\ ~c.write /\ index > 2)

Init ==
  /\ pc = "none" /\ loop = "on" /\ polls = 0 /\ attempts = 0
  /\ op = NoOp /\ index = 0 /\ out = <<>> /\ result = "OK"
  /\ select_value = "0" /\ last = FALSE
  /\ select = "0" /\ sticky = {} /\ requested = FALSE /\ powered = FALSE
  /\ tar = 0 /\ increment = FALSE /\ rdbuff = "unknown" /\ running = Nothing
  /\ memory \in [Addresses -> Values]
  /\ noise = 0

Noise == noise < MaxNoise /\ noise' = noise + 1
Quiet == noise' = noise

-----------------------------------------------------------------------------
(* The port. *)
AlwaysAnswered(c) == c.reg \in {"DPIDR", "CTRL", "ABORT"}
Waits(c)   == ~AlwaysAnswered(c) /\ running # Nothing
Refuses(c) == ~AlwaysAnswered(c) /\ running = Nothing /\ sticky # {}

(* Where the access in progress should go is kept with it, to compare. *)
Begin(kind, c) ==
  running' = [kind |-> kind, value |-> c.value, meant |-> op.addr + index - 2]

(* With the wrong bank selected, the same command reaches another register. *)
Accept(c) ==
  /\ sticky' = IF c.reg = "ABORT" THEN {} ELSE sticky
  /\ select' = IF c.reg = "SELECT" THEN c.value ELSE select
  /\ requested' = IF c.reg = "POWER" THEN c.value ELSE requested
  /\ increment' = IF c.reg = "CSW" /\ c.write /\ select = "0" THEN c.value ELSE increment
  /\ tar' = IF c.reg = "TAR" /\ select = "0" THEN c.value ELSE tar
  /\ IF ~AccessPort(c) THEN running' = running
     ELSE IF select = "F" THEN IF c.write THEN running' = running ELSE Begin("id", c)
     ELSE IF c.reg \in {"DRW", "IDR"} THEN Begin(IF c.write THEN "write" ELSE "read", c)
     ELSE IF c.write THEN running' = running ELSE Begin("csw", c)
  /\ UNCHANGED <<powered, rdbuff, memory>>

SpoilWrite ==
  /\ sticky' = sticky \union {"WDATAERR"}
  /\ UNCHANGED <<select, requested, powered, tar, increment, rdbuff, running, memory>>

RunAccess ==
  /\ running # Nothing /\ running' = Nothing
  /\ UNCHANGED <<target, attempts, select, requested, powered, increment>>
  /\ \/ /\ running.kind \in {"id", "csw"}
        /\ rdbuff' = running.kind
        /\ UNCHANGED <<sticky, tar, memory, noise>>
     \/ /\ running.kind \in {"read", "write"} /\ tar \in Addresses
        /\ rdbuff' = IF running.kind = "read" THEN memory[tar] ELSE rdbuff
        /\ memory' = IF running.kind = "write" THEN [memory EXCEPT ![tar] = running.value]
                                               ELSE memory
        /\ tar' = IF increment THEN tar + 1 ELSE tar
        /\ UNCHANGED <<sticky, noise>>
     \/ /\ running.kind \in {"read", "write"}
        /\ tar \in Addresses => Noise
        /\ tar \notin Addresses => Quiet
        /\ sticky' = sticky \union {"STICKYERR"}
        /\ rdbuff' = "unknown"
        /\ UNCHANGED <<tar, memory>>

SwitchPower ==
  /\ powered # requested /\ powered' = requested
  /\ UNCHANGED <<target, attempts, select, sticky, requested, tar, increment, rdbuff,
                 running, memory, noise>>

-----------------------------------------------------------------------------
(* Target sends a command and goes on with ok, or gives up with failed.    *)
(* WAIT is answered by sending it again, MAX_ATTEMPTS times in all.  What  *)
(* becomes of a word that Target wrote, it is not told.                    *)
Failure(ack) == IF pc = "initialize_swd" THEN "INITIALIZATION_ERROR" ELSE ack

Exchange(c, ok, failed) ==
  \/ /\ Waits(c) /\ attempts + 1 < MaxAttempts
     /\ attempts' = attempts + 1
     /\ UNCHANGED <<target, port, noise>>
  \/ /\ attempts' = 0
     /\ \/ /\ Waits(c) /\ attempts + 1 = MaxAttempts
           /\ failed /\ result' = Failure("WAIT") /\ Quiet /\ UNCHANGED port
        \/ Refuses(c) /\ failed /\ result' = Failure("ERROR") /\ Quiet /\ UNCHANGED port
        \/ failed /\ result' = Failure("FAIL") /\ Noise /\ UNCHANGED port
        \/ /\ ~Waits(c) /\ ~Refuses(c)
           /\ \/ ok /\ Accept(c) /\ Quiet
              \/ c.write /\ ok /\ SpoilWrite /\ Noise
              \/ ~c.write /\ failed /\ result' = Failure("PARITY_FAIL") /\ Accept(c) /\ Noise

Goto(next) == pc' = next /\ UNCHANGED <<loop, polls, op, index, out, result, select_value, last>>

(* A Target that could not be initialized, or was powered off, is dropped. *)
Abandon ==
  /\ pc' = "none" /\ op' = NoOp
  /\ UNCHANGED <<loop, polls, index, out, select_value, last>>

EnterLoop(name) ==
  /\ pc' = "poll" /\ loop' = name /\ polls' = 0
  /\ UNCHANGED <<op, index, out, result, select_value, last>>

(* The constructor, over a port in any state. *)
NewTarget ==
  /\ pc \in {"none", "idle"} /\ ~last
  /\ pc' = "initialize_swd" /\ last' \in BOOLEAN
  /\ select_value' = "0" /\ op' = NoOp /\ result' = "OK"
  /\ UNCHANGED <<loop, polls, index, out, attempts, port, noise>>

(* The id is read to complete the switch to SWD, and then to compare it. *)
InitializeSwd ==
  pc = "initialize_swd" /\ Exchange(Read("DPIDR"), Goto("read_idr"), Abandon)

ReadIdr == pc = "read_idr" /\ Exchange(Read("DPIDR"), Goto("on_read"), Abandon)

(* power_on and, after clear_errors, power_off: CTRL/STAT is read, changed *)
(* and written back, then read until it shows what was asked for.          *)
ReadControl ==
  \/ pc = "on_read" /\ Exchange(Read("CTRL"), Goto("on_write"), Abandon)
  \/ pc = "off_read" /\ Exchange(Read("CTRL"), Goto("off_write"), Abandon)

WriteControl ==
  \/ pc = "on_write" /\ Exchange(Write("POWER", TRUE), EnterLoop("on"), Abandon)
  \/ pc = "off_write" /\ Exchange(Write("POWER", FALSE), EnterLoop("off"), Abandon)

PowerOff ==
  /\ pc = "idle"
  /\ EnterLoop("clear")
  /\ UNCHANGED <<attempts, port, noise>>

(* clear_errors looks at all sticky bits, the other loops leave out        *)
(* WDATAERR.                                                               *)
Seen == IF loop = "clear" THEN sticky ELSE sticky \intersect {"STICKYERR"}

Achieved ==
  CASE loop = "clear" -> TRUE [] loop = "on" -> powered [] loop = "off" -> ~powered

After == CASE loop = "clear" -> "off_read" [] loop = "on" -> "idle" [] loop = "off" -> "none"

(* The end of a round: the count alone decides, even in a round that ended *)
(* well.                                                                   *)
EndRound(count, done) ==
  /\ polls' = count
  /\ pc' = IF count >= MaxRetries THEN "none" ELSE IF done THEN After ELSE "poll"
  /\ result' = IF count >= MaxRetries THEN "TOO_MANY_ATTEMPTS" ELSE "OK"
  /\ UNCHANGED <<loop, op, index, out, select_value, last>>

Poll ==
  /\ pc = "poll"
  /\ Exchange(Read("CTRL"),
              IF Seen # {} THEN Goto("abort") ELSE EndRound(polls + 1, Achieved),
              Abandon)

Abort ==
  pc = "abort" /\ Exchange(Write("ABORT", 0), EndRound(polls + 1, FALSE), Abandon)

-----------------------------------------------------------------------------
Call(o) ==
  /\ pc = "idle"
  /\ pc' = "access" /\ op' = o /\ index' = 0 /\ out' = <<>> /\ result' = "OK"
  /\ UNCHANGED <<loop, polls, select_value, last, attempts, port, noise>>

CallRead ==
  \E a \in Addresses, n \in 1..MaxLength, b \in BOOLEAN :
    /\ a + n - 1 <= LastAddress /\ (~b => n = 1)
    /\ Call([kind |-> "read", addr |-> a, data |-> <<>>, length |-> n, block |-> b])

CallWrite ==
  \E a \in Addresses, n \in 1..MaxLength, b \in BOOLEAN : \E d \in [1..n -> Values] :
    /\ a + n - 1 <= LastAddress /\ (~b => n = 1)
    /\ Call([kind |-> "write", addr |-> a, data |-> d, length |-> n, block |-> b])

(* Only the last Target reads an id: a later one would take the bank it    *)
(* leaves selected for bank 0.                                             *)
CallReadId ==
  /\ last
  /\ Call([kind |-> "id", addr |-> 0, data |-> <<>>, length |-> 1, block |-> FALSE])

Fail ==
  /\ pc' = "idle"
  /\ UNCHANGED <<loop, polls, op, index, out, select_value, last>>

(* Fault: the cache takes the new value before the write is known to have  *)
(* been answered.                                                          *)
SelectBankEarly ==
  /\ pc = "access" /\ AccessPort(Command) /\ Bank(Command.reg) # select_value
  /\ Exchange(Write("SELECT", Bank(Command.reg)),
              /\ select_value' = Bank(Command.reg)
              /\ UNCHANGED <<pc, loop, polls, op, index, out, result, last>>,
              /\ pc' = "idle" /\ select_value' = Bank(Command.reg)
              /\ UNCHANGED <<loop, polls, op, index, out, last>>)

(* select_ap_bank: SELECT is written only if the bank changes. *)
SelectBank ==
  /\ pc = "access" /\ AccessPort(Command) /\ Bank(Command.reg) # select_value
  /\ Exchange(Write("SELECT", Bank(Command.reg)),
              /\ select_value' = Bank(Command.reg)
              /\ UNCHANGED <<pc, loop, polls, op, index, out, result, last>>,
              Fail)

SendCommand ==
  /\ pc = "access"
  /\ ~AccessPort(Command) \/ Bank(Command.reg) = select_value
  /\ Exchange(Command,
              /\ index' = index + 1
              /\ out' = IF Keeps(Command) THEN Append(out, rdbuff) ELSE out
              /\ pc' = IF index + 1 = Len(Commands(op)) THEN "idle" ELSE pc
              /\ UNCHANGED <<loop, polls, op, result, select_value, last>>,
              Fail)

-----------------------------------------------------------------------------
Initialization == NewTarget \/ InitializeSwd \/ ReadIdr \/ ReadControl \/ WriteControl
Loops == Poll \/ Abort
Calls == CallRead \/ CallWrite \/ CallReadId \/ PowerOff
Port  == RunAccess \/ SwitchPower

Next == Initialization \/ Loops \/ Calls \/ SelectBank \/ SendCommand \/ Port

Spec == Init /\ [][Next]_vars

Wire == InitializeSwd \/ ReadIdr \/ ReadControl \/ WriteControl \/ Loops
          \/ SelectBank \/ SendCommand

(* Target's code is straight: once called it goes on.  A task makes a new  *)
(* Target when it has dropped one.                                         *)
FairSpec == Spec /\ WF_vars(Wire) /\ WF_vars(Port) /\ WF_vars(pc = "none" /\ NewTarget)

-----------------------------------------------------------------------------
Initialized == pc \in {"idle", "access"}

(* The cached SELECT is the port's, unless an error is pending that keeps  *)
(* every access from being answered.                                       *)
SelectAgrees == Initialized /\ sticky = {} => select = select_value

(* ap_read_mem and read_ap_id that report success return the words that    *)
(* were asked for, although each reply belongs to an earlier command.      *)
ReadsAreTrue ==
  pc = "idle" /\ result = "OK" =>
    /\ op.kind = "read" => out = [i \in 1..op.length |-> memory[op.addr + i - 1]]
    /\ op.kind = "id" => out = <<"id">>

(* ap_write_mem that reports success has written every word.  Its last     *)
(* read waits for the writes and finds out about their errors.             *)
WritesArrive ==
  pc = "idle" /\ result = "OK" /\ op.kind = "write" =>
    \A i \in 1..op.length : memory[op.addr + i - 1] = op.data[i]

(* A word goes where it was meant to or nowhere, though it may arrive when *)
(* ap_write_mem has failed and the next access has begun.                  *)
WritesGoAsMeant == running # Nothing /\ running.kind = "write" => tar = running.meant

(* A write that is reported as done was done, and one that is made at all, *)
(* late or never reported, is made where it was meant to.                  *)
WritesAreExact == WritesArrive /\ WritesGoAsMeant

(* "Initialize, or re-initialize, the target to accept SWD commands": the  *)
(* noise is bounded, so some new Target is initialized in the end.         *)
Reinitializes == []<>(pc = "initialize_swd") => []<>(pc = "idle")

=============================================================================
