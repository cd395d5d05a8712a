--------------------------- MODULE DebugPortProofs ---------------------------
(***************************************************************************)
(* Target of serial_wire/target.h tells the truth about another board's    *)
(* memory, however long a block access is, however often a command is      *)
(* tried again and however much of it the wire spoils.                     *)
(***************************************************************************)
EXTENDS DebugPort, SequenceTheorems, TLAPS

(* The access that is asked for is one the board's memory has. *)
Transfers(o) == o.kind \in {"read", "write"}

OpIsSound ==
  /\ op.kind \in {"none", "read", "write", "id"}
  /\ Transfers(op) =>
       /\ op.addr \in Nat /\ op.length \in Nat \ {0} /\ op.addr + op.length - 1 <= LastAddress
       /\ op.block \in BOOLEAN /\ (~op.block => op.length = 1)
  /\ op.kind = "write" => op.data \in [1..op.length -> Values]
  /\ op.kind = "id" => op.block = FALSE

TypeOK ==
  /\ memory \in [Addresses -> Values] /\ tar \in Int /\ index \in Nat
  /\ loop \in {"clear", "on", "off"} /\ last \in BOOLEAN
  /\ OpIsSound
  /\ pc = "access" => op.kind # "none" /\ index < Len(Commands(op))

(* A write in progress keeps the address it was meant for. *)
RunningIsSound ==
  /\ running.kind \in {"none", "read", "write", "id", "csw"}
  /\ running.kind = "none" <=> running = Nothing
  /\ running.kind = "write" => running.value \in Values /\ tar = running.meant

(* What the wire spoils can only part the cache from the port's SELECT by  *)
(* an error that is seen before the port answers again.  The bank of the   *)
(* id is selected by the last Target and no other.                         *)
OnTheWayUp ==
  \/ pc \in {"initialize_swd", "read_idr", "on_read", "on_write"}
  \/ pc \in {"poll", "abort"} /\ loop = "on"

BankIsKnown ==
  /\ select_value \in {"0", "F"} /\ select \in {"0", "F"}
  /\ ~last \/ OnTheWayUp => select = "0" /\ select_value = "0"
  /\ op.kind = "id" => last
  /\ OnTheWayUp => op = NoOp
  /\ Initialized /\ sticky = {} => select = select_value

(* The words of an access that were asked for, and that have moved.        *)
Sent == index - 2
Moved == IF running = Nothing THEN Sent ELSE Sent - 1

Word(i) == memory[op.addr + i - 1]

(* As long as there is no error the port is where Target takes it to be:   *)
(* one reply behind.                                                       *)
PortFollows ==
  pc = "access" /\ sticky = {} =>
    /\ index < 2 => out = <<>>
    /\ index >= 1 => increment = op.block
    /\ index = 1 => running = Nothing
    /\ op.kind = "id" /\ index = 2 =>
         /\ out = <<>>
         /\ running.kind \in {"none", "id"}
         /\ running = Nothing => rdbuff = "id"
    /\ Transfers(op) /\ index >= 2 =>
         /\ running.kind \in {"none", op.kind}
         /\ running # Nothing => Sent >= 1
         /\ op.block \/ Moved = 0 => tar = op.addr + Moved
    /\ op.kind = "read" /\ index >= 2 =>
         /\ out = [i \in 1..(Sent - 1) |-> Word(i)]
         /\ Moved = Sent /\ Sent >= 1 => rdbuff = Word(Sent)
    /\ op.kind = "write" /\ index >= 2 =>
         /\ running # Nothing => running.value = op.data[Sent]
         /\ \A i \in 1..Moved : Word(i) = op.data[i]

(* After an access that was reported as done nothing is left to come that  *)
(* changes the memory.                                                     *)
DoneIsDone ==
  pc = "idle" /\ result = "OK" =>
    /\ op.kind = "read" => out = [i \in 1..op.length |-> Word(i)] /\ running = Nothing
    /\ op.kind = "write" =>
         (\A i \in 1..op.length : Word(i) = op.data[i]) /\ running.kind \in {"none", "csw"}
    /\ op.kind = "id" => out = <<"id">>

IInv == TypeOK /\ RunningIsSound /\ BankIsKnown /\ PortFollows /\ DoneIsDone

-----------------------------------------------------------------------------
(* Two commands, then one for each word, and a last one.                   *)
LEMMA Framed ==
  ASSUME NEW S, NEW a \in S, NEW b \in S, NEW z \in S, NEW n \in Nat, NEW f \in [1..n -> S],
         NEW s, s = <<a, b>> \o f \o <<z>>
  PROVE  /\ Len(s) = n + 3 /\ s[1] = a /\ s[2] = b
         /\ \A i \in 1..n : s[i + 2] = f[i]
         /\ s[n + 3] = z
  <1>1. f \in Seq(S) /\ Len(f) = n
    OBVIOUS
  <1>2. <<a, b>> \in Seq(S) /\ Len(<<a, b>>) = 2 /\ <<a, b>>[1] = a /\ <<a, b>>[2] = b
    OBVIOUS
  <1>3. <<z>> \in Seq(S) /\ Len(<<z>>) = 1 /\ <<z>>[1] = z
    OBVIOUS
  <1> DEFINE p == <<a, b>>  e == <<z>>  h == p \o f
  <1> HIDE DEF p, e
  <1>4. /\ h \in Seq(S) /\ Len(h) = n + 2
        /\ \A i \in 1..(n + 2) : h[i] = IF i <= 2 THEN p[i] ELSE f[i - 2]
    <2>1. p \in Seq(S) /\ Len(p) = 2
      BY <1>2 DEF p
    <2>2. /\ p \o f \in Seq(S) /\ Len(p \o f) = Len(p) + Len(f)
          /\ \A i \in 1..(Len(p) + Len(f)) :
               (p \o f)[i] = IF i <= Len(p) THEN p[i] ELSE f[i - Len(p)]
      BY <1>1, <2>1, ConcatProperties
    <2> QED
      BY <1>1, <2>1, <2>2
  <1> HIDE DEF h
  <1>5. /\ Len(h \o e) = n + 3
        /\ \A i \in 1..(n + 3) : (h \o e)[i] = IF i <= n + 2 THEN h[i] ELSE e[i - (n + 2)]
    <2>1. e \in Seq(S) /\ Len(e) = 1
      BY <1>3 DEF e
    <2>2. /\ Len(h \o e) = Len(h) + Len(e)
          /\ \A i \in 1..(Len(h) + Len(e)) :
               (h \o e)[i] = IF i <= Len(h) THEN h[i] ELSE e[i - Len(h)]
      BY <1>4, <2>1, ConcatProperties
    <2> QED
      BY <1>4, <2>1, <2>2
  <1>6. s = h \o e
    BY DEF h, p, e
  <1>7. s[1] = a /\ s[2] = b
    <2>1. s[1] = p[1] /\ s[2] = p[2]
      BY <1>4, <1>5, <1>6
    <2> QED
      BY <1>2, <2>1 DEF p
  <1>8. ASSUME NEW i \in 1..n
        PROVE  s[i + 2] = f[i]
    <2>1. i + 2 \in 1..(n + 2) /\ i + 2 \in 1..(n + 3) /\ ~(i + 2 <= 2) /\ (i + 2) - 2 = i
      OBVIOUS
    <2>2. s[i + 2] = h[i + 2]
      BY <1>5, <1>6, <2>1
    <2>3. h[i + 2] = f[(i + 2) - 2]
      BY <1>4, <2>1
    <2> QED
      BY <2>1, <2>2, <2>3
  <1>9. s[n + 3] = z
    <2>1. n + 3 \in 1..(n + 3) /\ ~(n + 3 <= n + 2) /\ (n + 3) - (n + 2) = 1
      OBVIOUS
    <2>2. s[n + 3] = e[(n + 3) - (n + 2)]
      BY <1>5, <1>6, <2>1
    <2> QED
      BY <1>3, <2>1, <2>2 DEF e
  <1> QED
    BY <1>5, <1>6, <1>7, <1>8, <1>9

LEMMA AppendIs ==
  ASSUME NEW n \in Nat, NEW f, f = [i \in 1..n |-> f[i]], NEW e
  PROVE  Append(f, e) = [i \in 1..(n + 1) |-> IF i <= n THEN f[i] ELSE e]
  <1> DEFINE S == {f[i] : i \in 1..n} \union {e}
  <1>1. e \in S /\ \A i \in 1..n : f[i] \in S
    OBVIOUS
  <1> HIDE DEF S
  <1>2. f \in Seq(S) /\ Len(f) = n
    BY <1>1
  <1>3. /\ Append(f, e) \in Seq(S) /\ Len(Append(f, e)) = n + 1
        /\ \A i \in 1..n : Append(f, e)[i] = f[i]
        /\ Append(f, e)[n + 1] = e
    BY <1>1, <1>2, AppendProperties
  <1>4. Append(f, e) = [i \in 1..(n + 1) |-> Append(f, e)[i]]
    BY <1>3, LenProperties
  <1>5. ASSUME NEW i \in 1..(n + 1)
        PROVE  Append(f, e)[i] = IF i <= n THEN f[i] ELSE e
    <2>1. CASE i <= n
      BY <1>3, <2>1
    <2>2. CASE i = n + 1
      BY <1>3, <2>2
    <2> QED
      BY <2>1, <2>2
  <1> QED
    BY <1>4, <1>5

(* The commands of an access, one by one. *)
LEMMA TransferCommands ==
  ASSUME OpIsSound, Transfers(op)
  PROVE  LET s == Commands(op)  n == op.length IN
         /\ Len(s) = n + 3 /\ s[1] = Write("CSW", op.block) /\ s[2] = Write("TAR", op.addr)
         /\ \A i \in 1..n : s[i + 2] = IF op.kind = "read" THEN Read("DRW")
                                                           ELSE Write("DRW", op.data[i])
         /\ s[n + 3] = IF op.kind = "read" THEN Read("RDBUFF") ELSE Read("CSW")
  <1> DEFINE n == op.length
             f == [i \in 1..n |-> IF op.kind = "read" THEN Read("DRW")
                                                      ELSE Write("DRW", op.data[i])]
             z == IF op.kind = "read" THEN Read("RDBUFF") ELSE Read("CSW")
             a == Write("CSW", op.block)
             b == Write("TAR", op.addr)
             S == {f[i] : i \in 1..n} \union {a, b, z}
  <1>1. n \in Nat
    BY DEF OpIsSound
  <1>2. Commands(op) = <<a, b>> \o f \o <<z>>
    <2>1. CASE op.kind = "read"
      BY <2>1 DEF Commands
    <2>2. CASE op.kind = "write"
      BY <2>2 DEF Commands
    <2> QED
      BY <2>1, <2>2 DEF Transfers
  <1>3. f \in [1..n -> S] /\ a \in S /\ b \in S /\ z \in S
    OBVIOUS
  <1> HIDE DEF S
  <1>4. \A i \in 1..n : f[i] = IF op.kind = "read" THEN Read("DRW")
                                                  ELSE Write("DRW", op.data[i])
    OBVIOUS
  <1> HIDE DEF n, f, z, a, b
  <1>5. /\ Len(Commands(op)) = n + 3 /\ Commands(op)[1] = a /\ Commands(op)[2] = b
        /\ \A i \in 1..n : Commands(op)[i + 2] = f[i]
        /\ Commands(op)[n + 3] = z
    BY <1>1, <1>2, <1>3, Framed
  <1> QED
    BY <1>4, <1>5, Zenon DEF n, z, a, b

LEMMA IdCommands ==
  ASSUME op.kind = "id"
  PROVE  Commands(op) = <<Write("CSW", FALSE), Read("IDR"), Read("RDBUFF")>>
         /\ Len(Commands(op)) = 3
  BY DEF Commands

(* The command that is sent next, in the place that index tells. *)
LEMMA NextCommand ==
  ASSUME TypeOK, pc = "access"
  PROVE  \/ index = 0 /\ Command = Write("CSW", op.block)
         \/ index = 1 /\ Transfers(op) /\ Command = Write("TAR", op.addr)
         \/ index \in 2..(op.length + 1) /\ op.kind = "read" /\ Command = Read("DRW")
         \/ index \in 2..(op.length + 1) /\ op.kind = "write"
            /\ Command = Write("DRW", op.data[Sent + 1])
         \/ index = op.length + 2 /\ index >= 3 /\ op.kind = "read" /\ Command = Read("RDBUFF")
         \/ index = op.length + 2 /\ index >= 3 /\ op.kind = "write" /\ Command = Read("CSW")
         \/ index = 1 /\ op.kind = "id" /\ Command = Read("IDR")
         \/ index = 2 /\ op.kind = "id" /\ Command = Read("RDBUFF")
  <1> USE DEF TypeOK, OpIsSound
  <1>1. index \in Nat /\ index < Len(Commands(op)) /\ Command = Commands(op)[index + 1]
    BY DEF Command
  <1>2. CASE op.kind = "id"
    <2>1. Len(Commands(op)) = 3 /\ op.block = FALSE
      BY <1>2, IdCommands
    <2>2. index = 0 \/ index = 1 \/ index = 2
      BY <1>1, <2>1
    <2>3. Command = <<Write("CSW", FALSE), Read("IDR"), Read("RDBUFF")>>[index + 1]
      BY <1>1, <1>2, IdCommands
    <2>4. CASE index = 0
      <3>1. Command = Write("CSW", FALSE)
        BY <2>3, <2>4
      <3> QED
        BY <2>1, <2>4, <3>1, Zenon
    <2>5. CASE index = 1
      BY <1>2, <2>3, <2>5
    <2>6. CASE index = 2
      BY <1>2, <2>3, <2>6
    <2> QED
      BY <2>2, <2>4, <2>5, <2>6
  <1>3. CASE Transfers(op)
    <2> DEFINE n == op.length  s == Commands(op)
    <2>1. /\ Len(s) = n + 3 /\ s[1] = Write("CSW", op.block) /\ s[2] = Write("TAR", op.addr)
          /\ \A i \in 1..n : s[i + 2] = IF op.kind = "read" THEN Read("DRW")
                                                            ELSE Write("DRW", op.data[i])
          /\ s[n + 3] = IF op.kind = "read" THEN Read("RDBUFF") ELSE Read("CSW")
      BY <1>3, TransferCommands
    <2>2. n \in Nat \ {0} /\ index \in 0..(n + 2)
      BY <1>1, <1>3, <2>1
    <2>3. CASE index \in 0..1
      <3>1. (index = 0 /\ Command = s[1]) \/ (index = 1 /\ Command = s[2])
        BY <1>1, <2>3
      <3> QED
        BY <1>3, <2>1, <3>1
    <2>4. CASE index \in 2..(n + 1)
      <3>1. index - 1 \in 1..n /\ (index - 1) + 2 = index + 1 /\ Sent + 1 = index - 1
        BY <2>2, <2>4 DEF Sent
      <3>2. Command = IF op.kind = "read" THEN Read("DRW") ELSE Write("DRW", op.data[index - 1])
        BY <1>1, <2>1, <3>1
      <3>3. op.kind = "read" \/ op.kind = "write"
        BY <1>3 DEF Transfers
      <3> QED
        BY <2>4, <3>1, <3>2, <3>3
    <2>5. CASE index = n + 2
      <3>1. Command = s[n + 3]
        BY <1>1, <2>2, <2>5
      <3> QED
        BY <1>3, <2>1, <2>2, <2>5, <3>1 DEF Transfers
    <2> QED
      BY <2>2, <2>3, <2>4, <2>5
  <1> QED
    BY <1>2, <1>3 DEF Transfers

LEMMA CommandsCount ==
  ASSUME TypeOK, pc = "access"
  PROVE  /\ Len(Commands(op)) \in Nat /\ Len(Commands(op)) # 1 /\ Len(Commands(op)) # 2
         /\ index \in Nat
         /\ index < Len(Commands(op))
         /\ Transfers(op) => Len(Commands(op)) = op.length + 3
         /\ op.kind = "id" => Len(Commands(op)) = 3
  <1>1. CASE Transfers(op)
    <2>1. Len(Commands(op)) = op.length + 3 /\ op.length \in Nat
      BY <1>1, TransferCommands DEF TypeOK, OpIsSound
    <2> QED
      BY <1>1, <2>1 DEF TypeOK, Transfers
  <1>2. CASE op.kind = "id"
    <2>1. Len(Commands(op)) = 3
      BY <1>2, IdCommands
    <2> QED
      BY <1>2, <2>1 DEF TypeOK, Transfers
  <1> QED
    BY <1>1, <1>2 DEF TypeOK, OpIsSound, Transfers

-----------------------------------------------------------------------------
LEMMA InvariantInit == Init => IInv
  <1> SUFFICES ASSUME Init PROVE IInv
    OBVIOUS
  <1>1. op.kind = "none" /\ pc = "none" /\ running = Nothing /\ running.kind = "none"
    BY DEF Init, NoOp, Nothing
  <1>2. TypeOK
    <2>1. memory \in [Addresses -> Values] /\ tar \in Int /\ index \in Nat
      BY DEF Init
    <2>2. loop \in {"clear", "on", "off"} /\ last \in BOOLEAN
      BY Zenon DEF Init
    <2>3. OpIsSound
      BY <1>1 DEF OpIsSound, Transfers
    <2> QED
      BY <1>1, <2>1, <2>2, <2>3 DEF TypeOK
  <1>3. RunningIsSound
    BY <1>1 DEF RunningIsSound
  <1>4. BankIsKnown
    BY <1>1 DEF Init, BankIsKnown, OnTheWayUp, Initialized
  <1>5. PortFollows /\ DoneIsDone
    BY <1>1 DEF PortFollows, DoneIsDone
  <1> QED
    BY <1>2, <1>3, <1>4, <1>5 DEF IInv

(* Counters and power change nothing that the invariant is about. *)
Essence ==
  <<pc, loop, op, index, out, result, select_value, last, select, sticky, tar, increment,
    rdbuff, running, memory>>

LEMMA StutterKeeps ==
  ASSUME IInv, UNCHANGED Essence
  PROVE  IInv'
  BY DEF Essence, IInv, TypeOK, OpIsSound, Transfers, RunningIsSound, BankIsKnown, OnTheWayUp,
         Initialized, PortFollows, Sent, Moved, Word, DoneIsDone

(* Steps outside of an access, which the port's registers that matter to   *)
(* one do not notice.                                                      *)
Transferring == <<tar, increment, rdbuff, running, memory>>

LEMMA OutsideKeeps ==
  ASSUME IInv, UNCHANGED <<Transferring, select, index, out, select_value, last>>,
         loop' \in {"clear", "on", "off"}, op' \in {op, NoOp}, pc' # "access",
         OnTheWayUp' => OnTheWayUp,
         pc' = "idle" => OnTheWayUp
  PROVE  IInv'
  <1>1. NoOp.kind = "none" /\ (OnTheWayUp => op' = NoOp)
    BY DEF NoOp, IInv, BankIsKnown
  <1>2. TypeOK'
    BY <1>1 DEF IInv, TypeOK, Transferring, OpIsSound, Transfers
  <1>3. RunningIsSound'
    BY DEF IInv, RunningIsSound, Transferring
  <1>4. BankIsKnown'
    BY <1>1 DEF IInv, BankIsKnown, Initialized
  <1>5. PortFollows' /\ DoneIsDone'
    BY <1>1 DEF PortFollows, DoneIsDone
  <1> QED
    BY <1>2, <1>3, <1>4, <1>5 DEF IInv

LEMMA NewTargetKeeps ==
  ASSUME IInv, NewTarget
  PROVE  IInv'
  <1>1. /\ pc' = "initialize_swd" /\ last' \in BOOLEAN /\ select_value' = "0" /\ op' = NoOp
        /\ ~last /\ UNCHANGED <<loop, index, select, sticky, Transferring>>
    BY DEF NewTarget, port, Transferring
  <1>2. NoOp.kind = "none"
    BY DEF NoOp
  <1>3. TypeOK'
    BY <1>1, <1>2 DEF IInv, TypeOK, Transferring, OpIsSound, Transfers
  <1>4. RunningIsSound'
    BY <1>1 DEF IInv, RunningIsSound, Transferring
  <1>5. BankIsKnown'
    BY <1>1, <1>2 DEF IInv, BankIsKnown, Initialized
  <1>6. PortFollows' /\ DoneIsDone'
    BY <1>1 DEF PortFollows, DoneIsDone
  <1> QED
    BY <1>3, <1>4, <1>5, <1>6 DEF IInv

(* Target reads the id and CTRL/STAT, and writes CTRL/STAT and ABORT.      *)
LEMMA InitializationKeeps ==
  ASSUME IInv, InitializeSwd \/ ReadIdr \/ ReadControl \/ WriteControl
  PROVE  IInv'
  <1>1. UNCHANGED <<Transferring, select, index, out, select_value, last>>
    BY DEF InitializeSwd, ReadIdr, ReadControl, WriteControl, Exchange, Accept, SpoilWrite,
           Goto, Abandon, EnterLoop, Read, Write, AccessPort, target, port, Transferring
  <1>2. /\ loop' \in {"clear", "on", "off"} /\ op' \in {op, NoOp}
        /\ pc' # "access" /\ pc' # "idle"
        /\ OnTheWayUp' => OnTheWayUp
    <2>1. CASE InitializeSwd
      BY <2>1 DEF InitializeSwd, Exchange, Goto, Abandon, target, IInv, TypeOK, OnTheWayUp
    <2>2. CASE ReadIdr
      BY <2>2 DEF ReadIdr, Exchange, Goto, Abandon, target, IInv, TypeOK, OnTheWayUp
    <2>3. CASE ReadControl
      BY <2>3 DEF ReadControl, Exchange, Goto, Abandon, target, IInv, TypeOK, OnTheWayUp
    <2>4. CASE WriteControl
      BY <2>4 DEF WriteControl, Exchange, EnterLoop, Abandon, target, IInv, TypeOK, OnTheWayUp
    <2> QED
      BY <2>1, <2>2, <2>3, <2>4
  <1> QED
    BY <1>1, <1>2, OutsideKeeps

LEMMA LoopsKeep ==
  ASSUME IInv, Poll \/ Abort
  PROVE  IInv'
  <1>1. UNCHANGED <<Transferring, select, index, out, select_value, last>>
    BY DEF Poll, Abort, Exchange, Accept, SpoilWrite, Goto, Abandon, EndRound, Read, Write,
           AccessPort, target, port, Transferring
  <1>2. /\ loop' = loop /\ op' \in {op, NoOp}
        /\ pc' \in {"poll", "abort", "none", After}
    BY DEF Poll, Abort, Exchange, Goto, Abandon, EndRound, target
  <1>3. loop \in {"clear", "on", "off"} /\ pc \in {"poll", "abort"}
    BY DEF Poll, Abort, IInv, TypeOK
  <1>4. pc' # "access" /\ (OnTheWayUp' => OnTheWayUp) /\ (pc' = "idle" => OnTheWayUp)
    BY <1>2, <1>3 DEF After, OnTheWayUp
  <1> QED
    BY <1>1, <1>2, <1>3, <1>4, OutsideKeeps

LEMMA PowerOffKeeps ==
  ASSUME IInv, PowerOff
  PROVE  IInv'
  <1>1. UNCHANGED <<Transferring, select, index, out, select_value, last>>
    BY DEF PowerOff, EnterLoop, port, Transferring
  <1>2. loop' = "clear" /\ op' = op /\ pc' = "poll"
    BY DEF PowerOff, EnterLoop
  <1>3. ~OnTheWayUp'
    BY <1>2 DEF OnTheWayUp
  <1> QED
    BY <1>1, <1>2, <1>3, OutsideKeeps

(* A call that begins: whatever the one before it has left on the port.    *)
LEMMA CallKeeps ==
  ASSUME IInv, NEW o, Call(o), o.kind # "none", Len(Commands(o)) > 0, OpIsSound',
         o.kind = "id" => last
  PROVE  IInv'
  <1>1. /\ pc = "idle" /\ pc' = "access" /\ op' = o /\ index' = 0 /\ out' = <<>>
        /\ UNCHANGED <<loop, select_value, last, select, sticky, Transferring>>
    BY DEF Call, port, Transferring
  <1>2. TypeOK'
    BY <1>1 DEF IInv, TypeOK, Transferring
  <1>3. RunningIsSound'
    BY <1>1 DEF IInv, RunningIsSound, Transferring
  <1>4. BankIsKnown'
    BY <1>1 DEF IInv, BankIsKnown, Initialized, OnTheWayUp
  <1>5. PortFollows' /\ DoneIsDone'
    BY <1>1 DEF PortFollows, DoneIsDone
  <1> QED
    BY <1>2, <1>3, <1>4, <1>5 DEF IInv

LEMMA SwitchPowerKeeps ==
  ASSUME IInv, SwitchPower
  PROVE  IInv'
  <1>1. UNCHANGED Essence
    BY DEF SwitchPower, target, Essence
  <1> QED
    BY <1>1, StutterKeeps

LEMMA SentIsBounded ==
  ASSUME TypeOK, pc = "access", Transfers(op)
  PROVE  /\ op.length \in Nat \ {0} /\ op.addr \in Nat /\ index \in Nat
         /\ op.addr + op.length - 1 <= LastAddress /\ (~op.block => op.length = 1)
         /\ index <= op.length + 2 /\ Sent \in Int /\ Sent <= op.length
  <1>1. Len(Commands(op)) = op.length + 3
    BY TransferCommands DEF TypeOK
  <1>2. op.length \in Nat \ {0} /\ op.addr \in Nat /\ index \in Nat
        /\ op.addr + op.length - 1 <= LastAddress /\ (~op.block => op.length = 1)
        /\ index < Len(Commands(op))
    BY DEF TypeOK, OpIsSound
  <1> QED
    BY <1>1, <1>2 DEF Sent

(* The port runs the access: words move where they were meant to, and the *)
(* next reply is the one after.                                            *)
LEMMA RunAccessKeeps ==
  ASSUME IInv, RunAccess
  PROVE  IInv'
  <1>1. /\ running # Nothing /\ running' = Nothing /\ running'.kind = "none"
        /\ UNCHANGED <<pc, loop, op, index, out, result, select_value, last, select, increment>>
    BY DEF RunAccess, target, Nothing
  <1>2. BankIsKnown'
    <2>1. sticky' = sticky \/ sticky' # {}
      BY DEF RunAccess
    <2> QED
      BY <1>1, <2>1 DEF IInv, BankIsKnown, OnTheWayUp, Initialized
  <1>3. RunningIsSound'
    BY <1>1 DEF RunningIsSound
  <1>4. CASE running.kind \in {"id", "csw"} /\ UNCHANGED <<sticky, tar, memory>>
                                            /\ rdbuff' = running.kind
    <2>1. TypeOK'
      BY <1>1, <1>4 DEF IInv, TypeOK, OpIsSound, Transfers
    <2>2. PortFollows'
      <3> SUFFICES ASSUME pc = "access", sticky = {}
                   PROVE  PortFollows'
        BY <1>1, <1>4 DEF PortFollows
      <3>1. index >= 2 => ~Transfers(op) /\ op.kind # "read" /\ op.kind # "write"
        BY <1>1, <1>4 DEF IInv, PortFollows, Transfers
      <3>2. op.kind = "id" /\ index = 2 => out = <<>> /\ running.kind = "id"
        BY <1>1, <1>4 DEF IInv, PortFollows, RunningIsSound
      <3>3. (index < 2 => out = <<>>) /\ (index >= 1 => increment = op.block)
        BY DEF IInv, PortFollows
      <3> QED
        BY <1>1, <1>4, <3>1, <3>2, <3>3 DEF PortFollows, Transfers
    <2>3. DoneIsDone'
      BY <1>1, <1>4 DEF IInv, DoneIsDone, Word
    <2> QED
      BY <1>2, <1>3, <2>1, <2>2, <2>3 DEF IInv
  <1>5. CASE /\ running.kind \in {"read", "write"} /\ sticky' # {} /\ UNCHANGED <<tar, memory>>
    <2>1. TypeOK'
      BY <1>1, <1>5 DEF IInv, TypeOK, OpIsSound, Transfers
    <2>2. PortFollows'
      BY <1>5 DEF PortFollows
    <2>3. DoneIsDone'
      BY <1>1, <1>5 DEF IInv, DoneIsDone, Word, RunningIsSound
    <2> QED
      BY <1>2, <1>3, <2>1, <2>2, <2>3 DEF IInv
  <1>6. CASE /\ running.kind \in {"read", "write"} /\ tar \in Addresses /\ UNCHANGED sticky
             /\ rdbuff' = IF running.kind = "read" THEN memory[tar] ELSE rdbuff
             /\ memory' = IF running.kind = "write" THEN [memory EXCEPT ![tar] = running.value]
                                                    ELSE memory
             /\ tar' = IF increment THEN tar + 1 ELSE tar
    <2>1. TypeOK'
      <3>1. tar \in Int /\ tar' \in Int
        BY <1>6 DEF IInv, TypeOK
      <3>2. memory' \in [Addresses -> Values]
        BY <1>6 DEF IInv, TypeOK, RunningIsSound
      <3> QED
        BY <1>1, <3>1, <3>2 DEF IInv, TypeOK, OpIsSound, Transfers
    <2>2. PortFollows'
      <3> SUFFICES ASSUME pc = "access", sticky = {}
                   PROVE  PortFollows'
        BY <1>1, <1>6 DEF PortFollows
      <3>1. /\ index < 2 => out = <<>>
            /\ index >= 1 => increment = op.block
            /\ ~(op.kind = "id" /\ index = 2)
        BY <1>6 DEF IInv, PortFollows
      <3>2. ASSUME Transfers(op), index >= 2
            PROVE  /\ running.kind = op.kind /\ Moved' = Sent /\ Sent' = Sent
                   /\ Sent \in 1..op.length /\ tar = op.addr + Sent - 1
                   /\ op.block \/ Moved' = 0 => tar' = op.addr + Moved'
        <4>1. /\ running.kind = op.kind /\ Sent >= 1 /\ increment = op.block
              /\ (op.block \/ Moved = 0 => tar = op.addr + Moved)
          <5>1. running.kind # "none"
            BY <1>6
          <5>2. /\ running.kind \in {"none", op.kind} /\ Sent >= 1
                /\ (op.block \/ Moved = 0 => tar = op.addr + Moved)
            BY <1>1, <3>2 DEF IInv, PortFollows
          <5>3. increment = op.block
            BY <3>1, <3>2 DEF IInv, TypeOK
          <5> QED
            BY <5>1, <5>2, <5>3
        <4>2. Moved = Sent - 1 /\ Moved' = Sent /\ Sent' = Sent
          BY <1>1 DEF Moved, Sent
        <4>3. Sent \in 1..op.length /\ op.addr \in Nat /\ (~op.block => op.length = 1)
          BY <3>2, <4>1, SentIsBounded DEF IInv
        <4>4. tar = op.addr + Sent - 1
          BY <4>1, <4>2, <4>3
        <4>5. op.block => tar' = op.addr + Sent
          BY <1>6, <4>1, <4>3, <4>4
        <4> QED
          BY <4>1, <4>2, <4>3, <4>4, <4>5
      <3>3. ASSUME op.kind = "read", index >= 2
            PROVE  /\ out = [i \in 1..(Sent - 1) |-> Word(i)'] /\ rdbuff' = Word(Sent)'
        <4>1. /\ running.kind = "read" /\ tar = op.addr + Sent - 1 /\ memory' = memory
              /\ Sent' = Sent
          BY <1>6, <3>2, <3>3 DEF Transfers
        <4>2. out = [i \in 1..(Sent - 1) |-> Word(i)]
          BY <3>3 DEF IInv, PortFollows
        <4> QED
          BY <1>1, <1>6, <4>1, <4>2 DEF Word
      <3>4. ASSUME op.kind = "write", index >= 2, NEW i \in 1..Sent
            PROVE  Word(i)' = op.data[i]
        <4>1. /\ Sent \in 1..op.length /\ tar = op.addr + Sent - 1
              /\ memory' = [memory EXCEPT ![tar] = running.value]
          BY <1>6, <3>2, <3>4 DEF Transfers
        <4>2. memory \in [Addresses -> Values] /\ op.addr \in Nat /\ op.length \in Nat
              /\ op.addr + op.length - 1 <= LastAddress
          BY <3>4 DEF IInv, TypeOK, OpIsSound, Transfers
        <4>3. op.addr + i - 1 \in Addresses
          <5> DEFINE a == op.addr  n == op.length  s == Sent
          <5>1. a \in Nat /\ n \in Nat /\ a + n - 1 <= LastAddress /\ i \in 1..s /\ s \in 1..n
            BY <3>4, <4>1, <4>2
          <5> HIDE DEF a, n, s
          <5>2. a + i - 1 \in 0..LastAddress
            BY <5>1, PortAssumption, SMT
          <5> QED
            BY <5>2 DEF Addresses, a
        <4>4. CASE i = Sent
          <5>1. running.value = op.data[Sent]
            BY <1>1, <3>4 DEF IInv, PortFollows
          <5> QED
            BY <1>1, <4>1, <4>2, <4>3, <4>4, <5>1 DEF Word
        <4>5. CASE i # Sent
          <5>1. i \in 1..Moved
            BY <1>1, <4>1, <4>5 DEF Moved
          <5>2. Word(i) = op.data[i]
            BY <3>4, <5>1 DEF IInv, PortFollows
          <5>3. op.addr + i - 1 # tar
            BY <4>1, <4>2, <4>5
          <5> QED
            BY <1>1, <4>1, <4>2, <4>3, <5>2, <5>3 DEF Word
        <4> QED
          BY <4>4, <4>5
      <3> QED
        BY <1>1, <3>1, <3>2, <3>3, <3>4 DEF PortFollows, Transfers
    <2>3. DoneIsDone'
      BY <1>1, <1>6 DEF IInv, DoneIsDone, RunningIsSound
    <2> QED
      BY <1>2, <1>3, <2>1, <2>2, <2>3 DEF IInv
  <1>7. \/ running.kind \in {"id", "csw"} /\ UNCHANGED <<sticky, tar, memory>>
           /\ rdbuff' = running.kind
        \/ /\ running.kind \in {"read", "write"} /\ sticky' # {} /\ UNCHANGED <<tar, memory>>
        \/ /\ running.kind \in {"read", "write"} /\ tar \in Addresses /\ UNCHANGED sticky
           /\ rdbuff' = IF running.kind = "read" THEN memory[tar] ELSE rdbuff
           /\ memory' = IF running.kind = "write" THEN [memory EXCEPT ![tar] = running.value]
                                                  ELSE memory
           /\ tar' = IF increment THEN tar + 1 ELSE tar
    BY DEF RunAccess
  <1> QED
    BY <1>4, <1>5, <1>6, <1>7, Zenon

-----------------------------------------------------------------------------
(* A command that fails ends the access. *)
LEMMA FailKeeps ==
  ASSUME IInv, pc = "access", Fail, result' # "OK", UNCHANGED <<select, sticky, memory>>,
         RunningIsSound', tar' \in Int
  PROVE  IInv'
  <1>1. pc' = "idle" /\ UNCHANGED <<loop, op, index, out, select_value, last>>
    BY DEF Fail
  <1>2. TypeOK'
    BY <1>1 DEF IInv, TypeOK, OpIsSound, Transfers
  <1>3. BankIsKnown'
    BY <1>1 DEF IInv, BankIsKnown, OnTheWayUp, Initialized
  <1>4. PortFollows' /\ DoneIsDone'
    BY <1>1 DEF PortFollows, DoneIsDone
  <1> QED
    BY <1>2, <1>3, <1>4 DEF IInv

LEMMA SelectBankKeeps ==
  ASSUME IInv, SelectBank
  PROVE  IInv'
  <1> DEFINE bank == Bank(Command.reg)
  <1>1. pc = "access" /\ bank \in {"0", "F"} /\ (bank = "F" => last)
    <2>1. Command.reg = "IDR" => op.kind = "id"
      BY NextCommand DEF SelectBank, IInv, Read, Write
    <2> QED
      BY <2>1 DEF SelectBank, Bank, IInv, BankIsKnown
  <1> HIDE DEF bank
  <1>2. CASE UNCHANGED Essence
    BY <1>2, StutterKeeps
  <1>3. CASE Fail /\ result' # "OK" /\ UNCHANGED port
    <2>1. RunningIsSound' /\ tar' \in Int /\ UNCHANGED <<select, sticky, memory>>
      BY <1>3 DEF port, IInv, RunningIsSound, TypeOK
    <2> QED
      BY <1>1, <1>3, <2>1, FailKeeps
  <1>4. CASE /\ UNCHANGED <<pc, loop, op, index, out, result, last, Transferring>>
             /\ select_value' = bank
             /\ \/ select' = bank /\ sticky' = {} /\ sticky = {}
                \/ select' = select /\ sticky' # {}
    <2>1. TypeOK'
      BY <1>4 DEF IInv, TypeOK, Transferring, OpIsSound, Transfers
    <2>2. RunningIsSound'
      BY <1>4 DEF IInv, RunningIsSound, Transferring
    <2>3. BankIsKnown'
      BY <1>1, <1>4 DEF IInv, BankIsKnown, OnTheWayUp, Initialized
    <2>4. PortFollows'
      <3>1. CASE sticky' # {}
        BY <3>1 DEF PortFollows
      <3>2. CASE sticky' = sticky
        BY <1>4, <3>2 DEF IInv, PortFollows, Transferring, Transfers, Sent, Moved, Word
      <3> QED
        BY <1>4, <3>1, <3>2
    <2>5. DoneIsDone'
      BY <1>1, <1>4 DEF DoneIsDone
    <2> QED
      BY <2>1, <2>2, <2>3, <2>4, <2>5 DEF IInv
  <1>5. \/ UNCHANGED Essence
        \/ Fail /\ result' # "OK" /\ UNCHANGED port
        \/ /\ UNCHANGED <<pc, loop, op, index, out, result, last, Transferring>>
           /\ select_value' = bank
           /\ \/ select' = bank /\ sticky' = {} /\ sticky = {}
              \/ select' = select /\ sticky' # {}
    <2>1. Write("SELECT", bank) = [reg |-> "SELECT", write |-> TRUE, value |-> bank]
      BY DEF Write
    <2> QED
      BY <1>1, <2>1 DEF SelectBank, bank, Exchange, Accept, SpoilWrite, Waits, Refuses,
         AlwaysAnswered, AccessPort, Failure, target, port, Essence, Transferring
  <1> QED
    BY <1>2, <1>3, <1>4, <1>5

(* A command of an access is answered only by a port that is done with the *)
(* one before it, without an error, and has the command's bank selected.   *)
LEMMA AnsweredMeans ==
  ASSUME IInv, pc = "access", ~AccessPort(Command) \/ Bank(Command.reg) = select_value,
         ~Waits(Command), ~Refuses(Command)
  PROVE  /\ running = Nothing /\ sticky = {} /\ Moved = Sent
         /\ AccessPort(Command) => Bank(Command.reg) = select
  <1>1. Command.reg \in {"CSW", "TAR", "DRW", "CSW", "IDR", "RDBUFF"}
    BY NextCommand DEF IInv, Read, Write
  <1>2. running = Nothing /\ sticky = {}
    BY <1>1 DEF Waits, Refuses, AlwaysAnswered
  <1> QED
    BY <1>2 DEF IInv, BankIsKnown, Initialized, Moved

(* What the port does with each. *)
LEMMA AcceptMeans ==
  ASSUME IInv, pc = "access", Accept(Command), running = Nothing, sticky = {},
         AccessPort(Command) => Bank(Command.reg) = select
  PROVE  /\ UNCHANGED <<select, sticky, rdbuff, memory>>
         /\ \/ /\ index = 0
               /\ increment' = op.block /\ UNCHANGED <<tar, running>>
            \/ /\ index = 1 /\ Transfers(op)
               /\ tar' = op.addr /\ UNCHANGED <<increment, running>>
            \/ /\ index \in 2..(op.length + 1) /\ Transfers(op)
               /\ running'.kind = op.kind /\ running'.meant = op.addr + Sent
               /\ op.kind = "write" => running'.value = op.data[Sent + 1]
               /\ UNCHANGED <<tar, increment>>
            \/ /\ index = op.length + 2 /\ index >= 3 /\ op.kind = "read"
               /\ UNCHANGED <<tar, increment, running>>
            \/ /\ index = op.length + 2 /\ index >= 3 /\ op.kind = "write"
               /\ running'.kind = "csw" /\ UNCHANGED <<tar, increment>>
            \/ /\ index = 1 /\ op.kind = "id"
               /\ running'.kind = "id" /\ UNCHANGED <<tar, increment>>
            \/ /\ index = 2 /\ op.kind = "id"
               /\ UNCHANGED <<tar, increment, running>>
  <1> USE DEF Accept, AccessPort, Bank, Begin, Read, Write
  <1>1. index \in Nat
    BY DEF IInv, TypeOK
  <1>2. CASE index = 0 /\ Command = Write("CSW", op.block)
    BY <1>2
  <1>3. CASE index = 1 /\ Transfers(op) /\ Command = Write("TAR", op.addr)
    BY <1>3
  <1>4. CASE index \in 2..(op.length + 1) /\ op.kind = "read" /\ Command = Read("DRW")
    BY <1>1, <1>4 DEF Transfers, Sent
  <1>5. CASE index \in 2..(op.length + 1) /\ op.kind = "write"
             /\ Command = Write("DRW", op.data[Sent + 1])
    BY <1>1, <1>5 DEF Transfers, Sent
  <1>6. CASE index = op.length + 2 /\ index >= 3 /\ op.kind = "read" /\ Command = Read("RDBUFF")
    BY <1>6
  <1>7. CASE index = op.length + 2 /\ index >= 3 /\ op.kind = "write" /\ Command = Read("CSW")
    BY <1>7
  <1>8. CASE index = 1 /\ op.kind = "id" /\ Command = Read("IDR")
    BY <1>8
  <1>9. CASE index = 2 /\ op.kind = "id" /\ Command = Read("RDBUFF")
    BY <1>9
  <1>10. TypeOK
    BY DEF IInv
  <1> QED
    BY <1>2, <1>3, <1>4, <1>5, <1>6, <1>7, <1>8, <1>9, <1>10, NextCommand, Zenon

(* What RunningIsSound and the type of tar ask of a command that was       *)
(* accepted: a write is meant for the address that tar has.                *)
LEMMA AcceptIsSound ==
  ASSUME IInv, pc = "access", Accept(Command), running = Nothing, sticky = {}, Moved = Sent,
         AccessPort(Command) => Bank(Command.reg) = select
  PROVE  RunningIsSound' /\ tar' \in Int
  <1>1. Nothing.kind = "none"
    BY DEF Nothing
  <1>2. CASE UNCHANGED running
    <2>1. tar' \in Int
      <3>1. tar' = tar \/ (tar' = op.addr /\ Transfers(op))
        BY AcceptMeans
      <3>2. tar \in Int /\ (Transfers(op) => op.addr \in Int)
        BY DEF IInv, TypeOK, OpIsSound
      <3> QED
        BY <3>1, <3>2
    <2> QED
      BY <1>1, <1>2, <2>1 DEF RunningIsSound
  <1>3. CASE /\ index \in 2..(op.length + 1) /\ Transfers(op)
             /\ running'.kind = op.kind /\ running'.meant = op.addr + Sent
             /\ op.kind = "write" => running'.value = op.data[Sent + 1]
             /\ UNCHANGED tar
    <2>1. op.length \in Nat \ {0} /\ op.addr \in Nat /\ index \in Nat
          /\ (~op.block => op.length = 1)
      BY <1>3, SentIsBounded DEF IInv
    <2>2. (op.block \/ Sent = 0) /\ Sent + 1 \in 1..op.length /\ index >= 2
      BY <1>3, <2>1 DEF Sent
    <2>3. tar = op.addr + Sent
      BY <1>3, <2>2 DEF IInv, PortFollows
    <2>4. op.kind = "write" => running'.value \in Values
      BY <1>3, <2>2 DEF IInv, TypeOK, OpIsSound
    <2> QED
      BY <1>1, <1>3, <2>3, <2>4 DEF RunningIsSound, IInv, TypeOK, Transfers
  <1>4. CASE running'.kind \in {"csw", "id"} /\ UNCHANGED tar
    BY <1>1, <1>4 DEF RunningIsSound, IInv, TypeOK
  <1> QED
    BY <1>2, <1>3, <1>4, AcceptMeans

(* A command that was accepted, and the access goes on or is done. *)
LEMMA GoesOnKeeps ==
  ASSUME IInv, pc = "access", Accept(Command), running = Nothing, sticky = {}, Moved = Sent,
         AccessPort(Command) => Bank(Command.reg) = select,
         index' = index + 1,
         out' = IF Keeps(Command) THEN Append(out, rdbuff) ELSE out,
         pc' = IF index + 1 = Len(Commands(op)) THEN "idle" ELSE pc,
         UNCHANGED <<loop, op, result, select_value, last>>
  PROVE  IInv'
  <1>1. UNCHANGED <<select, sticky, rdbuff, memory>>
    BY AcceptMeans
  <1>2. RunningIsSound' /\ tar' \in Int
    BY AcceptIsSound
  <1>3. index \in Nat /\ index < Len(Commands(op)) /\ op.kind # "none" /\ TypeOK
    BY DEF IInv, TypeOK
  <1>4. index + 1 \in Nat /\ (pc' = "access" => index + 1 < Len(Commands(op)))
    BY <1>3, CommandsCount
  <1>5. TypeOK'
    BY <1>1, <1>2, <1>3, <1>4 DEF IInv, TypeOK, OpIsSound, Transfers
  <1>6. BankIsKnown'
    BY <1>1 DEF IInv, BankIsKnown, OnTheWayUp, Initialized
  <1> SUFFICES PortFollows' /\ DoneIsDone'
    BY <1>2, <1>5, <1>6 DEF IInv
  <1>7. Sent' = Sent + 1 /\ \A i : Word(i)' = Word(i)
    BY <1>1, <1>3 DEF Sent, Word
  <1>8. \A reg, v : /\ Write(reg, v).reg = reg /\ Write(reg, v).write
                     /\ Read(reg).reg = reg /\ ~Read(reg).write
    BY DEF Read, Write
  <1>9. CASE index = 0
    <2>1. out' = <<>> /\ index' = 1 /\ pc' = "access"
      <3>1. Command = Write("CSW", op.block)
        BY <1>3, <1>9, NextCommand
      <3>2. ~Keeps(Command)
        BY <1>8, <3>1 DEF Keeps
      <3>3. out = <<>>
        BY <1>9 DEF IInv, PortFollows
      <3>4. Len(Commands(op)) # 1
        BY <1>3, CommandsCount, Zenon
      <3> QED
        BY <1>9, <3>2, <3>3, <3>4
    <2>2. increment' = op.block /\ running' = Nothing
      BY <1>9, AcceptMeans
    <2> QED
      BY <2>1, <2>2 DEF PortFollows, DoneIsDone, Transfers
  <1>10. CASE index = 1 /\ Transfers(op)
    <2>1. out' = <<>> /\ index' = 2 /\ pc' = "access"
      <3>1. Command = Write("TAR", op.addr)
        BY <1>3, <1>10, NextCommand DEF Transfers
      <3>2. ~Keeps(Command)
        BY <1>8, <3>1 DEF Keeps
      <3>3. out = <<>>
        BY <1>10 DEF IInv, PortFollows
      <3>4. Len(Commands(op)) # 2
        BY <1>3, CommandsCount, Zenon
      <3> QED
        BY <1>10, <3>2, <3>3, <3>4
    <2>2. /\ increment' = increment /\ increment = op.block /\ running' = Nothing
          /\ tar' = op.addr /\ op.addr \in Nat
      <3>1. increment = op.block /\ op.addr \in Nat
        BY <1>3, <1>10 DEF IInv, PortFollows, TypeOK, OpIsSound
      <3>2. tar' = op.addr /\ UNCHANGED <<increment, running>>
        BY <1>10, AcceptMeans DEF Transfers
      <3> QED
        BY <3>1, <3>2
    <2>3. Sent' = 0 /\ Moved' = 0
      BY <2>1, <2>2 DEF Sent, Moved
    <2>4. <<>> = [i \in 1..(0 - 1) |-> Word(i)']
      OBVIOUS
    <2>5. running'.kind = "none" /\ (op.kind = "read" \/ op.kind = "write")
      BY <1>10, <2>2 DEF Nothing, Transfers
    <2>6. DoneIsDone'
      BY <2>1 DEF DoneIsDone
    <2>7. PortFollows'
      BY <2>1, <2>2, <2>3, <2>4, <2>5 DEF PortFollows, Transfers
    <2> QED
      BY <2>6, <2>7
  <1>11. CASE index \in 2..(op.length + 1) /\ Transfers(op)
    <2>1. /\ op.length \in Nat \ {0} /\ op.addr \in Nat /\ index \in Nat /\ index >= 2
          /\ (~op.block => op.length = 1) /\ Sent \in 0..(op.length - 1)
      BY <1>3, <1>11, SentIsBounded DEF Sent
    <2>2. pc' = "access" /\ index' >= 3
      <3>1. Len(Commands(op)) = op.length + 3
        BY <1>3, <1>11, CommandsCount
      <3> QED
        BY <1>11, <2>1, <3>1
    <2>3. /\ running'.kind = op.kind /\ UNCHANGED <<tar, increment>>
          /\ op.kind = "write" => running'.value = op.data[Sent + 1]
      <3>1. /\ ~(index = op.length + 2) /\ ~(index = 0) /\ ~(index = 1) /\ op.kind # "id"
        BY <1>11, <2>1 DEF Transfers
      <3> QED
        BY <3>1, AcceptMeans, Zenon
    <2>4. running' # Nothing /\ Moved' = Sent
      <3>1. running' # Nothing
        BY <1>11, <2>3 DEF Nothing, Transfers
      <3> QED
        BY <1>7, <2>1, <3>1 DEF Moved
    <2>5. /\ increment = op.block /\ (op.block \/ Sent = 0 => tar = op.addr + Sent)
          /\ op.kind = "read" =>
               /\ out = [i \in 1..(Sent - 1) |-> Word(i)]
               /\ Sent >= 1 => rdbuff = Word(Sent)
          /\ op.kind = "write" => \A i \in 1..Sent : Word(i) = op.data[i]
      <3>1. increment = op.block
        BY <2>1 DEF IInv, PortFollows
      <3> QED
        BY <1>11, <2>1, <3>1 DEF IInv, PortFollows
    <2>6. op.kind = "read" => out' = [i \in 1..Sent |-> Word(i)]
      <3> SUFFICES ASSUME op.kind = "read"
                   PROVE  out' = [i \in 1..Sent |-> Word(i)]
        OBVIOUS
      <3>1. Command = Read("DRW")
        <4>1. ~(index = op.length + 2) /\ ~(index = 0) /\ ~(index = 1)
          BY <1>11, <2>1
        <4>2. op.kind # "id" /\ op.kind # "write"
          OBVIOUS
        <4> QED
          BY <1>3, <4>1, <4>2, NextCommand, Zenon
      <3>2. Keeps(Command) <=> index > 2
        BY <1>8, <3>1 DEF Keeps
      <3>3. CASE Sent = 0
        <4>1. index = 2
          BY <2>1, <3>3 DEF Sent
        <4>2. out' = out
          BY <3>2, <4>1
        <4> QED
          BY <2>5, <3>3, <4>2
      <3>4. CASE Sent >= 1
        <4>1. index > 2
          BY <2>1, <3>4 DEF Sent
        <4>2. out' = Append(out, Word(Sent))
          BY <2>5, <3>2, <3>4, <4>1
        <4>3. Append(out, Word(Sent))
                = [i \in 1..((Sent - 1) + 1) |-> IF i <= Sent - 1 THEN out[i] ELSE Word(Sent)]
          <5>1. out = [i \in 1..(Sent - 1) |-> out[i]] /\ Sent - 1 \in Nat
            BY <2>1, <2>5, <3>4
          <5> QED
            BY <5>1, AppendIs
        <4>4. ASSUME NEW i \in 1..Sent
              PROVE  (IF i <= Sent - 1 THEN out[i] ELSE Word(Sent)) = Word(i)
          <5>1. CASE i <= Sent - 1
            BY <2>1, <2>5, <5>1
          <5>2. CASE i = Sent
            BY <2>1, <5>2
          <5> QED
            BY <2>1, <5>1, <5>2
        <4> QED
          BY <2>1, <4>2, <4>3, <4>4
      <3> QED
        BY <2>1, <3>3, <3>4
    <2>7. Sent' - 1 = Sent /\ Sent' >= 1 /\ Moved' # Sent'
      BY <1>7, <2>1, <2>4
    <2>8. PortFollows'
      <3>1. ~(index' < 2) /\ ~(index' = 1) /\ ~(index' = 2) /\ increment' = op.block
        BY <1>11, <2>1, <2>2, <2>3, <2>5
      <3>2. op.block \/ Moved' = 0 => tar' = op.addr + Moved'
        BY <2>3, <2>4, <2>5
      <3>3. op.kind = "read" => out' = [i \in 1..(Sent' - 1) |-> Word(i)']
        BY <1>7, <2>6, <2>7
      <3>4. op.kind = "write" => /\ running'.value = op.data[Sent']
                                 /\ \A i \in 1..Moved' : Word(i)' = op.data[i]
        BY <1>7, <2>3, <2>4, <2>5
      <3> QED
        BY <2>3, <2>4, <2>7, <3>1, <3>2, <3>3, <3>4 DEF PortFollows, Transfers
    <2>9. DoneIsDone'
      BY <2>2 DEF DoneIsDone
    <2> QED
      BY <2>8, <2>9
  <1>12. CASE index = op.length + 2 /\ index >= 3 /\ op.kind = "read"
    <2>1. /\ op.length \in Nat \ {0} /\ Sent = op.length
      BY <1>3, <1>12, SentIsBounded DEF Sent, Transfers
    <2>2. pc' = "idle"
      <3>1. Len(Commands(op)) = op.length + 3
        BY <1>3, <1>12, CommandsCount DEF Transfers
      <3> QED
        BY <1>12, <2>1, <3>1
    <2>3. running' = Nothing
      <3>1. ~(index = 0) /\ ~(index = 1) /\ ~(index = 2) /\ ~(index \in 2..(op.length + 1))
            /\ op.kind # "write"
        BY <1>12, <2>1
      <3> QED
        BY <3>1, AcceptMeans, Zenon
    <2>4. out = [i \in 1..(Sent - 1) |-> Word(i)] /\ rdbuff = Word(Sent)
      BY <1>12, <2>1 DEF IInv, PortFollows
    <2>5. out' = Append(out, Word(Sent))
      <3>1. Command = Read("RDBUFF")
        <4>1. ~(index = 0) /\ ~(index = 1) /\ ~(index = 2) /\ ~(index \in 2..(op.length + 1))
              /\ op.kind # "write"
          BY <1>12, <2>1
        <4> QED
          BY <1>3, <4>1, NextCommand, Zenon
      <3>2. Keeps(Command)
        BY <1>8, <3>1 DEF Keeps
      <3> QED
        BY <2>4, <3>2
    <2>6. out' = [i \in 1..op.length |-> Word(i)]
      <3>1. Append(out, Word(Sent))
              = [i \in 1..((Sent - 1) + 1) |-> IF i <= Sent - 1 THEN out[i] ELSE Word(Sent)]
        <4>1. out = [i \in 1..(Sent - 1) |-> out[i]] /\ Sent - 1 \in Nat
          BY <2>1, <2>4
        <4> QED
          BY <4>1, AppendIs
      <3>2. ASSUME NEW i \in 1..Sent
            PROVE  (IF i <= Sent - 1 THEN out[i] ELSE Word(Sent)) = Word(i)
        <4>1. CASE i <= Sent - 1
          BY <2>1, <2>4, <4>1
        <4>2. CASE i = Sent
          BY <2>1, <4>2
        <4> QED
          BY <2>1, <4>1, <4>2
      <3> QED
        BY <2>1, <2>5, <3>1, <3>2
    <2>7. DoneIsDone'
      BY <1>7, <1>12, <2>3, <2>6 DEF DoneIsDone
    <2>8. PortFollows'
      BY <2>2 DEF PortFollows
    <2> QED
      BY <2>7, <2>8
  <1>13. CASE index = op.length + 2 /\ index >= 3 /\ op.kind = "write"
    <2>1. /\ op.length \in Nat \ {0} /\ Sent = op.length
      BY <1>3, <1>13, SentIsBounded DEF Sent, Transfers
    <2>2. pc' = "idle"
      <3>1. Len(Commands(op)) = op.length + 3
        BY <1>3, <1>13, CommandsCount DEF Transfers
      <3> QED
        BY <1>13, <2>1, <3>1
    <2>3. running'.kind = "csw"
      <3>1. ~(index = 0) /\ ~(index = 1) /\ ~(index = 2) /\ ~(index \in 2..(op.length + 1))
            /\ op.kind # "read"
        BY <1>13, <2>1
      <3> QED
        BY <3>1, AcceptMeans, Zenon
    <2>4. \A i \in 1..op.length : Word(i) = op.data[i]
      BY <1>13, <2>1 DEF IInv, PortFollows
    <2>5. DoneIsDone'
      BY <1>7, <1>13, <2>3, <2>4 DEF DoneIsDone
    <2>6. PortFollows'
      BY <2>2 DEF PortFollows
    <2> QED
      BY <2>5, <2>6
  <1>14. CASE index = 1 /\ op.kind = "id"
    <2>1. out' = <<>> /\ index' = 2 /\ pc' = "access"
      <3>1. Command = Read("IDR")
        BY <1>3, <1>14, NextCommand DEF Transfers
      <3>2. ~Keeps(Command)
        BY <1>8, <3>1 DEF Keeps
      <3>3. out = <<>>
        BY <1>14 DEF IInv, PortFollows
      <3>4. Len(Commands(op)) # 2
        BY <1>3, CommandsCount, Zenon
      <3> QED
        BY <1>14, <3>2, <3>3, <3>4
    <2>2. increment' = increment /\ increment = op.block /\ running'.kind = "id"
      BY <1>14, AcceptMeans DEF IInv, PortFollows, Transfers
    <2>3. running' # Nothing
      BY <2>2 DEF Nothing
    <2> QED
      BY <1>14, <2>1, <2>2, <2>3 DEF PortFollows, DoneIsDone, Transfers
  <1>15. CASE index = 2 /\ op.kind = "id"
    <2>1. Command = Read("RDBUFF")
      BY <1>3, <1>15, NextCommand DEF Transfers
    <2>2. out = <<>> /\ rdbuff = "id"
      BY <1>15 DEF IInv, PortFollows
    <2>3. out' = <<"id">> /\ pc' = "idle"
      <3>1. Keeps(Command)
        BY <1>8, <2>1 DEF Keeps
      <3> QED
        BY <1>3, <1>15, <2>2, <3>1, CommandsCount
    <2> QED
      BY <1>15, <2>3 DEF PortFollows, DoneIsDone
  <1> QED
    BY <1>3, <1>9, <1>10, <1>11, <1>12, <1>13, <1>14, <1>15, NextCommand, Zenon DEF Transfers

LEMMA SendCommandKeeps ==
  ASSUME IInv, SendCommand
  PROVE  IInv'
  <1> DEFINE c == Command
             Answered == ~Waits(c) /\ ~Refuses(c)
             GoesOn == /\ index' = index + 1
                       /\ out' = IF Keeps(Command) THEN Append(out, rdbuff) ELSE out
                       /\ pc' = IF index + 1 = Len(Commands(op)) THEN "idle" ELSE pc
                       /\ UNCHANGED <<loop, op, result, select_value, last>>
  <1>1. pc = "access" /\ (~AccessPort(c) \/ Bank(c.reg) = select_value)
    BY DEF SendCommand
  <1>2. \/ UNCHANGED Essence
        \/ Fail /\ result' # "OK" /\ (UNCHANGED port \/ (Answered /\ Accept(c)))
        \/ Answered /\ GoesOn /\ Accept(c)
        \/ Answered /\ GoesOn /\ c.write /\ SpoilWrite
    <2> HIDE DEF c
    <2>1. \/ UNCHANGED Essence
          \/ Fail /\ result' # "OK" /\ (UNCHANGED port \/ (Answered /\ Accept(c)))
          \/ Answered /\ GoesOn /\ Accept(c)
          \/ Answered /\ GoesOn /\ c.write /\ SpoilWrite
      BY <1>1 DEF SendCommand, c, Exchange, Failure, target, port, Essence
    <2> QED
      BY <2>1
  <1> HIDE DEF GoesOn
  <1>3. CASE UNCHANGED Essence
    BY <1>3, StutterKeeps
  <1>4. Answered =>
          /\ running = Nothing /\ sticky = {} /\ Moved = Sent
          /\ AccessPort(Command) => Bank(Command.reg) = select
    BY <1>1, AnsweredMeans
  <1>5. CASE Fail /\ result' # "OK" /\ UNCHANGED port
    <2>1. RunningIsSound' /\ tar' \in Int /\ UNCHANGED <<select, sticky, memory>>
      BY <1>5 DEF port, IInv, RunningIsSound, TypeOK
    <2> QED
      BY <1>1, <1>5, <2>1, FailKeeps
  <1>6. CASE Fail /\ result' # "OK" /\ Answered /\ Accept(c)
    BY <1>1, <1>4, <1>6, AcceptMeans, AcceptIsSound, FailKeeps
  <1>7. CASE Answered /\ GoesOn /\ Accept(c)
    BY <1>1, <1>4, <1>7, GoesOnKeeps DEF GoesOn
  <1>8. CASE Answered /\ GoesOn /\ c.write /\ SpoilWrite
    <2>1. /\ sticky' # {} /\ index' = index + 1
          /\ UNCHANGED <<loop, op, result, select_value, last, select, Transferring>>
      BY <1>8 DEF GoesOn, SpoilWrite, Transferring
    <2>2. pc' = "access" /\ index + 1 < Len(Commands(op)) /\ index \in Nat
      <3>1. \/ index = 0
            \/ index = 1 /\ Transfers(op)
            \/ index \in 2..(op.length + 1) /\ op.kind = "write"
        <4>1. \A reg : ~Read(reg).write
          BY DEF Read
        <4>2. TypeOK /\ Command.write
          BY <1>8 DEF IInv
        <4> QED
          BY <1>1, <4>1, <4>2, NextCommand, Zenon
      <3>2. CASE Transfers(op)
        <4>1. Len(Commands(op)) = op.length + 3 /\ op.length \in Nat \ {0} /\ index \in Nat
          BY <1>1, <3>2, TransferCommands, SentIsBounded DEF IInv, TypeOK
        <4>2. index <= op.length + 1
          BY <3>1, <4>1
        <4> QED
          BY <1>1, <1>8, <4>1, <4>2 DEF GoesOn
      <3>3. CASE op.kind = "id"
        <4>1. index = 0
          BY <3>1, <3>3 DEF Transfers
        <4>2. Len(Commands(op)) = 3
          BY <3>3, IdCommands
        <4> QED
          BY <1>1, <1>8, <4>1, <4>2 DEF GoesOn
      <3>4. Transfers(op) \/ op.kind = "id"
        BY <1>1 DEF IInv, TypeOK, OpIsSound, Transfers
      <3> QED
        BY <3>2, <3>3, <3>4
    <2>3. TypeOK'
      BY <1>1, <2>1, <2>2 DEF IInv, TypeOK, OpIsSound, Transfers, Transferring
    <2>4. RunningIsSound'
      BY <2>1 DEF IInv, RunningIsSound, Transferring
    <2>5. BankIsKnown'
      BY <1>1, <2>1, <2>2 DEF IInv, BankIsKnown, OnTheWayUp, Initialized
    <2>6. PortFollows' /\ DoneIsDone'
      BY <2>1, <2>2 DEF PortFollows, DoneIsDone
    <2> QED
      BY <2>3, <2>4, <2>5, <2>6 DEF IInv
  <1> QED
    BY <1>2, <1>3, <1>5, <1>6, <1>7, <1>8

-----------------------------------------------------------------------------
LEMMA OpHasCommands == OpIsSound /\ op.kind # "none" => Len(Commands(op)) > 0
  <1> SUFFICES ASSUME OpIsSound, op.kind # "none" PROVE Len(Commands(op)) > 0
    OBVIOUS
  <1>1. CASE Transfers(op)
    <2>1. Len(Commands(op)) = op.length + 3 /\ op.length \in Nat
      BY <1>1, TransferCommands DEF OpIsSound
    <2> QED
      BY <2>1
  <1>2. CASE op.kind = "id"
    <2>1. Len(Commands(op)) = 3
      BY <1>2, IdCommands
    <2> QED
      BY <2>1
  <1> QED
    BY <1>1, <1>2 DEF OpIsSound, Transfers

(* Every access that can be asked for begins soundly. *)
LEMMA CallsKeep ==
  ASSUME IInv, Calls
  PROVE  IInv'
  <1>1. ASSUME NEW o, Call(o), OpIsSound', o.kind # "none", o.kind = "id" => last
        PROVE  IInv'
    <2>1. op' = o
      BY <1>1 DEF Call
    <2>2. (OpIsSound /\ op.kind # "none" => Len(Commands(op)) > 0)'
      BY OpHasCommands, PTL
    <2>3. Len(Commands(o)) > 0
      BY <1>1, <2>1, <2>2 DEF Commands
    <2> QED
      BY <1>1, <2>3, CallKeeps
  <1>2. CASE CallRead
    <2>1. PICK a \in Addresses, n \in 1..MaxLength, b \in BOOLEAN :
            /\ a + n - 1 <= LastAddress /\ (~b => n = 1)
            /\ Call([kind |-> "read", addr |-> a, data |-> <<>>, length |-> n, block |-> b])
      BY <1>2 DEF CallRead
    <2> DEFINE o == [kind |-> "read", addr |-> a, data |-> <<>>, length |-> n, block |-> b]
    <2>2. /\ o.kind = "read" /\ o.addr = a /\ o.length = n /\ o.block = b
          /\ a \in Nat /\ n \in Nat \ {0}
      BY PortAssumption DEF Addresses
    <2>3. Call(o)
      BY <2>1
    <2> HIDE DEF o
    <2>4. op' = o
      BY <2>3 DEF Call
    <2>5. OpIsSound'
      BY <2>1, <2>2, <2>4 DEF OpIsSound, Transfers
    <2> QED
      BY <1>1, <2>2, <2>3, <2>5
  <1>3. CASE CallWrite
    <2>1. PICK a \in Addresses, n \in 1..MaxLength, b \in BOOLEAN : \E d \in [1..n -> Values] :
            /\ a + n - 1 <= LastAddress /\ (~b => n = 1)
            /\ Call([kind |-> "write", addr |-> a, data |-> d, length |-> n, block |-> b])
      BY <1>3 DEF CallWrite
    <2>2. PICK d \in [1..n -> Values] :
            /\ a + n - 1 <= LastAddress /\ (~b => n = 1)
            /\ Call([kind |-> "write", addr |-> a, data |-> d, length |-> n, block |-> b])
      BY <2>1
    <2> DEFINE o == [kind |-> "write", addr |-> a, data |-> d, length |-> n, block |-> b]
    <2>3. /\ o.kind = "write" /\ o.addr = a /\ o.length = n /\ o.block = b /\ o.data = d
          /\ a \in Nat /\ n \in Nat \ {0}
      BY PortAssumption DEF Addresses
    <2>4. Call(o)
      BY <2>2
    <2> HIDE DEF o
    <2>5. op' = o
      BY <2>4 DEF Call
    <2>6. OpIsSound'
      BY <2>2, <2>3, <2>5 DEF OpIsSound, Transfers
    <2> QED
      BY <1>1, <2>3, <2>4, <2>6
  <1>4. CASE CallReadId
    <2> DEFINE o == [kind |-> "id", addr |-> 0, data |-> <<>>, length |-> 1, block |-> FALSE]
    <2>1. last /\ Call(o)
      BY <1>4 DEF CallReadId
    <2>2. o.kind = "id" /\ o.block = FALSE
      OBVIOUS
    <2> HIDE DEF o
    <2>3. op' = o
      BY <2>1 DEF Call
    <2>4. OpIsSound'
      BY <2>2, <2>3 DEF OpIsSound, Transfers
    <2> QED
      BY <1>1, <2>1, <2>2, <2>4
  <1> QED
    BY <1>2, <1>3, <1>4, PowerOffKeeps DEF Calls

LEMMA InvariantNext == IInv /\ [Next]_vars => IInv'
  <1> SUFFICES ASSUME IInv, [Next]_vars PROVE IInv'
    OBVIOUS
  <1>1. CASE Initialization
    BY <1>1, NewTargetKeeps, InitializationKeeps, Zenon DEF Initialization
  <1>2. CASE Loops
    BY <1>2, LoopsKeep, Zenon DEF Loops
  <1>3. CASE Calls
    BY <1>3, CallsKeep, Zenon
  <1>4. CASE SelectBank
    BY <1>4, SelectBankKeeps, Zenon
  <1>5. CASE SendCommand
    BY <1>5, SendCommandKeeps, Zenon
  <1>6. CASE Port
    BY <1>6, RunAccessKeeps, SwitchPowerKeeps, Zenon DEF Port
  <1>7. CASE UNCHANGED vars
    BY <1>7, StutterKeeps DEF vars, target, port, Essence
  <1> QED
    BY <1>1, <1>2, <1>3, <1>4, <1>5, <1>6, <1>7 DEF Next

(* However commands and words are spoilt, what Target takes the port for   *)
(* is what the port is, as far as it may rely on it.                       *)
THEOREM InvariantHolds == Spec => []IInv
  BY InvariantInit, InvariantNext, PTL DEF Spec

(* select_ap_bank of serial_wire/target.cc writes SELECT only when the     *)
(* bank changes.  The bank it remembers is the port's whenever the port    *)
(* would answer an access: a SELECT that was lost was reported as such,    *)
(* and one whose word was spoilt has left WDATAERR behind it.              *)
THEOREM BankIsRemembered == Spec => []SelectAgrees
  <1>1. IInv => SelectAgrees
    BY DEF IInv, BankIsKnown, SelectAgrees
  <1> QED
    BY <1>1, InvariantHolds, PTL

(* ap_read_mem and read_ap_id return OK only with the words that were      *)
(* asked for: one reply behind the commands, none left out, none twice.    *)
THEOREM ReadsTellTheTruth == Spec => []ReadsAreTrue
  <1>1. IInv => ReadsAreTrue
    BY DEF IInv, DoneIsDone, Word, ReadsAreTrue
  <1> QED
    BY <1>1, InvariantHolds, PTL

(* ap_write_mem returns OK only when every word is in the board's memory,  *)
(* and no word, of a write that failed too, gets to another address than   *)
(* its own, whatever Target has begun since.                               *)
THEOREM WritesArriveOrFail == Spec => []WritesAreExact
  <1>1. IInv => WritesAreExact
    BY DEF IInv, DoneIsDone, Word, RunningIsSound, WritesAreExact, WritesArrive, WritesGoAsMeant
  <1> QED
    BY <1>1, InvariantHolds, PTL

=============================================================================
