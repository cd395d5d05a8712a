-------------------------- MODULE FlashTargetProofs --------------------------
(***************************************************************************)
(* What a session of flash_target can be relied on for, whatever the link  *)
(* and the flash do to it and however many pages the firmware has.         *)
(***************************************************************************)
EXTENDS FlashTarget, TLAPS

(* The steps between the unlocking of the flash and its locking. *)
Working ==
  {"ready", "erase_setup", "erase_start", "erasing", "erase_clear", "program_setup",
   "program", "poll", "acknowledge", "program_clear", "drain", "lock"}

(* The steps of a session before that. *)
Begun == {"idle", "read_build_time", "halt", "key1", "key2"}

TypeOK ==
  /\ page \in Nat /\ faults \in Nat /\ busy \in BOOLEAN /\ halted \in BOOLEAN
  /\ content \in [Pages -> {"old", "erased", "new", "torn"}]
  /\ cr \in [mode : {"none", "erase", "program"}, page : Nat]

(* The key sequence is begun with the flash locked, and ends before any    *)
(* other access.                                                           *)
KeysInTurn ==
  /\ lock # "jammed"
  /\ pc \in {"idle", "read_build_time", "halt", "key1"} => lock = "locked"
  /\ pc = "key2" => lock = "half"
  /\ pc \in Working => lock = "unlocked"

HaltedAtWork ==
  /\ pc \in {"key1", "key2"} \union Working => halted
  /\ busy => halted

(* Pages that the session is done with. *)
Done(n) == \A p \in Pages : p < n => content[p] = "new"

(* The page is as wanted, or an error flag tells of the only fault.        *)
PageIs(as) ==
  \/ content[page] = as /\ "error" \notin flags
  \/ "error" \in flags /\ faults = 1

(* How far a session has come that met at most one fault. *)
OnTheWay ==
  /\ pc \in Working \ {"drain", "lock"} => page \in Pages
  /\ pc \in Working \ {"poll"} => Done(page)
  /\ pc \in Begun \union {"ready", "erase_setup", "erase_start"} => "error" \notin flags
  /\ pc = "erase_start" => cr = [mode |-> "erase", page |-> page]
  /\ pc \in {"erasing", "erase_clear", "program_setup", "program"} => PageIs("erased")
  /\ pc = "program" => cr = [mode |-> "program", page |-> page]
  /\ pc = "poll" /\ success => Done(page) /\ PageIs("new")
  /\ pc \in {"acknowledge", "program_clear"} => content[page] = "new" /\ "error" \notin flags
  /\ pc \in {"drain", "lock"} => page = PageCount
  /\ pc = "finish" /\ success => Done(PageCount) /\ page = PageCount
  /\ reported = "ok" => pc = "idle" /\ Done(PageCount)

Progress == faults <= 1 => OnTheWay

IInv == TypeOK /\ KeysInTurn /\ HaltedAtWork /\ Progress

-----------------------------------------------------------------------------
(* Every action preserves the invariant.  A step that brings the number of *)
(* faults to one starts from a session without any.                        *)
LEMMA ConnectKeeps ==
  ASSUME IInv, Connect
  PROVE IInv'
  <1> USE PageAssumption
      DEF IInv, Access, Fault, NoFault, target, memory, host, Pages,
          Connect
  <1>1. TypeOK'
    BY DEF TypeOK
  <1>2. KeysInTurn'
    BY DEF KeysInTurn, Working
  <1>3. HaltedAtWork'
    BY DEF HaltedAtWork, Working, TypeOK
  <1>4. ASSUME faults' <= 1
        PROVE OnTheWay'
    <2>1. faults \in Nat /\ faults <= 1 /\ OnTheWay
      BY <1>4 DEF TypeOK, Progress
    <2> QED
      BY <1>4, <2>1 DEF OnTheWay, Done, PageIs, TypeOK, Begun, Working, KeysInTurn
  <1> QED
    BY <1>1, <1>2, <1>3, <1>4 DEF Progress

LEMMA ReadBuildTimeKeeps ==
  ASSUME IInv, ReadBuildTime
  PROVE IInv'
  <1> USE PageAssumption
      DEF IInv, Access, Fault, NoFault, target, memory, host, Pages,
          ReadBuildTime, Older
  <1>1. TypeOK'
    BY DEF TypeOK
  <1>2. KeysInTurn'
    BY DEF KeysInTurn, Working
  <1>3. HaltedAtWork'
    BY DEF HaltedAtWork, Working, TypeOK
  <1>4. ASSUME faults' <= 1
        PROVE OnTheWay'
    <2>1. faults \in Nat /\ faults <= 1 /\ OnTheWay
      BY <1>4 DEF TypeOK, Progress
    <2> QED
      BY <1>4, <2>1 DEF OnTheWay, Done, PageIs, TypeOK, Begun, Working, KeysInTurn
  <1> QED
    BY <1>1, <1>2, <1>3, <1>4 DEF Progress

LEMMA HaltKeeps ==
  ASSUME IInv, Halt
  PROVE IInv'
  <1> USE PageAssumption
      DEF IInv, Access, Fault, NoFault, target, memory, host, Pages,
          Halt
  <1>1. TypeOK'
    <2>1. halted' \in BOOLEAN
      BY DEF TypeOK
    <2>2. /\ page' = page /\ content' = content /\ cr' = cr /\ busy' = busy
          /\ faults' \in Nat
      BY DEF TypeOK
    <2> QED
      BY <2>1, <2>2 DEF TypeOK
  <1>2. KeysInTurn'
    BY DEF KeysInTurn, Working
  <1>3. HaltedAtWork'
    BY DEF HaltedAtWork, Working, TypeOK
  <1>4. ASSUME faults' <= 1
        PROVE OnTheWay'
    <2>1. faults \in Nat /\ faults <= 1 /\ OnTheWay
      BY <1>4 DEF TypeOK, Progress
    <2> QED
      BY <1>4, <2>1 DEF OnTheWay, Done, PageIs, TypeOK, Begun, Working, KeysInTurn
  <1> QED
    BY <1>1, <1>2, <1>3, <1>4 DEF Progress

LEMMA UnlockFlashKeeps ==
  ASSUME IInv, UnlockFlash
  PROVE IInv'
  <1> USE PageAssumption
      DEF IInv, Access, Fault, NoFault, target, memory, host, Pages,
          UnlockFlash, WriteKey
  <1>1. TypeOK'
    BY DEF TypeOK
  <1>2. KeysInTurn'
    BY DEF KeysInTurn, Working
  <1>3. HaltedAtWork'
    BY DEF HaltedAtWork, Working, TypeOK
  <1>4. ASSUME faults' <= 1
        PROVE OnTheWay'
    <2>1. faults \in Nat /\ faults <= 1 /\ OnTheWay
      BY <1>4 DEF TypeOK, Progress
    <2>2. page' = 0 \/ pc' \in {"key2", "finish"}
      OBVIOUS
    <2>3. pc' \in {"key2", "ready", "finish"} /\ (pc' = "finish" => ~success')
      OBVIOUS
    <2>4. pc' = "ready" => page' \in Pages' /\ Done(page)'
      BY <2>2 DEF Done
    <2>5. "error" \notin flags'
      BY <1>4, <2>1 DEF OnTheWay, Begun
    <2>6. reported' # "ok"
      BY <2>1 DEF OnTheWay
    <2> QED
      BY <2>1, <2>3, <2>4, <2>5, <2>6 DEF OnTheWay, Begun, Working
  <1> QED
    BY <1>1, <1>2, <1>3, <1>4 DEF Progress

LEMMA WaitWhileBusyKeeps ==
  ASSUME IInv, WaitWhileBusy
  PROVE IInv'
  <1> USE PageAssumption
      DEF IInv, Access, Fault, NoFault, target, memory, host, Pages,
          WaitWhileBusy, Wait
  <1>1. TypeOK'
    BY DEF TypeOK
  <1>2. KeysInTurn'
    BY DEF KeysInTurn, Working
  <1>3. HaltedAtWork'
    BY DEF HaltedAtWork, Working, TypeOK
  <1>4. ASSUME faults' <= 1
        PROVE OnTheWay'
    <2>1. faults \in Nat /\ faults <= 1 /\ OnTheWay
      BY <1>4 DEF TypeOK, Progress
    <2> QED
      BY <1>4, <2>1 DEF OnTheWay, Done, PageIs, TypeOK, Begun, Working, KeysInTurn
  <1> QED
    BY <1>1, <1>2, <1>3, <1>4 DEF Progress

LEMMA UpdateControlKeeps ==
  ASSUME IInv, UpdateControl
  PROVE IInv'
  <1> USE PageAssumption
      DEF IInv, Access, Fault, NoFault, target, memory, host, Pages,
          UpdateControl, Update
  <1>1. TypeOK'
    BY DEF TypeOK
  <1>2. KeysInTurn'
    BY DEF KeysInTurn, Working
  <1>3. HaltedAtWork'
    BY DEF HaltedAtWork, Working, TypeOK
  <1>4. ASSUME faults' <= 1
        PROVE OnTheWay'
    <2>1. faults \in Nat /\ faults <= 1 /\ OnTheWay
      BY <1>4 DEF TypeOK, Progress
    <2> QED
      BY <1>4, <2>1 DEF OnTheWay, Done, PageIs, TypeOK, Begun, Working, KeysInTurn
  <1> QED
    BY <1>1, <1>2, <1>3, <1>4 DEF Progress

LEMMA StartEraseKeeps ==
  ASSUME IInv, StartErase
  PROVE IInv'
  <1> USE PageAssumption
      DEF IInv, Access, Fault, NoFault, target, memory, host, Pages,
          StartErase, Erase, BuildPage
  <1>1. TypeOK'
    <2>1. /\ page' = page /\ cr' = cr /\ halted' = halted
          /\ faults' \in Nat
      BY DEF TypeOK
    <2>2. busy' \in BOOLEAN
      BY DEF TypeOK
    <2>3. content' \in [Pages -> {"old", "erased", "new", "torn"}]
      BY DEF TypeOK
    <2> QED
      BY <2>1, <2>2, <2>3 DEF TypeOK
  <1>2. KeysInTurn'
    BY DEF KeysInTurn, Working
  <1>3. HaltedAtWork'
    BY DEF HaltedAtWork, Working, TypeOK
  <1>4. ASSUME faults' <= 1
        PROVE OnTheWay'
    <2>1. faults \in Nat /\ faults <= 1 /\ OnTheWay
      BY <1>4 DEF TypeOK, Progress
    <2> QED
      BY <1>4, <2>1 DEF OnTheWay, Done, PageIs, TypeOK, Begun, Working, KeysInTurn
  <1> QED
    BY <1>1, <1>2, <1>3, <1>4 DEF Progress

LEMMA ProgramBatchKeeps ==
  ASSUME IInv, ProgramBatch
  PROVE IInv'
  <1> USE PageAssumption
      DEF IInv, Access, Fault, NoFault, target, memory, host, Pages,
          ProgramBatch, Program, Ready, Written, BuildPage
  <1>1. TypeOK'
    <2>1. /\ page' = page /\ cr' = cr /\ halted' = halted
          /\ faults' \in Nat
      BY DEF TypeOK
    <2>2. busy' \in BOOLEAN
      BY DEF TypeOK
    <2>3. content' \in [Pages -> {"old", "erased", "new", "torn"}]
      BY DEF TypeOK
    <2> QED
      BY <2>1, <2>2, <2>3 DEF TypeOK
  <1>2. KeysInTurn'
    BY DEF KeysInTurn, Working
  <1>3. HaltedAtWork'
    BY DEF HaltedAtWork, Working, TypeOK
  <1>4. ASSUME faults' <= 1
        PROVE OnTheWay'
    <2>1. faults \in Nat /\ faults <= 1 /\ OnTheWay
      BY <1>4 DEF TypeOK, Progress
    <2> QED
      BY <1>4, <2>1 DEF OnTheWay, Done, PageIs, TypeOK, Begun, Working, KeysInTurn
  <1> QED
    BY <1>1, <1>2, <1>3, <1>4 DEF Progress

LEMMA PollKeeps ==
  ASSUME IInv, Poll
  PROVE IInv'
  <1> USE PageAssumption
      DEF IInv, Access, Fault, NoFault, target, memory, host, Pages,
          Poll
  <1>1. TypeOK'
    BY DEF TypeOK
  <1>2. KeysInTurn'
    BY DEF KeysInTurn, Working
  <1>3. HaltedAtWork'
    BY DEF HaltedAtWork, Working, TypeOK
  <1>4. ASSUME faults' <= 1
        PROVE OnTheWay'
    <2>1. faults \in Nat /\ faults <= 1 /\ OnTheWay
      BY <1>4 DEF TypeOK, Progress
    <2>2. page \in Pages /\ pc = "poll" /\ reported # "ok"
      BY <2>1 DEF OnTheWay, Working
    <2>3. pc' \in {"poll", "acknowledge", "program_clear", "finish"}
      OBVIOUS
    <2>4. (pc' = "finish" => ~success') /\ (pc' # "finish" => success' \/ pc' = "poll")
      OBVIOUS
    <2>5. ASSUME success'
          PROVE success /\ Done(page) /\ PageIs("new")
      BY <2>1, <2>5 DEF OnTheWay
    <2>6. ASSUME success', pc' # "poll"
          PROVE content[page] = "new" /\ "error" \notin flags
      <3>1. "error" \notin status' /\ PageIs("new")
        BY <2>5, <2>6
      <3>2. CASE status' = flags \union (IF busy THEN {"busy"} ELSE {}) /\ NoFault
        BY <3>1, <3>2 DEF PageIs
      <3>3. CASE status' = status /\ Fault
        <4>1. faults # 1
          BY <1>4, <2>1, <3>3
        <4> QED
          BY <3>1, <4>1 DEF PageIs
      <3> QED
        BY <3>2, <3>3
    <2>7. page' = page /\ content' = content /\ flags' = flags /\ reported' = reported
      OBVIOUS
    <2>8. CASE pc' = "poll"
      <3>1. success' => Done(page)' /\ PageIs("new")'
        <4> SUFFICES ASSUME success'
                     PROVE Done(page)' /\ PageIs("new")'
          OBVIOUS
        <4>1. Done(page) /\ PageIs("new")
          BY <2>5
        <4>2. "error" \in flags => faults' = 1
          BY <1>4, <2>1, <4>1 DEF PageIs
        <4> QED
          BY <2>7, <4>1, <4>2 DEF Done, PageIs
      <3> QED
        BY <2>2, <2>7, <2>8, <3>1 DEF OnTheWay, Begun, Working
    <2>9. CASE pc' \in {"acknowledge", "program_clear"}
      <3>1. Done(page) /\ content[page] = "new" /\ "error" \notin flags
        BY <2>4, <2>5, <2>6, <2>9
      <3>2. Done(page)'
        BY <2>7, <3>1 DEF Done
      <3> QED
        BY <2>2, <2>7, <2>9, <3>1, <3>2 DEF OnTheWay, Begun, Working
    <2>10. CASE pc' = "finish"
      BY <2>2, <2>4, <2>7, <2>10 DEF OnTheWay, Begun, Working
    <2> QED
      BY <2>3, <2>8, <2>9, <2>10
  <1> QED
    BY <1>1, <1>2, <1>3, <1>4 DEF Progress

LEMMA AcknowledgeEndKeeps ==
  ASSUME IInv, AcknowledgeEnd
  PROVE IInv'
  <1> USE PageAssumption
      DEF IInv, Access, Fault, NoFault, target, memory, host, Pages,
          AcknowledgeEnd
  <1>1. TypeOK'
    BY DEF TypeOK
  <1>2. KeysInTurn'
    BY DEF KeysInTurn, Working
  <1>3. HaltedAtWork'
    BY DEF HaltedAtWork, Working, TypeOK
  <1>4. ASSUME faults' <= 1
        PROVE OnTheWay'
    <2>1. faults \in Nat /\ faults <= 1 /\ OnTheWay
      BY <1>4 DEF TypeOK, Progress
    <2> QED
      BY <1>4, <2>1 DEF OnTheWay, Done, PageIs, TypeOK, Begun, Working, KeysInTurn
  <1> QED
    BY <1>1, <1>2, <1>3, <1>4 DEF Progress

LEMMA NextPageKeeps ==
  ASSUME IInv, NextPage
  PROVE IInv'
  <1> USE PageAssumption
      DEF IInv, Access, Fault, NoFault, target, memory, host, Pages,
          NextPage, NoOperation
  <1>1. TypeOK'
    BY DEF TypeOK
  <1>2. KeysInTurn'
    BY DEF KeysInTurn, Working
  <1>3. HaltedAtWork'
    <2>1. halted /\ halted' = halted /\ busy' = busy
      BY DEF HaltedAtWork, Working
    <2> QED
      BY <2>1 DEF HaltedAtWork
  <1>4. ASSUME faults' <= 1
        PROVE OnTheWay'
    <2>1. faults \in Nat /\ faults <= 1 /\ OnTheWay
      BY <1>4 DEF TypeOK, Progress
    <2> QED
      BY <1>4, <2>1 DEF OnTheWay, Done, PageIs, TypeOK, Begun, Working, KeysInTurn
  <1> QED
    BY <1>1, <1>2, <1>3, <1>4 DEF Progress

LEMMA LockFlashKeeps ==
  ASSUME IInv, LockFlash
  PROVE IInv'
  <1> USE PageAssumption
      DEF IInv, Access, Fault, NoFault, target, memory, host, Pages,
          LockFlash
  <1>1. TypeOK'
    BY DEF TypeOK
  <1>2. KeysInTurn'
    BY DEF KeysInTurn, Working
  <1>3. HaltedAtWork'
    BY DEF HaltedAtWork, Working, TypeOK
  <1>4. ASSUME faults' <= 1
        PROVE OnTheWay'
    <2>1. faults \in Nat /\ faults <= 1 /\ OnTheWay
      BY <1>4 DEF TypeOK, Progress
    <2> QED
      BY <1>4, <2>1 DEF OnTheWay, Done, PageIs, TypeOK, Begun, Working, KeysInTurn
  <1> QED
    BY <1>1, <1>2, <1>3, <1>4 DEF Progress

LEMMA FinishKeeps ==
  ASSUME IInv, Finish
  PROVE IInv'
  <1> USE PageAssumption
      DEF IInv, Access, Fault, NoFault, target, memory, host, Pages,
          Finish, Written, NoOperation, BuildPage
  <1>1. TypeOK'
    BY DEF TypeOK
  <1>2. KeysInTurn'
    BY DEF KeysInTurn, Working
  <1>3. HaltedAtWork'
    BY DEF HaltedAtWork, Working, TypeOK
  <1>4. ASSUME faults' <= 1
        PROVE OnTheWay'
    <2>1. faults \in Nat /\ faults <= 1 /\ OnTheWay
      BY <1>4 DEF TypeOK, Progress
    <2> QED
      BY <1>4, <2>1 DEF OnTheWay, Done, PageIs, TypeOK, Begun, Working, KeysInTurn
  <1> QED
    BY <1>1, <1>2, <1>3, <1>4 DEF Progress

LEMMA FlashDoneKeeps ==
  ASSUME IInv, FlashDone
  PROVE IInv'
  <1> USE PageAssumption
      DEF IInv, Access, Fault, NoFault, target, memory, host, Pages,
          FlashDone
  <1>1. TypeOK'
    BY DEF TypeOK
  <1>2. KeysInTurn'
    BY DEF KeysInTurn, Working
  <1>3. HaltedAtWork'
    BY DEF HaltedAtWork, Working, TypeOK
  <1>4. ASSUME faults' <= 1
        PROVE OnTheWay'
    <2>1. faults \in Nat /\ faults <= 1 /\ OnTheWay
      BY <1>4 DEF TypeOK, Progress
    <2> QED
      BY <1>4, <2>1 DEF OnTheWay, Done, PageIs, TypeOK, Begun, Working, KeysInTurn
  <1> QED
    BY <1>1, <1>2, <1>3, <1>4 DEF Progress

LEMMA InvariantInit ==
  Init => IInv
  <1> SUFFICES ASSUME Init
               PROVE IInv
    OBVIOUS
  <1> USE PageAssumption DEF Init
  <1>1. TypeOK
    BY DEF TypeOK, NoOperation
  <1>2. KeysInTurn /\ HaltedAtWork
    BY DEF KeysInTurn, HaltedAtWork, Working
  <1>3. Progress
    BY DEF Progress, OnTheWay, Begun, Working
  <1> QED
    BY <1>1, <1>2, <1>3 DEF IInv

LEMMA InvariantNext ==
  IInv /\ [Next]_vars => IInv'
  <1> SUFFICES ASSUME IInv, [Next]_vars
               PROVE IInv'
    OBVIOUS
  <1>1. CASE Task
    BY <1>1, ConnectKeeps, ReadBuildTimeKeeps, HaltKeeps, UnlockFlashKeeps,
       WaitWhileBusyKeeps, UpdateControlKeeps, StartEraseKeeps, ProgramBatchKeeps,
       PollKeeps, AcknowledgeEndKeeps, NextPageKeeps, LockFlashKeeps, FinishKeeps
       DEF Task
  <1>2. CASE FlashDone
    BY <1>2, FlashDoneKeeps
  <1>3. CASE UNCHANGED vars
    BY <1>3 DEF vars, host, target, memory, IInv, TypeOK, KeysInTurn, HaltedAtWork,
                Progress, OnTheWay, PageIs, Done, Pages
  <1> QED
    BY <1>1, <1>2, <1>3 DEF Next

(* IInv, the inductive invariant above, holds in every behaviour: the      *)
(* flash is unlocked and the core halted in the steps that need it, and a  *)
(* session with at most one fault has written the pages it says it has.    *)
THEOREM InvariantHolds == Spec => []IInv
  <1> QED
    BY InvariantInit, InvariantNext, PTL DEF Spec

(* No run of sessions, complete or broken off anywhere, jams the flash.    *)
THEOREM KeysAreWrittenInTurn == Spec => []NeverJammed
  <1>1. IInv => NeverJammed
    BY DEF IInv, KeysInTurn, NeverJammed
  <1> QED
    BY <1>1, InvariantHolds, PTL

(* Whatever the link and the flash do, a page or the stamp changes only    *)
(* while the core of the target is halted.                                 *)
THEOREM CoreIsHalted == Spec => NeverUnderRunningCode
  <1>1. ASSUME IInv, Next, memory' # memory
        PROVE halted
    <2>1. StartErase \/ ProgramBatch \/ (Finish /\ busy)
      BY <1>1 DEF Next, Task, Connect, ReadBuildTime, Halt, UnlockFlash, WriteKey,
                  WaitWhileBusy, Wait, UpdateControl, Update, Poll, AcknowledgeEnd,
                  NextPage, LockFlash, Finish, FlashDone, Access, target, memory
    <2> QED
      BY <1>1, <2>1 DEF IInv, HaltedAtWork, Working, StartErase, ProgramBatch
  <1>2. IInv /\ [Next]_vars => [memory' # memory => halted]_vars
    BY <1>1
  <1> QED
    BY <1>2, InvariantHolds, PTL DEF Spec, NeverUnderRunningCode

(* However many pages the firmware has, and wherever in a session the      *)
(* fault comes, one fault cannot make an incomplete flash look complete.   *)
THEOREM SuccessIsTrue == Spec => []OneFaultIsNoticed
  <1>1. IInv => OneFaultIsNoticed
    BY PageAssumption
       DEF IInv, TypeOK, Progress, OnTheWay, Done, Pages, OneFaultIsNoticed
  <1> QED
    BY <1>1, InvariantHolds, PTL

=============================================================================
