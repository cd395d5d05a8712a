---------------------------- MODULE FlashTarget ----------------------------
(***************************************************************************)
(* The task that reflashes another board over serial wire: flash_target    *)
(* of bringup/flash_target.h with the operations of Flash it calls.        *)
(*                                                                         *)
(* One action is one access to the target's memory (a read-modify-write of *)
(* FLASH_CR counts as one), which the debug link may lose: the access then *)
(* reports failure, and the target may have seen it or not.  An access     *)
(* that reports success took effect (DebugPort).  The target's flash       *)
(* controller is external and does what the code relies on.                *)
(***************************************************************************)
EXTENDS Naturals

CONSTANTS
  PageCount,  \* firmware_size_pages
  MaxFaults   \* bound: accesses the link loses and operations the flash spoils

ASSUME PageAssumption == PageCount \in Nat \ {0} /\ MaxFaults \in Nat

Pages == 0..(PageCount - 1)

(* The linker puts .build_time next to the vector table. *)
BuildPage == 0

VARIABLES
  pc,        \* the access that comes next
  page,      \* current_page
  success,   \* the Result carried along
  status,    \* flash_operation_status, as last read (a global)
  reported,  \* what the LED shows at the end of a session
  lock,      \* target: how far the key sequence of FLASH_KEYR has come
  cr,        \* target: FLASH_CR, the operation selected and its page
  flags,     \* target: FLASH_SR, end of operation and any of the error flags
  busy,      \* target: FLASH_SR_BSY
  eopie,     \* target: FLASH_CR_EOPIE, as its own firmware left it
  halted,    \* target: the core
  content,   \* target: what each page holds
  stamp,     \* target: the time stamp at BUILD_TIME_ADDR
  faults     \* accesses and operations that went wrong

host   == <<pc, page, success, status, reported>>
memory == <<content, stamp>>
target == <<lock, cr, flags, busy, eopie, halted, memory>>
vars   == <<host, target, faults>>

NoOperation == [mode |-> "none", page |-> 0]

Init ==
  /\ pc = "idle" /\ page = 0 /\ success = TRUE /\ status = {} /\ reported = "none"
  /\ lock = "locked" /\ cr = NoOperation
  /\ flags = {} /\ busy = FALSE /\ eopie = FALSE /\ halted = FALSE
  /\ content = [p \in Pages |-> "old"] /\ stamp = "old"
  /\ faults = 0

Fault == faults < MaxFaults /\ faults' = faults + 1
NoFault == faults' = faults

(* An access with an effect on the target, the step that follows it and    *)
(* the one that follows its failure.                                       *)
Access(effect, next, otherwise) ==
  /\ UNCHANGED <<status, reported>>
  /\ \/ effect /\ NoFault /\ success' = TRUE /\ pc' = next
     \/ (effect \/ UNCHANGED target) /\ Fault /\ success' = FALSE /\ pc' = otherwise

-----------------------------------------------------------------------------
(* Target's constructor: the link is up and the debug domain powered. *)
Connect ==
  /\ pc = "idle"
  /\ \/ pc' = "read_build_time" /\ NoFault
     \/ pc' = "idle" /\ Fault
  /\ success' = TRUE /\ reported' = "none"
  /\ UNCHANGED <<page, status, target>>

(* Fault: the stamp is compared without a sign, so an erased one is new. *)
OlderUnsigned == stamp = "old"

(* The stamp is signed: an erased one, all ones, is -1 and older than any. *)
Older == stamp \in {"old", "erased"}

(* A session that ends here ends without a reset of the target. *)
ReadBuildTime ==
  /\ pc = "read_build_time"
  /\ Access(UNCHANGED target, IF Older THEN "halt" ELSE "idle", "idle")
  /\ UNCHANGED page

(* Fault: the session goes on although the halt failed. *)
HaltOrNot ==
  /\ pc = "halt"
  /\ Access(/\ halted' = TRUE /\ eopie' \in BOOLEAN
            /\ UNCHANGED <<lock, cr, flags, busy, memory>>,
            "key1", "key1")
  /\ UNCHANGED page

Halt ==
  /\ pc = "halt"
  /\ Access(/\ halted' = TRUE /\ eopie' \in BOOLEAN
            /\ UNCHANGED <<lock, cr, flags, busy, memory>>,
            "key1", "finish")
  /\ UNCHANGED page

(* The flash unlocks for KEY1 followed by KEY2; anything else jams it. *)
WriteKey(expected, opened) ==
  /\ lock' = IF lock = expected THEN opened ELSE "jammed"
  /\ UNCHANGED <<cr, flags, busy, eopie, halted, memory>>

UnlockFlash ==
  \/ /\ pc = "key1"
     /\ Access(WriteKey("locked", "half"), "key2", "finish")
     /\ UNCHANGED page
  \/ /\ pc = "key2"
     /\ Access(WriteKey("half", "unlocked"), "ready", "finish")
     /\ page' = 0

(* One read of the status by wait_while_busy. *)
Wait(step, next) ==
  /\ pc = step
  /\ Access(UNCHANGED target, IF busy THEN step ELSE next, "finish")
  /\ UNCHANGED page

(* Before and after an erase and at the end. *)
WaitWhileBusy ==
  Wait("ready", "erase_setup") \/ Wait("erasing", "erase_clear") \/ Wait("drain", "lock")

(* A read-modify-write of FLASH_CR; the bus stalls while the flash works. *)
Update(step, mode, next) ==
  /\ pc = step /\ ~busy
  /\ Access(/\ cr' = IF lock = "unlocked" THEN [mode |-> mode, page |-> page] ELSE cr
            /\ UNCHANGED <<lock, flags, busy, eopie, halted, memory>>,
            next, "finish")
  /\ UNCHANGED page

UpdateControl ==
  \/ Update("erase_setup", "erase", "erase_start")
  \/ Update("erase_clear", "none", "program_setup")
  \/ Update("program_setup", "program", "program")

(* The flash erases the page that FLASH_CR names.  An erase that goes      *)
(* wrong leaves an error flag, which erase_page_unlocked does not look at. *)
Erase ==
  /\ cr.mode = "erase" /\ busy' = TRUE /\ flags' = flags
  /\ content' = [content EXCEPT ![cr.page] = "erased"]
  /\ stamp' = IF cr.page = BuildPage THEN "erased" ELSE stamp

StartErase ==
  /\ pc = "erase_start"
  /\ \/ Access(Erase /\ UNCHANGED <<lock, cr, eopie, halted>>, "erasing", "finish")
     \/ /\ Fault /\ flags' = flags \union {"error"}
        /\ pc' = "erasing"
        /\ UNCHANGED <<success, status, reported, lock, cr, busy, eopie, halted, memory>>
  /\ UNCHANGED page

-----------------------------------------------------------------------------
(* What becomes of the page when its words arrive: all of it is written;   *)
(* or nothing, because an error is pending or the page was not erased; or  *)
(* the link is lost, or the flash fails, half way.                         *)
Ready ==
  "error" \notin flags /\ cr.mode = "program" /\ content[page] = "erased"

Written(as, stamps) ==
  /\ content' = [content EXCEPT ![page] = as]
  /\ stamp' \in IF page = BuildPage THEN stamps ELSE {stamp}

Program ==
  /\ busy' = TRUE
  /\ IF Ready
     THEN /\ Written("new", {"new"})
          /\ flags' = IF eopie THEN flags \union {"eop"} ELSE flags
     ELSE flags' = flags \union {"error"} /\ UNCHANGED memory

ProgramBatch ==
  /\ pc = "program"
  /\ pc' = "poll"
  /\ UNCHANGED <<page, status, reported, lock, cr, eopie, halted>>
  /\ \/ Program /\ NoFault /\ success' = TRUE
     \/ /\ Fault /\ success' = FALSE
        /\ \/ Program
           \/ UNCHANGED <<busy, flags, memory>>
           \/ Ready /\ Written("torn", {"erased", "new"}) /\ UNCHANGED <<busy, flags>>
     \/ /\ Fault /\ success' = TRUE
        /\ Ready /\ Written("torn", {"erased", "new"})
        /\ flags' = flags \union {"error"} /\ busy' = TRUE

(* Fault: the loop trusts the write and does not look at the flags. *)
PollOnlyBusy ==
  /\ pc = "poll"
  /\ status' = (IF busy THEN {"busy"} ELSE {})
  /\ pc' = IF busy THEN "poll" ELSE IF success THEN "program_clear" ELSE "finish"
  /\ NoFault
  /\ UNCHANGED <<page, success, reported, target>>

(* Fault: the loop waits for the end-of-operation flag, which the flash    *)
(* raises only if EOPIE is set.                                            *)
PollForEnd ==
  /\ pc = "poll"
  /\ status' = flags /\ NoFault
  /\ pc' = IF "error" \in flags THEN "finish"
           ELSE IF "eop" \in flags THEN "acknowledge" ELSE "poll"
  /\ success' = (success /\ "error" \notin flags)
  /\ UNCHANGED <<page, reported, target>>

(* The status is read until it is not busy.  A read that fails is ignored  *)
(* and leaves the status of an earlier one.                                *)
Poll ==
  /\ pc = "poll"
  /\ \/ status' = flags \union (IF busy THEN {"busy"} ELSE {}) /\ NoFault
     \/ status' = status /\ Fault
  /\ success' = (success /\ ("busy" \in status' \/ "error" \notin status'))
  /\ pc' = IF "busy" \in status' THEN "poll"
           ELSE IF ~success' THEN "finish"
           ELSE IF "eop" \in status' THEN "acknowledge" ELSE "program_clear"
  /\ UNCHANGED <<page, reported, target>>

(* All flags are written back as ones, to clear them; the variable keeps   *)
(* the ones.                                                               *)
AcknowledgeEnd ==
  /\ pc = "acknowledge"
  /\ status' = {"eop", "error"}
  /\ \/ flags' = {} /\ NoFault /\ success' = TRUE /\ pc' = "program_clear"
     \/ flags' \in {flags, {}} /\ Fault /\ success' = FALSE /\ pc' = "finish"
  /\ UNCHANGED <<page, reported, lock, cr, busy, eopie, halted, memory>>

NextPage ==
  /\ pc = "program_clear" /\ ~busy
  /\ Access(/\ cr' = NoOperation
            /\ UNCHANGED <<lock, flags, busy, eopie, halted, memory>>,
            IF page + 1 < PageCount THEN "ready" ELSE "drain", "finish")
  /\ page' = IF success' THEN page + 1 ELSE page

LockFlash ==
  /\ pc = "lock"
  /\ Access(/\ lock' = "locked"
            /\ UNCHANGED <<cr, flags, busy, eopie, halted, memory>>,
            "finish", "finish")
  /\ UNCHANGED page

(* Fault: a session that failed ends without a reset. *)
FinishWithoutReset ==
  /\ pc = "finish"
  /\ pc' = "idle"
  /\ reported' = IF success THEN "ok" ELSE "failed"
  /\ UNCHANGED <<page, success, status, target, faults>>

(* disable_debug and power_off, whatever comes of them; then the reset     *)
(* line, which needs no link.  A page being worked on is lost.             *)
Finish ==
  /\ pc = "finish"
  /\ pc' = "idle"
  /\ reported' = IF success THEN "ok" ELSE "failed"
  /\ lock' = "locked" /\ cr' = NoOperation /\ flags' = {} /\ busy' = FALSE
  /\ eopie' = FALSE /\ halted' = FALSE
  /\ \/ UNCHANGED memory
     \/ busy /\ page \in Pages /\ Written("torn", {stamp, "erased"})
  /\ UNCHANGED <<page, success, status, faults>>

FlashDone ==
  /\ busy /\ busy' = FALSE
  /\ UNCHANGED <<host, lock, cr, flags, eopie, halted, memory, faults>>

-----------------------------------------------------------------------------
Task ==
  \/ Connect \/ ReadBuildTime \/ Halt \/ UnlockFlash
  \/ WaitWhileBusy \/ UpdateControl \/ StartErase \/ ProgramBatch
  \/ Poll \/ AcknowledgeEnd \/ NextPage \/ LockFlash \/ Finish

Next == Task \/ FlashDone

Spec == Init /\ [][Next]_vars

(* The task is resumed every minute and its loops go round; the flash      *)
(* finishes what it began.                                                 *)
FairSpec == Spec /\ WF_vars(Task) /\ WF_vars(FlashDone)

-----------------------------------------------------------------------------
(* However a session ended, the next one finds the flash locked: the key   *)
(* sequence is never begun twice, which would jam the flash.               *)
NeverJammed == lock # "jammed"

(* The target's flash changes only while its core is halted, so that no    *)
(* code runs from a page that is being replaced.                           *)
NeverUnderRunningCode == [][memory' # memory => halted]_vars

(* No single fault, of the link or of the flash, makes flash_target blink   *)
(* for success although a page of the firmware was not written.  Two can:  *)
(* a batch that fails, and the lost read of the status that would tell.    *)
OneFaultIsNoticed ==
  reported = "ok" /\ faults <= 1 => \A p \in Pages : content[p] = "new"

(* "Build timestamp for version detection" (linker script): a target with  *)
(* the new time stamp holds the new firmware.                              *)
VersionIsDetected ==
  pc = "idle" /\ stamp = "new" => \A p \in Pages : content[p] = "new"

(* Once the link works, a target whose time stamp is old, or was erased by *)
(* an interrupted session, gets the new one.                               *)
EventuallyStamped == <>[](stamp = "new")

(* A session that was begun ends, however often the status is read as busy *)
(* before a read fails.                                                    *)
SessionsEnd == pc # "idle" ~> pc = "idle"

=============================================================================
