----------------------------- MODULE WholeFlash -----------------------------
(***************************************************************************)
(* The operations of serial_wire/flash.cc that no task calls yet.  A       *)
(* caller may call them in any order, after a failure too, and reset the   *)
(* target whenever none is under way.  As in FlashTarget one action is one *)
(* access, which the link may lose; the flash controller is external.      *)
(* ap_read_mem and ap_write_mem set CSW and TAR before the data each time, *)
(* so that no access depends on the increment that a block left on.        *)
(***************************************************************************)
EXTENDS Naturals, Sequences

CONSTANTS
  PageCount,   \* pages of the target's flash
  PageRows,    \* batches of 64 words in a page: 8
  LinkFaults   \* bound on the accesses the link loses

VARIABLES
  operation, argument,  \* what was called last: the page, or the number of pages
  step,                 \* how far its Script has come; 0 when it has returned
  page, batch,          \* current_page and i
  success,              \* the Result carried along
  status,               \* flash_operation_status
  result,               \* what the call returned
  before,               \* what the flash held when it was called
  lock, cr, selected, flags, busy, eopie, rows,   \* the target
  lost                  \* accesses lost so far

call   == <<operation, argument, before>>
loops  == <<page, batch>>
target == <<lock, cr, selected, flags, busy, eopie, rows>>
vars   == <<call, step, loops, success, status, result, target, lost>>

Pages == 0..(PageCount - 1)
Rows == 0..(PageCount * PageRows - 1)
Old == PageCount * PageRows    \* what a row holds that holds no row of a source
Erased == Old + 1
PageOf(row) == row \div PageRows

(* The loop of write_entire_flash divides the size of a page in bytes by   *)
(* 64 words: it goes four times as far as the page.                        *)
Batches == 4 * PageRows

(* What each operation does when all goes well. *)
Script(op) ==
  CASE op = "mass_erase" ->
         <<"key1", "key2", "wait", "mer1", "start", "wait", "clear", "lock">>
    [] op = "erase_page" ->
         <<"key1", "key2", "wait", "per", "start", "wait", "clear", "lock">>
    [] op = "write_entire_flash" ->
         <<"key1", "key2", "wait", "mer1", "start", "wait", "clear",
           "wait", "fast", "batch", "poll", "acknowledge", "stop", "wait", "lock">>

Operations == {"mass_erase", "erase_page", "write_entire_flash"}

Doing(what) == step # 0 /\ Script(operation)[step] = what
Fast == 9    \* where write_entire_flash begins a page, after the wait,
Batch == 10  \* and a batch

Init ==
  /\ operation = "mass_erase" /\ argument = 0 /\ before = [r \in Rows |-> Old]
  /\ step = 0 /\ page = 0 /\ batch = 0
  /\ success = TRUE /\ status = {} /\ result = "none"
  /\ lock = "locked" /\ cr = {} /\ selected = 0 /\ flags = {} /\ busy = FALSE
  /\ eopie = FALSE /\ rows = before
  /\ lost = 0

Lose == lost < LinkFaults /\ lost' = lost + 1
Keep == lost' = lost

Return(ok) ==
  /\ step' = 0
  /\ result' = IF ok THEN "ok" ELSE "failed"
  /\ success' = ok

GoTo(s) ==
  IF s > Len(Script(operation)) THEN Return(TRUE)
  ELSE step' = s /\ success' = TRUE /\ UNCHANGED result

(* An access takes place, or is lost, having arrived or not: then the      *)
(* operation returns at once, without locking the flash.                   *)
AccessTo(effect, s) ==
  /\ UNCHANGED <<call, status>>
  /\ \/ effect /\ Keep /\ GoTo(s)
     \/ (effect \/ UNCHANGED target) /\ Lose /\ Return(FALSE)

Access(effect) == AccessTo(effect, step + 1) /\ UNCHANGED loops

-----------------------------------------------------------------------------
Call(op, arg) ==
  /\ step = 0
  /\ operation' = op /\ argument' = arg /\ before' = rows
  /\ step' = 1 /\ page' = 0 /\ batch' = 0 /\ success' = TRUE /\ result' = "none"
  /\ UNCHANGED <<status, target, lost>>

(* The reset line; EOPIE is whatever the target's own firmware makes it.   *)
Reset ==
  /\ step = 0 /\ result # "none"
  /\ result' = "none"
  /\ lock' = "locked" /\ cr' = {} /\ flags' = {} /\ busy' = FALSE /\ eopie' \in BOOLEAN
  /\ UNCHANGED <<call, step, loops, success, status, selected, rows, lost>>

(* Fault: the second key is not checked. *)
KeyUnchecked(key, expected, opened) ==
  /\ Doing(key)
  /\ \/ /\ lock' = (IF lock = expected THEN opened ELSE "jammed") /\ Keep
        /\ UNCHANGED <<cr, selected, flags, busy, eopie, rows>>
     \/ UNCHANGED target /\ Lose
  /\ GoTo(step + 1)
  /\ UNCHANGED <<call, loops, status>>

(* A key out of order jams the flash until the next reset, with an error   *)
(* on the bus.                                                             *)
Key(key, expected, opened) ==
  /\ Doing(key)
  /\ IF lock = expected
     THEN Access(/\ lock' = opened
                 /\ UNCHANGED <<cr, selected, flags, busy, eopie, rows>>)
     ELSE /\ lock' = "jammed" /\ Return(FALSE)
          /\ UNCHANGED <<call, loops, status, cr, selected, flags, busy, eopie, rows, lost>>

UnlockFlash ==
  Key("key1", "locked", "half") \/ Key("key2", "half", "unlocked")

WaitWhileBusy ==
  /\ Doing("wait")
  /\ UNCHANGED loops
  /\ AccessTo(UNCHANGED target, IF busy THEN step ELSE step + 1)

(* A write of FLASH_CR: a locked one ignores it, a busy one stalls.        *)
Control(bits) ==
  /\ ~busy
  /\ cr' = IF lock = "unlocked" THEN bits ELSE cr
  /\ UNCHANGED <<lock, flags, busy, eopie, rows>>

(* Bits of what was read are set or cleared, and the page written with it. *)
Select(p) == selected' = IF lock = "unlocked" THEN p ELSE selected

UpdateControl ==
  \/ Doing("mer1") /\ Access(Control(cr \union {"MER1"}) /\ UNCHANGED selected)
  \/ Doing("per") /\ Access(Control(cr \union {"PER"}) /\ Select(argument))
  \/ Doing("clear") /\ Access(Control(cr \ {"MER1", "PER"}) /\ UNCHANGED selected)
  \/ Doing("fast") /\ Access(Control((cr \ {"PER"}) \union {"FSTPG"}) /\ Select(page))

(* An error that is pending keeps the flash from erasing; nobody looks.    *)
Erase ==
  /\ ~busy
  /\ IF lock # "unlocked" THEN UNCHANGED <<flags, busy, rows>>
     ELSE IF "error" \in flags THEN UNCHANGED <<flags, busy, rows>>
     ELSE /\ busy' = TRUE /\ flags' = flags
          /\ rows' = [r \in Rows |-> IF "MER1" \in cr \/ ("PER" \in cr /\ PageOf(r) = selected)
                                     THEN Erased ELSE rows[r]]
  /\ UNCHANGED <<lock, cr, selected, eopie>>

StartErase == Doing("start") /\ Access(Erase)

(* What the words of a row leave there when they arrive. *)
Program(row) ==
  /\ busy' = TRUE
  /\ IF "FSTPG" \in cr /\ flags \intersect {"error"} = {} /\ row \in Rows /\ rows[row] = Erased
     THEN /\ rows' = [rows EXCEPT ![row] = row]
          /\ flags' = IF eopie THEN {"eop"} ELSE flags
     ELSE flags' = flags \union {"error"} /\ UNCHANGED rows
  /\ UNCHANGED <<lock, cr, selected, eopie>>

(* A batch of 64 words, then the status, whether it succeeded or not.      *)
WriteBatch ==
  /\ Doing("batch")
  /\ LET row == page * PageRows + batch
         written == Program(row)
     IN \/ written /\ Keep /\ success' = TRUE
        \/ (written \/ UNCHANGED target) /\ Lose /\ success' = FALSE
  /\ step' = step + 1
  /\ UNCHANGED <<call, loops, status, result>>

(* A read that fails leaves the status of an earlier one.                 *)
(* Any error flag makes the result Ack::ERROR.                             *)
PollStatus ==
  /\ Doing("poll")
  /\ \/ status' = flags \union (IF busy THEN {"busy"} ELSE {}) /\ Keep
     \/ status' = status /\ Lose
  /\ LET fine == success /\ "error" \notin status'
     IN IF "busy" \in status' THEN UNCHANGED <<step, success, result>>
        ELSE IF ~fine THEN Return(FALSE)
        ELSE GoTo(IF "eop" \in status' THEN step + 1 ELSE step + 2)
  /\ UNCHANGED <<call, loops, target>>

Acknowledge ==
  /\ Doing("acknowledge")
  /\ status' = {"eop", "error"}
  /\ \/ flags' = {} /\ Keep /\ GoTo(step + 1)
     \/ flags' \in {flags, {}} /\ Lose /\ Return(FALSE)
  /\ UNCHANGED <<call, loops, lock, cr, selected, busy, eopie, rows>>

(* The programming bits are cleared after each batch, and set before the   *)
(* first of a page: the second batch of a page finds them clear.           *)
StopBatch ==
  /\ Doing("stop")
  /\ LET more == batch + 1 < Batches
         next == page + 1 < argument
     IN /\ AccessTo(Control(cr \ {"FSTPG", "PG"}) /\ Select(page),
                    IF more THEN Batch ELSE IF next THEN Fast - 1 ELSE step + 1)
        /\ batch' = IF more THEN batch + 1 ELSE 0
        /\ page' = IF more THEN page ELSE page + 1

LockFlash ==
  Doing("lock") /\
  Access(/\ ~busy /\ lock' = IF lock = "unlocked" THEN "locked" ELSE lock
         /\ UNCHANGED <<cr, selected, flags, busy, eopie, rows>>)

FlashDone ==
  /\ busy /\ busy' = FALSE
  /\ UNCHANGED <<call, step, loops, success, status, result, lock, cr, selected, flags, eopie,
                 rows, lost>>

-----------------------------------------------------------------------------
Next ==
  \/ Call("mass_erase", 0)
  \/ \E p \in Pages : Call("erase_page", p)
  \/ \E n \in 1..PageCount : Call("write_entire_flash", n)
  \/ Reset \/ UnlockFlash \/ WaitWhileBusy \/ UpdateControl \/ StartErase
  \/ WriteBatch \/ PollStatus \/ Acknowledge \/ StopBatch
  \/ LockFlash \/ FlashDone

Spec == Init /\ [][Next]_vars

-----------------------------------------------------------------------------
(* A call that reports success has locked the flash and left no mode set,  *)
(* whatever calls failed before it and whichever accesses were lost; the   *)
(* erases left what they should and nothing else, write_entire_flash its   *)
(* source.                                                                 *)
FlashIsAsReported ==
  result = "ok" =>
    /\ lock = "locked" /\ cr = {}
    /\ operation = "mass_erase" => \A r \in Rows : rows[r] = Erased
    /\ operation = "erase_page" =>
         \A r \in Rows : rows[r] = IF PageOf(r) = argument THEN Erased ELSE before[r]
    /\ operation = "write_entire_flash" =>
         \A r \in Rows : PageOf(r) < argument => rows[r] = r

=============================================================================
