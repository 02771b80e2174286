------------------------------ MODULE AtaDriver ------------------------------
(***************************************************************************)
(* The ATA driver of stage 2 (ATA_DRIVER/) and the drive it polls.         *)
(*                                                                         *)
(* The drive is external.  Its status is the set of bits that are 1; a     *)
(* channel without a drive reads 0xFF.  For 400 ns after a command or      *)
(* after the last word of a sector the register may go on showing the old  *)
(* bits ("shown").  A drive takes as long as it likes, and ignores a       *)
(* command written while it is busy or has data to hand over.              *)
(*                                                                         *)
(* A step of the driver is one read of the status, one write of a command, *)
(* or the 256 words of a sector.  A call is started by Call and has        *)
(* returned when dpc = "done".                                             *)
(***************************************************************************)
EXTENDS Integers, Sequences

CONSTANTS Sectors,      \* number of sectors of the disk
          MaxCount,     \* 256, the largest count of a READ SECTORS
          Polls         \* ATA_TIMEOUT_BSY, ATA_TIMEOUT_DRQ, ATA_RESET_TIMEOUT

ASSUME AtaAssumption == Sectors \in Nat /\ MaxCount \in Nat \ {0} /\ Polls \in Nat \ {0}

VARIABLES drive,        \* "ata", "atapi" or "none"
          status, shown,
          command,      \* the command the drive executes
          dpc, tries,   \* driver: next step, polls left
          request,      \* the call
          got,          \* the sectors a read has stored in its buffer
          ata_last_error,
          gaveup        \* history: a wait was given up

driveVars  == <<status, shown, command>>
driverVars == <<dpc, tries, request, got, ata_last_error, gaveup>>
ataVars    == <<drive, driveVars, driverVars>>

Floating  == {"BSY", "DRDY", "DF", "DRQ", "ERR"}    \* 0xFF
NoCommand == [op |-> "none", lba |-> 0, left |-> 0]
Garbage   == -1                                     \* words that are no sector's
NoRequest == [op |-> "none", dest |-> FALSE, n |-> 0, lba |-> 0]

AtaInit ==
  /\ drive \in {"ata", "atapi", "none"}
  /\ status = IF drive = "none" THEN Floating ELSE {"DRDY"}
  /\ shown = status /\ command = NoCommand
  /\ dpc = "done" /\ tries = Polls /\ request = NoRequest /\ got = <<>>
  /\ ata_last_error = "ok" /\ gaveup = FALSE

-----------------------------------------------------------------------------
(* The drive.                                                              *)
Show(bits) == status' = bits /\ shown' = bits /\ UNCHANGED <<drive, driverVars>>

DriveReady ==
  /\ "BSY" \in status /\ drive = "ata"
  /\ \/ command.op = "identify"
     \/ command.op = "read" /\ command.lba < Sectors
  /\ Show({"DRDY", "DRQ"})
  /\ UNCHANGED command

DriveFails ==
  /\ "BSY" \in status
  /\ command.op \in {"read", "identify"}
  /\ \E bit \in {"ERR", "DF"} : Show({"DRDY", bit})
  /\ command' = NoCommand

ResetDone ==
  /\ "BSY" \in status /\ command.op = "reset"
  /\ Show({"DRDY"}) /\ command' = NoCommand

Settle ==
  /\ shown # status /\ shown' = status
  /\ UNCHANGED <<drive, status, command, driverVars>>

Drive == DriveReady \/ DriveFails \/ ResetDone \/ Settle

(* The driver waits 400 ns after it has selected the drive, that is, right *)
(* before it writes the command.                                           *)
Write(c) ==
  /\ shown' = status
  /\ IF drive = "none" \/ status \cap {"BSY", "DRQ"} # {}
     THEN UNCHANGED <<status, command>>
     ELSE command' = c /\ status' = {"DRDY", "BSY"}

(* The driver reads the 256 words of a sector.                             *)
HandOver ==
  IF "DRQ" \notin status THEN UNCHANGED driveVars
  ELSE /\ UNCHANGED shown
       /\ IF command.left = 1
          THEN command' = NoCommand /\ status' = {"DRDY"}
          ELSE /\ command' = [command EXCEPT !.lba = @ + 1, !.left = @ - 1]
               /\ status' = {"DRDY", "BSY"}

Word == IF "DRQ" \in status /\ command.op = "read" THEN command.lba ELSE Garbage

-----------------------------------------------------------------------------
(* Steps of the driver.                                                    *)
Call(op, dest, n, lba) ==
  /\ request' = [op |-> op, dest |-> dest, n |-> n, lba |-> lba]
  /\ dpc' = op /\ got' = <<>> /\ tries' = Polls
  /\ UNCHANGED <<drive, driveVars, ata_last_error, gaveup>>

Goto(p, q) == dpc = p /\ dpc' = q /\ tries' = Polls /\ UNCHANGED <<drive, request>>

Return(p, error) ==
  /\ Goto(p, "done") /\ ata_last_error' = error
  /\ UNCHANGED <<driveVars, got, gaveup>>

(* The result of a wait, as ata_identify reports it: ata_fail returns -1   *)
(* for a timeout, too.                                                     *)
Reported(error) == IF request.op = "identify" THEN "ATA_ERR_DEVICE_FAULT" ELSE error

(* A loop that reads the status until it is good, at most Polls times.     *)
(* Mutant of Again: the counter wraps and the loop goes on.                *)
AgainForEver(p) ==
  /\ dpc = p /\ tries' = IF tries = 1 THEN Polls ELSE tries - 1
  /\ UNCHANGED <<drive, driveVars, dpc, request, got, ata_last_error, gaveup>>

Again(p) ==
  /\ dpc = p /\ tries > 1 /\ tries' = tries - 1
  /\ UNCHANGED <<drive, driveVars, dpc, request, got, ata_last_error, gaveup>>

GiveUp(p, error) ==
  /\ tries = 1 /\ Goto(p, "done")
  /\ ata_last_error' = Reported(error) /\ gaveup' = TRUE
  /\ UNCHANGED <<driveVars, got>>

Proceed(p, q) == Goto(p, q) /\ ata_last_error' = "ok" /\ UNCHANGED <<driveVars, got, gaveup>>

Poll(p, q, good, timeout) ==
  IF shown = Floating     THEN Return(p, Reported("BUS_FLOAT"))
  ELSE IF "ERR" \in shown THEN Return(p, Reported("ERROR"))
  ELSE IF good            THEN Proceed(p, q)
  ELSE Again(p) \/ GiveUp(p, timeout)

ata_wait_not_bsy(p, q) == Poll(p, q, "BSY" \notin shown, "BSY_TIMEOUT")
ata_wait_drq(p, q)     == Poll(p, q, "DRQ" \in shown, "DRQ_TIMEOUT")

ata_wait_400ns == shown' = status /\ UNCHANGED <<status, command>>

-----------------------------------------------------------------------------
(* detect_devtype: software reset, wait for DRDY, signature.               *)
SoftReset ==
  /\ Goto("detect", "reset")
  /\ IF drive = "none" THEN UNCHANGED driveVars
     ELSE /\ command' = [op |-> "reset", lba |-> 0, left |-> 0]
          /\ status' = {"BSY"} /\ shown' = {"BSY"}
  /\ UNCHANGED <<got, ata_last_error, gaveup>>

AwaitReset ==
  IF shown = Floating THEN Return("reset", "BUS_FLOAT")
  ELSE IF "BSY" \notin shown /\ "DRDY" \in shown THEN Return("reset", "ok")
  ELSE Again("reset") \/ GiveUp("reset", "BSY_TIMEOUT")

detect_devtype == SoftReset \/ AwaitReset

(* ata_init probes the registers 0x172 to 0x174: those of the other        *)
(* channel, which may or may not have a drive.                             *)
ata_init ==
  \E error \in IF shown = Floating THEN {"BUS_FLOAT"} ELSE {"ok", "DEVICE_DOES_NOT_EXIST"} :
    Return("init", error)

(* ata_identify reads the status right after the command; 0 would mean no  *)
(* drive.  Then it waits, reads the signature, waits and reads the data.   *)
IdentifyCommand ==
  /\ Goto("identify", "id_busy")
  /\ Write([op |-> "identify", lba |-> 0, left |-> 1])
  /\ UNCHANGED <<got, ata_last_error, gaveup>>

IdentifySignature ==
  IF drive = "ata" THEN Proceed("id_signature", "id_drq")
                   ELSE Return("id_signature", "ATA_ERR_NOT_ATA")

IdentifyWords ==
  /\ Goto("id_words", "done") /\ HandOver
  /\ UNCHANGED <<got, ata_last_error, gaveup>>

ata_identify ==
  \/ IdentifyCommand
  \/ ata_wait_not_bsy("id_busy", "id_signature")
  \/ IdentifySignature
  \/ ata_wait_drq("id_drq", "id_words")
  \/ IdentifyWords

-----------------------------------------------------------------------------
(* pio28_read.  Every LBA of a FAT16 volume fits in 28 bits.               *)
CheckArguments ==
  IF request.n = 0 \/ ~ request.dest \/ request.n > MaxCount
  THEN Return("read", "INVALID_ARGUMENT")
  ELSE Proceed("read", "busy")

(* flush_command writes no command while the drive shows an error.  Mutant *)
(* of CheckStatus: a device fault does not count.                          *)
Faulty(bits) ==
  IF "ERR" \in bits THEN "ERROR" ELSE IF "DF" \in bits THEN "DEVICE_FAULT" ELSE "ok"

CheckStatusErr ==
  IF "ERR" \in shown THEN Return("check", "ERROR") ELSE Proceed("check", "command")

CheckStatus ==
  IF Faulty(shown) # "ok" THEN Return("check", Faulty(shown)) ELSE Proceed("check", "command")

(* Mutant of ReadCommand: it starts one sector too far.                    *)
ReadCommandLong ==
  /\ Goto("command", "delay")
  /\ Write([op |-> "read", lba |-> request.lba + 1, left |-> request.n])
  /\ ata_last_error' = "ok" /\ UNCHANGED <<got, gaveup>>

ReadCommand ==
  /\ Goto("command", "delay")
  /\ Write([op |-> "read", lba |-> request.lba, left |-> request.n])
  /\ ata_last_error' = "ok" /\ UNCHANGED <<got, gaveup>>

(* For each sector: 400 ns, DRQ, a last look at the status, the words.     *)
(* Mutant of Delay: no delay.                                              *)
NoDelay == Goto("delay", "drq") /\ UNCHANGED <<driveVars, got, ata_last_error, gaveup>>

Delay ==
  /\ Goto("delay", "drq") /\ ata_wait_400ns
  /\ UNCHANGED <<got, ata_last_error, gaveup>>

CheckData ==
  IF Faulty(shown) # "ok"     THEN Return("data", Faulty(shown))
  ELSE IF "DRQ" \notin shown  THEN Return("data", "ERROR_WHILE_DRQ_POLL")
  ELSE Proceed("data", "words")

StoreWords ==
  /\ Goto("words", IF Len(got) + 1 < request.n THEN "delay" ELSE "done")
  /\ HandOver
  /\ got' = Append(got, Word)
  /\ ata_last_error' = "ok" /\ UNCHANGED gaveup

pio28_read ==
  \/ CheckArguments
  \/ ata_wait_not_bsy("busy", "check")
  \/ CheckStatus \/ ReadCommand \/ Delay
  \/ ata_wait_drq("drq", "data")
  \/ CheckData \/ StoreWords

Driver == detect_devtype \/ ata_init \/ ata_identify \/ pio28_read

-----------------------------------------------------------------------------
Asked == [i \in 1 .. request.n |-> request.lba + i - 1]

ReadReturned == dpc = "done" /\ request.op = "read"
ReadSucceeds == ReadReturned /\ ata_last_error = "ok"

AtaTypeOK ==
  /\ drive \in {"ata", "atapi", "none"}
  /\ status \subseteq Floating /\ shown \subseteq Floating
  /\ command.op \in {"none", "reset", "identify", "read"}
  /\ tries \in 1 .. Polls
  /\ got \in Seq(Int) /\ Len(got) <= request.n

(* "wait for DRQ for THIS sector": the driver takes words only while the   *)
(* drive offers some, although the status it looked at may be up to 400 ns *)
(* old.                                                                    *)
WordsOffered == dpc \in {"words", "id_words"} => "DRQ" \in status

(* pio28_read keeps the promise of SectorReader as long as no wait was     *)
(* given up.  After that it may take the late sectors of an older command  *)
(* for its own: the drive ignores the new one while it still offers them.  *)
Reader ==
  INSTANCE SectorReader
    WITH Sector <- Int,
         asked  <- IF request.op = "read" THEN Asked ELSE <<>>,
         busy   <- request.op = "read" /\ dpc # "done",
         ok     <- ReadSucceeds
ImplementsSectorReader == Reader!Spec

(* The error bits stay set until the drive gets a new command, and         *)
(* flush_command writes none while they are: after one bad sector no read  *)
(* of any sector succeeds any more.                                        *)
ReadHitError == ReadReturned /\ ata_last_error # "ok" /\ {"ERR", "DF"} \cap status # {}
ErrorsStick  == [](ReadHitError => []~ ReadSucceeds)
=============================================================================
