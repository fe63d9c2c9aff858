----------------------------- MODULE SaveFiles ------------------------------
(***************************************************************************)
(* The save files of src/src/code/z_sram_NES.c in the flash memory that    *)
(* src/src/code/sys_flashrom.c writes, the file select screen and the game *)
(* that use them, and the console being switched off at any moment.        *)
(*                                                                         *)
(* The flash is counted in units of 0x40 pages.  Two units make a sector,  *)
(* which can only be erased whole.  The file a player names is a cycle     *)
(* save of one unit and its backup, which share a sector; next to it there *)
(* is an owl save of one sector and its backup, in which a crashing game   *)
(* is saved too.  A save is told by its stamp, the number of the operation *)
(* that made it, and by whether its checksum was computed from itself; what *)
(* a write that was cut off leaves behind is Torn, and its checksum is      *)
(* taken to be wrong.                                                       *)
(***************************************************************************)
EXTENDS Integers, Sequences

CONSTANT Settings   \* what the console and the player do, and how many
                    \* operations make a save at most, see TypeOK

ASSUME SettingsAssumption ==
  Settings \subseteq [saves : Nat, errors : Nat, cuts : Nat,
                      copies : {"none", "cycle", "owl"}, crashesEarly : BOOLEAN]

Files == {0, 1}                 \* fileNum
Units == 0..11
Tables == 0..3                  \* index in gSaveFileInfo; owl saves from 2 on

\* gSaveFileInfo: where a save and its backup start, and how long they are.
MainStart(i) == <<0, 2, 4, 8>>[i + 1]
BackupStart(i) == <<1, 3, 6, 10>>[i + 1]
Count(i) == IF i \in Files THEN 1 ELSE 2
Owl(f) == f + 2                 \* SAVE_OWL0_INDEX
Sector(u) == {u, IF u % 2 = 0 THEN u + 1 ELSE u - 1}

\* A save: its flags, the chaos configuration, whether the first cycle is
\* over, whether its checksum is that of the whole context or of a Save, and
\* whether it was summed over this save.
Zeros == [stamp |-> 0, owl |-> FALSE, crash |-> FALSE, config |-> 0,
          cycling |-> FALSE, whole |-> FALSE, sum |-> TRUE]
Torn == [Zeros EXCEPT !.stamp = -1, !.sum = FALSE]
None == [cycle |-> 0, owl |-> 0, config |-> 0]
NoInfo == [used |-> FALSE, owl |-> FALSE]

VARIABLES flash,    \* the unit of the save that each unit holds
          todo,     \* the writes the flash thread still has to make
          attempt,  \* how far it is with the first of them
          phase,    \* "boot", "select", "play", "leave", "crashed" or "hung"
          file,     \* the next save to be looked at while booting
          info,     \* fileSelect->save_info
          ctx,      \* gSaveContext.save
          fileNum,  \* gSaveContext.fileNum
          saves,    \* operations that made a save so far
          latest,   \* of each file the newest cycle save and configuration,
                    \* and the newest owl save that is not yet spent
          left,     \* device errors and power cuts still to come
          setting   \* the member of Settings this behaviour belongs to

game == <<phase, file, info, ctx, fileNum, saves, latest>>
vars == <<flash, todo, attempt, game, left, setting>>

\* What a buffer holds: n units of a save, and a cycle save in both halves.
Image(s, n) == [k \in 1..n |-> [save |-> s, part |-> k]]
Twice(s) == Image(s, 1) \o Image(s, 1)
ReadData(start, n) == [k \in 1..n |-> flash[start + k - 1]]
Main(i) == ReadData(MainStart(i), Count(i))
Backup(i) == ReadData(BackupStart(i), Count(i))

\* CHECK_NEWF_VALID looks at the start of a save, the checksum at all of it.
HasNewf(units) == units[1].save.stamp > 0
Valid(i, units) == /\ HasNewf(units)
                   /\ units = Image(units[1].save, Count(i))
                   /\ units[1].save.whole <=> i \notin Files
                   /\ units[1].save.sum

Start == [unit |-> 0, tries |-> 0]

Init == /\ flash = [u \in Units |-> [save |-> Torn, part |-> 1]]
        /\ todo = <<>> /\ attempt = Start
        /\ phase = "boot" /\ file = 0 /\ fileNum = 0
        /\ info = [i \in Tables |-> NoInfo]
        /\ ctx = Zeros
        /\ saves = 0
        /\ latest = [f \in Files |-> None]
        /\ setting \in Settings
        /\ left = [errors |-> setting.errors, cuts |-> setting.cuts]
-----------------------------------------------------------------------------
\* The flash thread: SysFlashrom_WriteData reads the pages and leaves them
\* alone when they hold the buffer already; otherwise it erases the sector
\* and programs the pages in order, and starts again, at most MaxRetries
\* times, when the device reports an error.  No caller looks at the result.
FewerRetries == 2
MaxRetries == 3

Request == todo[1]
SameAlready == ReadData(Request.start, Len(Request.units)) = Request.units
WriteOver == todo' = Tail(todo) /\ attempt' = Start

TornAt(us) == [u \in Units |-> IF u \in us THEN [save |-> Torn, part |-> 1]
                               ELSE flash[u]]

Unchanged == /\ todo # <<>> /\ attempt = Start /\ SameAlready
             /\ WriteOver
             /\ UNCHANGED <<flash, left>>

EraseSector == /\ todo # <<>> /\ attempt.unit = 0
               /\ attempt = Start => ~SameAlready
               /\ flash' = TornAt(Sector(Request.start))
               /\ attempt' = [attempt EXCEPT !.unit = 1]
               /\ UNCHANGED <<todo, left>>

WritePages == /\ todo # <<>> /\ attempt.unit > 0
              /\ flash' = [flash EXCEPT ![Request.start + attempt.unit - 1] =
                                          Request.units[attempt.unit]]
              /\ IF attempt.unit = Len(Request.units) THEN WriteOver
                 ELSE /\ attempt' = [attempt EXCEPT !.unit = @ + 1]
                      /\ UNCHANGED todo
              /\ UNCHANGED left

\* An erase or a page that fails.
DeviceError ==
  /\ todo # <<>> /\ left.errors > 0
  /\ attempt = Start => ~SameAlready
  /\ left' = [left EXCEPT !.errors = @ - 1]
  /\ flash' = IF attempt.unit = 0 THEN TornAt(Sector(Request.start)) ELSE flash
  /\ IF attempt.tries < MaxRetries
     THEN attempt' = [unit |-> 0, tries |-> attempt.tries + 1] /\ UNCHANGED todo
     ELSE WriteOver

FlashThread == /\ Unchanged \/ EraseSector \/ WritePages \/ DeviceError
               /\ UNCHANGED <<game, setting>>
-----------------------------------------------------------------------------
\* What the functions that write ask the flash thread for; the game waits
\* until nothing is left to do.
Write(start, units) == [start |-> start, units |-> units]
WriteMain(i, units) == <<Write(MainStart(i), units)>>

\* Sram_InvalidateOwlSave.
InvalidateMain(f) == WriteMain(Owl(f), Image(Zeros, 2))
InvalidateOwlSave(f) ==
  InvalidateMain(f) \o <<Write(BackupStart(Owl(f)), Image(Zeros, 2))>>

Flash(writes) == todo = <<>> /\ todo' = writes /\ UNCHANGED <<flash, attempt>>

\* A save made by the running game, and the file it belongs to.
Made(s) == /\ saves < setting.saves
           /\ saves' = saves + 1
           /\ ctx' = [s EXCEPT !.stamp = saves + 1, !.sum = TRUE]
           /\ latest' = [latest EXCEPT ![fileNum'] =
                           [cycle |-> IF s.whole THEN @.cycle ELSE saves + 1,
                            owl |-> IF s.whole THEN saves + 1 ELSE 0,
                            config |-> s.config]]
-----------------------------------------------------------------------------
\* func_801457CC, when the file select screen comes up: one round of its
\* loop for each save.  A bad backup is written again, for a cycle save with
\* the save itself since they share a sector.
OccupiedByOwl(units) == [used |-> TRUE, owl |-> units[1].save.owl]
Occupied(units) == [used |-> TRUE, owl |-> units[1].save.owl \/ units[1].save.crash]

RepairAlone(i) == WriteMain(i, Main(i))
RepairBackup(i) == IF i \in Files THEN WriteMain(i, Main(i) \o Main(i))
                   ELSE <<Write(BackupStart(i), Main(i))>>

CheckGoodByNewf ==
  /\ HasNewf(Main(file))
  /\ info' = [info EXCEPT ![file] = Occupied(Main(file))]
  /\ Flash(IF Backup(file) = Main(file) THEN <<>> ELSE RepairBackup(file))
  /\ file' = file + 1
  /\ UNCHANGED phase

CheckGood == /\ Valid(file, Main(file))
             /\ info' = [info EXCEPT ![file] = Occupied(Main(file))]
             /\ Flash(IF Backup(file) = Main(file) THEN <<>> ELSE RepairBackup(file))
             /\ file' = file + 1
             /\ UNCHANGED phase

CheckEmpty == /\ ~Valid(file, Main(file)) /\ ~Valid(file, Backup(file))
              /\ Flash(<<>>)
              /\ file' = file + 1
              /\ UNCHANGED <<phase, info>>

\* Only the backup is good: the save is copied over the pointer to the
\* buffer, &sramCtx->saveBuf, and the flash thread faults on the address it
\* then finds there.
CheckBackup == /\ ~Valid(file, Main(file)) /\ Valid(file, Backup(file))
               /\ Flash(<<>>)
               /\ phase' = "hung"
               /\ UNCHANGED <<info, file>>

CheckFile == /\ phase = "boot" /\ file \in Tables
             /\ CheckGood \/ CheckEmpty \/ CheckBackup
             /\ UNCHANGED <<ctx, fileNum, saves, latest>>

FilesChecked == /\ phase = "boot" /\ file \notin Tables
                /\ Flash(<<>>)
                /\ phase' = "select"
                /\ UNCHANGED <<file, info, ctx, fileNum, saves, latest>>

\* The console is switched on again: what is not in the flash is lost.
Boot == /\ phase' = "boot" /\ file' = 0 /\ fileNum' = 0
        /\ info' = [i \in Tables |-> NoInfo]
        /\ ctx' = Zeros
        /\ UNCHANGED <<saves, latest>>
-----------------------------------------------------------------------------
\* The file select screen.

\* Sram_InitSave and the write the name screen starts.
InitSave(f) == /\ phase = "select" /\ ~info[f].used
               /\ fileNum' = f
               /\ Made([Zeros EXCEPT !.crash = ctx.crash])
               /\ info' = [info EXCEPT ![f].used = TRUE]
               /\ Flash(WriteMain(f, Twice(ctx')))
               /\ UNCHANGED <<phase, file>>

\* Sram_EraseSave and the write the erase screen starts.
EraseSave(f) ==
  /\ phase = "select" /\ info[f].used
  /\ info' = [info EXCEPT ![f].used = FALSE, ![Owl(f)].owl = FALSE]
  /\ Flash((IF info[Owl(f)].owl THEN InvalidateOwlSave(f) ELSE <<>>)
             \o WriteMain(f, Twice(Zeros)))
  /\ ctx' = Zeros
  /\ latest' = [latest EXCEPT ![f] = None]
  /\ UNCHANGED <<phase, file, fileNum, saves>>

\* Sram_CopySave, which copies the owl save first (func_80147414), and the
\* write the copy screen starts.  It ends by setting the flags of the
\* destination's owl save from the cycle save.
CopySave(src, dst) ==
  /\ phase = "select" /\ info[src].used /\ ~info[dst].used
  /\ setting.copies # "none"
  /\ info[Owl(src)].owl => setting.copies = "owl"
  /\ LET units == Main(Owl(src)) IN
     Flash((IF info[Owl(src)].owl
            THEN WriteMain(Owl(dst), units)
                   \o <<Write(BackupStart(Owl(dst)), units)>>
            ELSE <<>>)
           \o WriteMain(dst, Main(src) \o Backup(src)))
  /\ info' = [info EXCEPT ![dst].used = HasNewf(Main(src)),
                          ![Owl(dst)].owl = Occupied(Main(src)).owl]
  /\ ctx' = Main(src)[1].save
  /\ latest' = [latest EXCEPT ![dst] = latest[src]]
  /\ UNCHANGED <<phase, file, fileNum, saves>>

\* Sram_SaveChaosConfig: the owl save if there is one, its backup not, and
\* then the cycle save and its backup.  The backup's checksum is summed over
\* the cycle save once that holds its own, so it comes out wrong (unless it
\* is 0); the next start repairs the backup.  Without an owl save the cycle
\* save alone, which erases its backup.  Where the flags are right (InfoTrue)
\* the newf of the save is good, and the branch that takes the backup when it
\* is not is left out.
WithConfig(units, c) ==
  [k \in DOMAIN units |-> [units[k] EXCEPT !.save.config = c, !.save.sum = TRUE]]
WrongSum(units) == [k \in DOMAIN units |-> [units[k] EXCEPT !.save.sum = FALSE]]

ConfigOfOwl(f, c) == WriteMain(Owl(f), WithConfig(Main(Owl(f)), c))
ConfigOfBoth(f, c) ==
  ConfigOfOwl(f, c)
    \o WriteMain(f, WithConfig(Main(f), c) \o WrongSum(WithConfig(Backup(f), c)))

SaveChaosConfig(f, c) ==
  /\ phase = "select" /\ info[f].used
  /\ Flash(IF info[Owl(f)].owl THEN ConfigOfBoth(f, c)
           ELSE WriteMain(f, WithConfig(Main(f), c)))
  /\ ctx' = [ctx EXCEPT !.config = c]
  /\ latest' = [latest EXCEPT ![f].config = c]
  /\ UNCHANGED <<phase, file, info, fileNum, saves>>

\* Sram_OpenSave: an owl save is invalidated once it is loaded, a crash save
\* is not.  The player clears isOwlSave when he appears at the owl.
Opened(f) == IF info[Owl(f)].owl THEN Owl(f) ELSE f
Loaded(i) == IF HasNewf(Main(i)) THEN Main(i) ELSE Backup(i)

OpenInvalidates(f) == LET s == Loaded(Opened(f))[1].save IN
                      IF s.owl /\ ~s.crash THEN InvalidateOwlSave(f) ELSE <<>>

OpenSave(f) == /\ phase = "select" /\ info[f].used
               /\ phase' = "play"
               /\ fileNum' = f
               /\ ctx' = [Loaded(Opened(f))[1].save EXCEPT !.owl = FALSE]
               /\ Flash(OpenInvalidates(f))
               /\ latest' = IF todo' = <<>> THEN latest
                            ELSE [latest EXCEPT ![f].owl = 0]
               /\ UNCHANGED <<file, info, saves>>
-----------------------------------------------------------------------------
\* The game.  func_8014546C computes the checksum of the whole context for an
\* owl or a crash save, and of a Save, put in both halves, for any other.
Whole(s) == [s EXCEPT !.whole = s.owl \/ s.crash]
Buffer(s) == IF s.owl \/ s.crash THEN Image(s, 2) ELSE Twice(s)

\* The song of time, MSGMODE_NEW_CYCLE_0.
NewCycle == /\ phase = "play" /\ ctx.cycling
            /\ fileNum' = fileNum
            /\ Made(Whole([ctx EXCEPT !.owl = FALSE, !.crash = FALSE]))
            /\ Flash(InvalidateOwlSave(fileNum) \o WriteMain(fileNum, Buffer(ctx')))
            /\ UNCHANGED <<phase, file, info>>

\* Sram_SaveSpecialNewDay writes the first half of the buffer.
NewDay == /\ phase = "play" /\ ctx.cycling
          /\ fileNum' = fileNum
          /\ Made(Whole([ctx EXCEPT !.crash = FALSE]))
          /\ Flash(InvalidateOwlSave(fileNum)
                     \o WriteMain(fileNum, SubSeq(Buffer(ctx'), 1, 1)))
          /\ UNCHANGED <<phase, file, info>>

\* Sram_SaveSpecialEnterClockTown, once in a game: func_80145698 never makes
\* the checksum of the whole context, and an older crash save stays.
EnterClockTown == /\ phase = "play" /\ ~ctx.cycling
                  /\ fileNum' = fileNum
                  /\ Made([ctx EXCEPT !.owl = FALSE, !.cycling = TRUE, !.whole = FALSE])
                  /\ Flash(WriteMain(fileNum, Twice(ctx')))
                  /\ UNCHANGED <<phase, file, info>>

\* An owl statue, MSGMODE_OWL_SAVE_0: Sram_UpdateWriteToFlashOwlSave starts
\* the backup, 0x80 pages on, when the save is written; then the game ends.
SecondCopyOfOther(f, units) == Write(BackupStart(Owl(1 - f)), units)
SecondCopy(f, units) == Write(MainStart(Owl(f)) + 2, units)

OwlSave == /\ phase = "play" /\ ctx.cycling
           /\ fileNum' = fileNum
           /\ Made(Whole([ctx EXCEPT !.owl = TRUE, !.crash = FALSE]))
           /\ Flash(WriteMain(Owl(fileNum), Buffer(ctx'))
                      \o <<SecondCopy(fileNum, Buffer(ctx'))>>)
           /\ phase' = "leave"
           /\ UNCHANGED <<file, info>>

\* Sram_SaveAtGameCrashTime, called by the fault thread: the write is started
\* and the crash screen shown; nobody starts the backup.
Crash == /\ phase = "play" /\ (ctx.cycling \/ setting.crashesEarly)
         /\ fileNum' = fileNum
         /\ Made(Whole([ctx EXCEPT !.owl = FALSE, !.crash = TRUE]))
         /\ Flash(WriteMain(Owl(fileNum), Buffer(ctx')))
         /\ phase' = "crashed"
         /\ UNCHANGED <<file, info>>

\* Sram_ResetSaveFromMoonCrash.
MoonCrash == /\ phase = "play" /\ ctx.cycling
             /\ Flash(<<>>)
             /\ ctx' = Loaded(fileNum)[1].save
             /\ UNCHANGED <<phase, file, info, fileNum, saves, latest>>

\* The console is switched off, or an owl save is over and the title screen
\* comes; or the power goes, or the reset button is pressed, during a write.
SwitchOff == phase \in {"select", "play", "leave", "crashed"} /\ Flash(<<>>) /\ Boot

PowerCut == /\ todo # <<>> /\ left.cuts > 0
            /\ left' = [left EXCEPT !.cuts = @ - 1]
            /\ todo' = <<>> /\ attempt' = Start
            /\ Boot
            /\ UNCHANGED <<flash, setting>>

Menu == \E f \in Files :
          InitSave(f) \/ EraseSave(f) \/ OpenSave(f)
          \/ (\E g \in Files : CopySave(f, g))
          \/ (\E c \in {0, 1} : SaveChaosConfig(f, c))
Play == NewCycle \/ NewDay \/ EnterClockTown \/ OwlSave \/ Crash \/ MoonCrash
Booting == CheckFile \/ FilesChecked

Next == \/ FlashThread
        \/ PowerCut
        \/ (Booting \/ Menu \/ Play \/ SwitchOff) /\ UNCHANGED <<left, setting>>

Spec == Init /\ [][Next]_vars
-----------------------------------------------------------------------------
\* The types; a setting says how many device errors and power cuts there
\* are, which files are copied, and whether the game crashes in the first
\* cycle.
Saves == [stamp : -1..setting.saves, owl : BOOLEAN, crash : BOOLEAN,
          config : {0, 1}, cycling : BOOLEAN, whole : BOOLEAN, sum : BOOLEAN]
TypeOK ==
  /\ \A u \in Units : flash[u].save \in Saves /\ flash[u].part \in {1, 2}
  /\ \A n \in DOMAIN todo :
       /\ todo[n].start \in Units /\ todo[n].start % 2 = 0
       /\ todo[n].start + Len(todo[n].units) - 1 \in Units
  /\ attempt \in [unit : 0..2, tries : 0..MaxRetries]
  /\ todo = <<>> => attempt = Start
  /\ phase \in {"boot", "select", "play", "leave", "crashed", "hung"}
  /\ file \in 0..4 /\ fileNum \in Files
  /\ info \in [Tables -> [used : BOOLEAN, owl : BOOLEAN]]
  /\ ctx \in Saves
  /\ saves \in 0..setting.saves
  /\ latest \in [Files -> [cycle : 0..setting.saves, owl : 0..setting.saves,
                       config : {0, 1}]]
  /\ setting \in [saves : Nat, errors : Nat, cuts : Nat,
                  copies : {"none", "cycle", "owl"}, crashesEarly : BOOLEAN]
  /\ left \in [errors : 0..setting.errors, cuts : 0..setting.cuts]

\* Where the flags of the owl saves are right, and where they are also set for
\* every owl save: Sram_CopySave sets those of the destination from the cycle
\* save, and a power cut may leave an owl save without its file.
FlagsRight == setting.copies = "none" \/ (setting.copies = "cycle" /\ ~setting.crashesEarly)
FlagsSet == FlagsRight /\ (setting.copies = "none" \/ setting.cuts = 0)

\* What the file select screen believes is what the flash holds, whatever
\* was cut off before: a file is shown where there is a good cycle save, and
\* an owl save is taken only where there is a good one, and always when there
\* is one.  (save_info, filled by func_801457CC and kept by the menu; for the
\* owl saves as far as files are copied, see FlagsRight.)
InfoTrue == phase = "select" /\ todo = <<>> =>
              \A f \in Files :
                LET owl == Valid(Owl(f), Main(Owl(f))) IN
                /\ info[f].used <=> Valid(f, Main(f))
                /\ FlagsRight /\ info[Owl(f)].owl => owl
                /\ FlagsSet /\ owl => info[Owl(f)].owl

\* When the checks of the start are over, every save has a backup that equals
\* it, or is gone with its backup, whatever writes were cut off before.
\* (func_801457CC.)
CopiesAgree == phase = "boot" /\ file = 4 /\ todo = <<>> =>
                 \A i \in Tables : \/ Valid(i, Main(i)) /\ Backup(i) = Main(i)
                                   \/ ~Valid(i, Main(i)) /\ ~Valid(i, Backup(i))

\* While an owl save is played no copy of it is left to be loaded again.
\* (Sram_OpenSave and Sram_InvalidateOwlSave.)
OwlIsSpent == phase = "play" /\ todo = <<>> =>
                \A units \in {Main(Owl(fileNum)), Backup(Owl(fileNum))} :
                  Valid(Owl(fileNum), units) /\ ~units[1].save.crash
                    => units[1].save.stamp # ctx.stamp

\* What is loaded is never a save that was cut off, although opening a file
\* looks at no checksum.  (Sram_OpenSave; where the flags are right, since else
\* a copy may be opened as an owl save it does not have.)
LoadsWhole ==
  [][phase = "select" /\ phase' = "play" /\ FlagsRight =>
       Valid(Opened(fileNum'), Loaded(Opened(fileNum')))]_vars

\* Without power cuts a file opens with its newest save and the configuration
\* last chosen for it, be that a cycle save, an owl save or a crash save, in
\* whatever order they were made, copied and erased.  (Not with owl saves
\* copied, nor with a crash before the first clock town save, which leaves
\* the older crash save in front.)
OpensLatest ==
  [][(/\ phase = "select" /\ phase' = "play"
      /\ setting.cuts = 0 /\ setting.copies # "owl" /\ ~setting.crashesEarly)
     => LET newest == latest[fileNum'] IN
        /\ ctx'.stamp = IF newest.owl > 0 THEN newest.owl ELSE newest.cycle
        /\ ctx'.config = newest.config]_vars

\* With no more errors than there are retries, a write ends with the buffer
\* in the flash.  (SysFlashrom_AttemptWrite, whose result nobody looks at.)
RetriesSuffice ==
  [][(/\ setting.errors <= 3 /\ left'.cuts = left.cuts
      /\ todo # <<>> /\ todo' = Tail(todo)) =>
       [k \in DOMAIN Request.units |-> flash'[Request.start + k - 1]]
         = Request.units]_vars

\* An owl save or a crash save disturbs neither the cycle saves nor anything
\* of the other file, however far it gets.  (The page numbers of
\* gSaveFileInfo and gFlashOwlSaveStartPages.)
OwlUnits(f) == UNION {{start, start + 1} :
                        start \in {MainStart(Owl(f)), BackupStart(Owl(f))}}
OwlKeepsTheRest ==
  [][phase = "leave" \/ phase = "crashed" =>
       \A u \in Units \ OwlUnits(fileNum) : flash'[u] = flash[u]]_vars
=============================================================================
