-------------------------- MODULE SaveFilesProofs ---------------------------
(***************************************************************************)
(* The save files, for any number of saves made, power cuts, erasures,     *)
(* copies and resets.  What is proved is about Will(p, k), what a unit of  *)
(* the flash holds when nothing is left to be written: the flash thread    *)
(* changes nothing about it, only what the game asks for does.             *)
(***************************************************************************)
EXTENDS SaveFiles, Lists, TLAPS

SaveRecs == [stamp : Int, owl : BOOLEAN, crash : BOOLEAN, config : {0, 1},
             cycling : BOOLEAN, whole : BOOLEAN, sum : BOOLEAN]
Cells == [save : SaveRecs, part : {1, 2}]

\* The writes: each of one sector, of which the owl saves take both units.
Starts == {0, 2, 4, 6, 8, 10}
Requests == {r \in [start : Starts, units : Seq(Cells)] :
               Len(r.units) \in 1..2 /\ (r.start >= 4 => Len(r.units) = 2)}

GameTypes ==
  /\ phase \in {"boot", "select", "play", "leave", "crashed", "hung"}
  /\ file \in 0..4 /\ fileNum \in Files
  /\ info \in [Tables -> [used : BOOLEAN, owl : BOOLEAN]]
  /\ ctx \in SaveRecs
  /\ saves \in Nat
  /\ latest \in [Files -> [cycle : Nat, owl : Nat, config : {0, 1}]]

\* The flash thread: no sector is written twice, the units it has written of a request are there,
\* and it has not tried more often than there were errors.
FlashTypes ==
  /\ flash \in [Units -> Cells]
  /\ todo \in Seq(Requests)
  /\ \A m, n \in DOMAIN todo : todo[m].start = todo[n].start => m = n
  /\ attempt \in [unit : 0..2, tries : 0..MaxRetries]
  /\ todo = <<>> => attempt = Start
  /\ left \in [errors : Nat, cuts : Nat]
  /\ setting \in Settings

AttemptInv ==
  /\ todo # <<>> =>
       /\ attempt.unit \in 0..Len(Request.units)
       /\ \A k \in 1..attempt.unit - 1 : flash[Request.start + k - 1] = Request.units[k]
  /\ attempt.tries + left.errors <= setting.errors

\* What the k-th unit of the sector at p holds when nothing is left to do.
Writes(p) == {n \in DOMAIN todo : todo[n].start = p}
Will(p, k) == IF Writes(p) = {} THEN flash[p + k - 1]
              ELSE todo[CHOOSE n \in Writes(p) : TRUE].units[k]

WillMain(i) == [k \in 1..Count(i) |-> Will(MainStart(i), k)]
WillBackup(i) == IF i \in Files THEN [k \in 1..1 |-> Will(MainStart(i), 2)]
                 ELSE [k \in 1..2 |-> Will(BackupStart(i), k)]

\* What is written where: owl and crash saves, and only they, have the checksum of the whole
\* context, and none of them is in a sector of the cycle saves.
Fits(low, s, n, early) ==
  /\ -1 <= s.stamp /\ s.stamp <= n
  /\ s.whole => s.owl \/ s.crash
  /\ s.owl => s.whole
  /\ ~early => (s.whole => s.cycling) /\ (s.crash => s.whole)
  /\ IF low THEN ~s.whole ELSE s.stamp > 0 => s.whole

CellsInv ==
  /\ \A p \in Starts, k \in 1..2 : Fits(p < 4, flash[p + k - 1].save, saves, setting.crashesEarly)
  /\ \A n \in DOMAIN todo : \A k \in DOMAIN todo[n].units :
       Fits(todo[n].start < 4, todo[n].units[k].save, saves, setting.crashesEarly)

CtxInv ==
  /\ -1 <= ctx.stamp /\ ctx.stamp <= saves
  /\ phase = "boot" => ctx = Zeros
  /\ phase \in {"select", "play"} => ~ctx.owl
  /\ ~setting.crashesEarly => /\ phase = "select" => ~ctx.crash
                              /\ phase = "play" => (ctx.crash => ctx.cycling)

\* All copies of a save are of a kind.
AllSaves ==
  (UNION {{flash[p + k - 1].save : k \in 1..2} : p \in Starts})
    \cup (UNION {{todo[n].units[k].save : k \in DOMAIN todo[n].units} : n \in DOMAIN todo})
    \cup {ctx}
StampInv ==
  \A s, t \in AllSaves : s.stamp > 0 /\ s.stamp = t.stamp => s.whole = t.whole /\ s.crash = t.crash

Tells(i) == IF i \in Files THEN info[i].used ELSE info[i].owl
Known(i) == phase = "select" \/ (phase = "boot" /\ i < file)

\* What the table tells of the save that units holds.
TellsRight(i, units, told) ==
  /\ i \in Files => (told <=> Valid(i, units))
  /\ i \notin Files /\ FlagsRight /\ told => Valid(i, units)
  /\ i \notin Files /\ FlagsSet /\ Valid(i, units) => told

InfoInv ==
  /\ \A i \in Tables : Known(i) => TellsRight(i, WillMain(i), Tells(i))
  /\ phase = "boot" => \A i \in Tables : i >= file => info[i] = NoInfo

BackupInv ==
  phase = "boot" =>
    /\ \A n \in DOMAIN todo : Len(todo[n].units) = 2
    /\ \A i \in Tables : i < file =>
         \/ Valid(i, WillMain(i)) /\ WillBackup(i) = WillMain(i)
         \/ ~Valid(i, WillMain(i)) /\ ~Valid(i, WillBackup(i))

SpentInv ==
  phase = "play" =>
    \A p \in {MainStart(Owl(fileNum)), BackupStart(Owl(fileNum))} :
      Will(p, 1).save.stamp > 0 /\ Will(p, 1).save.stamp = ctx.stamp => Will(p, 1).save.crash

\* The saves m and o of a file and its owl save are the latest ones.
LatestIs(f, m, o, l) ==
  /\ IF l.cycle = 0 THEN l = None /\ m[1].save.stamp <= 0
     ELSE /\ Valid(f, m)
          /\ m[1].save.stamp = l.cycle /\ m[1].save.config = l.config
          /\ ~m[1].save.cycling => l.owl = 0
  /\ IF l.owl = 0 THEN ~Valid(Owl(f), o)
     ELSE Valid(Owl(f), o) /\ o[1].save.stamp = l.owl /\ o[1].save.config = l.config

\* The game c that is played, of the file whose saves are m and l.
PlaysLatest(c, m, l) ==
  /\ l.cycle > 0 /\ c.config = l.config
  /\ c.cycling => m[1].save.cycling
  /\ ~c.cycling => l.owl = 0

Undisturbed == setting.cuts = 0 /\ setting.copies # "owl" /\ ~setting.crashesEarly
LatestInv ==
  Undisturbed =>
    /\ left.cuts = 0
    /\ \A f \in Files :
         /\ LatestIs(f, WillMain(f), WillMain(Owl(f)), latest[f])
         /\ phase = "play" /\ fileNum = f => PlaysLatest(ctx, WillMain(f), latest[f])

OwlInv == phase \in {"leave", "crashed"} =>
  \A n \in DOMAIN todo : todo[n].start \in {MainStart(Owl(fileNum)), BackupStart(Owl(fileNum))}

\* The units of a sector.
LEMMA Sectors ==
  /\ Starts \subseteq Units /\ \A p \in Starts : p + 1 \in Units /\ p \in Nat
  /\ \A p \in Starts : Sector(p) = {p, p + 1}
<1>1. ASSUME NEW p \in Starts PROVE Sector(p) = {p, p + 1}
  BY DEF Starts, Sector
<1>2. QED BY <1>1 DEF Starts, Units

\* The units of the sectors are told apart.
LEMMA Places ==
  ASSUME NEW p \in Starts, NEW q \in Starts, NEW k \in 1..2, NEW l \in 1..2
  PROVE  /\ p + k - 1 \in Units /\ p + k - 1 \in Sector(p)
         /\ p + k - 1 \in Sector(q) => p = q
         /\ p + k - 1 = p + l - 1 => k = l
<1>1. Sector(p) = {p, p + 1} /\ Sector(q) = {q, q + 1}
  BY Sectors
<1>2. p + k - 1 \in {p, p + 1}
  <2>1. p \in Nat /\ (k = 1 \/ k = 2)
    BY Sectors
  <2>2. QED BY <2>1
<1>3. p + k - 1 \in Sector(q) => p = q
  BY <1>1, <1>2 DEF Starts
<1>4. QED BY <1>1, <1>2, <1>3, Sectors

\* What a request is.
LEMMA RequestIs ==
  ASSUME NEW r \in Requests
  PROVE  /\ r.start \in Starts /\ r.units \in Seq(Cells) /\ Len(r.units) \in 1..2
         /\ DOMAIN r.units = 1..Len(r.units) /\ 1 \in DOMAIN r.units
         /\ DOMAIN r.units \subseteq 1..2 /\ \A k \in DOMAIN r.units : r.units[k] \in Cells
         /\ r.start >= 4 => Len(r.units) = 2
BY DEF Requests

\* What is written to clear a save, and what a cut leaves of one.
LEMMA Blank ==
  /\ Zeros \in SaveRecs /\ Torn \in SaveRecs
  /\ Torn.stamp = -1 /\ ~Torn.owl /\ ~Torn.crash /\ ~Torn.whole
  /\ [save |-> Torn, part |-> 1] \in Cells
<1>1. Zeros \in SaveRecs
  BY DEF Zeros, SaveRecs
<1>2. -1 \in Int
  OBVIOUS
<1>3. Torn \in SaveRecs /\ Torn.stamp = -1 /\ Torn.owl = Zeros.owl /\ Torn.crash = Zeros.crash
      /\ Torn.whole = Zeros.whole
  BY <1>1, <1>2 DEF Torn, SaveRecs
<1>4. ~Zeros.owl /\ ~Zeros.crash /\ ~Zeros.whole
  BY DEF Zeros
<1>5. QED BY <1>1, <1>3, <1>4 DEF Cells

\* The writes that are left.
LEMMA TodoIs ==
  ASSUME FlashTypes
  PROVE  /\ Len(todo) \in Nat /\ DOMAIN todo = 1..Len(todo)
         /\ \A n \in DOMAIN todo : todo[n] \in Requests
         /\ todo # <<>> => 1 \in DOMAIN todo /\ Request \in Requests
         /\ Len(todo) > 0 => todo # <<>>
<1>1. todo \in Seq(Requests)
  BY DEF FlashTypes
<1>2. todo # <<>> => Len(todo) > 0
  BY <1>1, EmptySeq
<1>3. QED BY <1>1, <1>2 DEF Request

\* What will be in a unit.
LEMMA WillAt ==
  ASSUME FlashTypes, NEW n \in DOMAIN todo, NEW k
  PROVE  Will(todo[n].start, k) = todo[n].units[k]
<1>1. Writes(todo[n].start) = {n}
  BY DEF Writes, FlashTypes
<1>2. n = CHOOSE m \in {n} : TRUE
  OBVIOUS
<1>3. QED BY <1>1, <1>2 DEF Will

\* Where nothing is left to be written, what is there stays.
LEMMA WillNot ==
  ASSUME NEW p, NEW k, \A n \in DOMAIN todo : todo[n].start # p
  PROVE  Will(p, k) = flash[p + k - 1]
BY DEF Will, Writes

\* When a write is over, the others are left.
LEMMA Rest ==
  ASSUME FlashTypes, todo # <<>>, todo' = Tail(todo)
  PROVE  /\ todo' \in Seq(Requests) /\ DOMAIN todo' = 1..Len(todo) - 1
         /\ \A n \in DOMAIN todo' : n + 1 \in DOMAIN todo /\ todo'[n] = todo[n + 1]
         /\ \A n \in DOMAIN todo' : todo'[n].start # Request.start
         /\ \A n \in DOMAIN todo : n # 1 => n - 1 \in DOMAIN todo' /\ todo'[n - 1] = todo[n]
<1>1. /\ todo' \in Seq(Requests) /\ Len(todo') = Len(todo) - 1
      /\ \A n \in 1..Len(todo') : todo'[n] = todo[n + 1]
  BY HeadTailProperties DEF FlashTypes
<1>2. DOMAIN todo' = 1..Len(todo) - 1 /\ DOMAIN todo = 1..Len(todo) /\ Len(todo) \in Nat
  BY <1>1, TodoIs
<1>3. ASSUME NEW n \in DOMAIN todo' PROVE /\ n + 1 \in DOMAIN todo /\ todo'[n] = todo[n + 1]
                                          /\ todo'[n].start # Request.start
  <2>1. n + 1 \in DOMAIN todo /\ todo'[n] = todo[n + 1] /\ n + 1 # 1 /\ 1 \in DOMAIN todo
    BY <1>1, <1>2
  <2>2. QED BY <2>1 DEF FlashTypes, Request
<1>4. ASSUME NEW n \in DOMAIN todo, n # 1
      PROVE  n - 1 \in DOMAIN todo' /\ todo'[n - 1] = todo[n]
  BY <1>1, <1>2, <1>4
<1>5. QED BY <1>1, <1>2, <1>3, <1>4

\* What the flash thread does to the flash: sectors it works on are torn or written.
LEMMA FlashCells ==
  ASSUME FlashTypes, AttemptInv, FlashThread
  PROVE  /\ todo # <<>> /\ todo' \in {todo, Tail(todo)}
         /\ \A u \in Units : u \notin Sector(Request.start) => flash'[u] = flash[u]
         /\ \A p \in Starts, k \in 1..2 :
              \/ flash'[p + k - 1] = flash[p + k - 1]
              \/ flash'[p + k - 1] = [save |-> Torn, part |-> 1]
              \/ /\ p = Request.start /\ k \in DOMAIN Request.units
                 /\ flash'[p + k - 1] = Request.units[k]
         /\ flash' \in [Units -> Cells]
<1>1. /\ todo # <<>> /\ flash \in [Units -> Cells] /\ attempt.unit \in 0..2
      /\ attempt.unit \in 0..Len(Request.units)
  BY DEF FlashThread, Unchanged, EraseSector, WritePages, DeviceError, FlashTypes, AttemptInv
<1>2. /\ Request \in Requests /\ Request.start \in Starts
      /\ DOMAIN Request.units = 1..Len(Request.units) /\ Len(Request.units) \in 1..2
      /\ \A k \in DOMAIN Request.units : Request.units[k] \in Cells
  BY <1>1, TodoIs, RequestIs
<1>3. todo' \in {todo, Tail(todo)}
  BY DEF FlashThread, Unchanged, EraseSector, WritePages, DeviceError, WriteOver
<1>4. [save |-> Torn, part |-> 1] \in Cells
  BY Blank
<1>5. CASE flash' = TornAt(Sector(Request.start))
  <2>1. flash' = [u \in Units |-> IF u \in Sector(Request.start) THEN [save |-> Torn, part |-> 1]
                                  ELSE flash[u]]
    BY <1>5 DEF TornAt
  <2>2. \A p \in Starts, k \in 1..2 : p + k - 1 \in Units
    BY Places
  <2>3. QED BY <1>1, <1>3, <1>4, <2>1, <2>2
<1>6. CASE attempt.unit > 0 /\ flash' = [flash EXCEPT ![Request.start + attempt.unit - 1] =
                                          Request.units[attempt.unit]]
  <2>1. attempt.unit \in 1..2 /\ attempt.unit \in DOMAIN Request.units
    BY <1>1, <1>2, <1>6
  <2>2. /\ Request.start + attempt.unit - 1 \in Sector(Request.start)
        /\ Request.start + attempt.unit - 1 \in Units
    BY <1>2, <2>1, Places
  <2>3. ASSUME NEW p \in Starts, NEW k \in 1..2, p + k - 1 = Request.start + attempt.unit - 1
        PROVE  p = Request.start /\ k = attempt.unit
    <3>1. p = Request.start
      BY <2>2, <2>3, <1>2, Places
    <3>2. QED BY <3>1, <2>3, <2>1, <1>2, Sectors
  <2>4. ASSUME NEW p \in Starts, NEW k \in 1..2
        PROVE  \/ flash'[p + k - 1] = flash[p + k - 1]
               \/ /\ p = Request.start /\ k \in DOMAIN Request.units
                  /\ flash'[p + k - 1] = Request.units[k]
    <3>1. p + k - 1 \in Units
      BY Places
    <3>2. CASE p + k - 1 = Request.start + attempt.unit - 1
      <4>1. p = Request.start /\ k = attempt.unit
        BY <3>2, <2>3
      <4>2. flash'[p + k - 1] = Request.units[k]
        BY <4>1, <3>2, <1>6, <1>1, <2>2
      <4>3. QED BY <4>1, <4>2, <2>1
    <3>3. CASE p + k - 1 # Request.start + attempt.unit - 1
      BY <3>1, <3>3, <1>6, <1>1
    <3>4. QED BY <3>2, <3>3
  <2>5. flash' \in [Units -> Cells]
    BY <1>1, <1>2, <1>6, <2>1, <2>2
  <2>6. \A u \in Units : u \notin Sector(Request.start) => flash'[u] = flash[u]
    BY <1>1, <1>6, <2>2
  <2>7. QED BY <1>1, <1>3, <2>4, <2>5, <2>6
<1>7. CASE flash' = flash
  BY <1>1, <1>3, <1>7
<1>8. QED BY <1>5, <1>6, <1>7 DEF FlashThread, Unchanged, EraseSector, WritePages, DeviceError

\* Every step of the flash thread keeps what is known of it.
LEMMA AttemptKept ==
  ASSUME FlashTypes, AttemptInv, FlashThread
  PROVE  /\ attempt' \in [unit : 0..2, tries : 0..MaxRetries] /\ AttemptInv'
         /\ todo' = Tail(todo) => attempt' = Start
         /\ left' \in [errors : Nat, cuts : Nat] /\ left'.cuts = left.cuts
<1>1. /\ todo # <<>> /\ attempt \in [unit : 0..2, tries : 0..MaxRetries]
      /\ left \in [errors : Nat, cuts : Nat] /\ attempt.tries + left.errors <= setting.errors
      /\ attempt.unit \in 0..Len(Request.units)
      /\ \A k \in 1..attempt.unit - 1 : flash[Request.start + k - 1] = Request.units[k]
      /\ setting' = setting
  BY FlashCells DEF FlashTypes, AttemptInv, FlashThread
<1>2. /\ Request \in Requests /\ Request.start \in Starts
      /\ DOMAIN Request.units = 1..Len(Request.units) /\ Len(Request.units) \in 1..2
  BY <1>1, TodoIs, RequestIs
<1>3. MaxRetries = 3 /\ Start = [unit |-> 0, tries |-> 0]
  BY DEF MaxRetries, Start
<1>4. setting.errors \in Nat /\ (todo' # todo => todo' = Tail(todo)) /\ Tail(todo) # todo
  <2>1. todo \in Seq(Requests) /\ setting \in Settings
    BY DEF FlashTypes
  <2>2. Len(Tail(todo)) = Len(todo) - 1 /\ Len(todo) \in Nat
    BY <2>1, <1>1, HeadTailProperties, LenProperties
  <2>3. QED BY <2>1, <2>2, FlashCells, SettingsAssumption
<1>5. ASSUME WriteOver, left' = left \/ left' = [left EXCEPT !.errors = left.errors - 1],
             left' # left => left.errors > 0
      PROVE  /\ attempt' \in [unit : 0..2, tries : 0..MaxRetries] /\ AttemptInv'
             /\ attempt' = Start
             /\ left' \in [errors : Nat, cuts : Nat] /\ left'.cuts = left.cuts
  <2>1. attempt' = Start /\ attempt' \in [unit : 0..2, tries : 0..MaxRetries]
    BY <1>5, <1>3 DEF WriteOver
  <2>2. left' \in [errors : Nat, cuts : Nat] /\ left'.cuts = left.cuts /\ left'.errors <= left.errors
    BY <1>5, <1>1
  <2>3. todo' # <<>> => attempt'.unit \in 0..Len(Request')
    BY <2>1, <1>3, <1>5
  <2>4. todo' # <<>> => Len(Request'.units) \in Nat
    <3>1. todo' = Tail(todo)
      BY <1>5 DEF WriteOver
    <3>2. /\ todo' \in Seq(Requests) /\ DOMAIN todo' = 1..Len(todo) - 1
      BY <3>1, <1>1, Rest
    <3>3. todo' # <<>> => 1 \in DOMAIN todo' /\ todo'[1] \in Requests
      BY <3>2, EmptySeq, LenProperties
    <3>4. QED BY <3>3, RequestIs DEF Request
  <2>5. QED BY <2>1, <2>2, <2>4, <1>1, <1>3, <1>4 DEF AttemptInv
<1>6. CASE Unchanged
  BY <1>6, <1>5 DEF Unchanged
<1>7. CASE EraseSector
  <2>1. /\ attempt' = [unit |-> 1, tries |-> attempt.tries] /\ todo' = todo /\ left' = left
        /\ Request' = Request
    BY <1>7, <1>1 DEF EraseSector, Request
  <2>2. attempt'.unit = 1 /\ attempt'.tries = attempt.tries /\ setting' = setting
    BY <2>1, <1>1
  <2>3. attempt'.unit \in 0..Len(Request.units) /\ 1..attempt'.unit - 1 = {}
    <3>1. PICK l \in 1..2 : l = Len(Request.units)
      BY <1>2
    <3>2. 1 \in 0..l /\ 1..1 - 1 = {}
      OBVIOUS
    <3>3. QED BY <3>1, <3>2, <2>2
  <2>4. AttemptInv'
    BY <2>1, <2>2, <2>3, <1>1 DEF AttemptInv
  <2>5. QED BY <2>1, <2>4, <1>1, <1>4
<1>8. CASE WritePages /\ attempt.unit = Len(Request.units)
  BY <1>8, <1>5 DEF WritePages
<1>9. CASE WritePages /\ attempt.unit # Len(Request.units)
  <2>0. /\ attempt.unit > 0 /\ attempt' = [attempt EXCEPT !.unit = attempt.unit + 1]
        /\ todo' = todo /\ left' = left /\ Request' = Request
        /\ flash' = [flash EXCEPT ![Request.start + attempt.unit - 1] = Request.units[attempt.unit]]
    BY <1>9 DEF WritePages, Request
  <2>1. /\ attempt.unit > 0 /\ attempt.unit + 1 \in 0..2 /\ attempt.unit + 1 \in 0..Len(Request.units)
        /\ attempt' = [unit |-> attempt.unit + 1, tries |-> attempt.tries]
        /\ todo' = todo /\ left' = left /\ Request' = Request
        /\ flash' = [flash EXCEPT ![Request.start + attempt.unit - 1] = Request.units[attempt.unit]]
    <3>1. attempt.unit \in Nat /\ attempt.unit # Len(Request.units)
      BY <1>1, <1>9
    <3>2. attempt.unit + 1 \in 0..2 /\ attempt.unit + 1 \in 0..Len(Request.units)
      <4>1. PICK l \in 1..2 : l = Len(Request.units)
        BY <1>2
      <4>2. attempt.unit \in 0..l /\ attempt.unit # l
        BY <4>1, <3>1, <1>1
      <4>3. attempt.unit + 1 \in 0..2 /\ attempt.unit + 1 \in 0..l
        BY <4>2
      <4>4. QED BY <4>1, <4>3
    <3>3. attempt' = [unit |-> attempt.unit + 1, tries |-> attempt.tries]
      BY <2>0, <1>1
    <3>4. QED BY <2>0, <3>2, <3>3
  <2>2. ASSUME NEW k \in 1..attempt'.unit - 1
        PROVE  flash'[Request.start + k - 1] = Request.units[k]
    <3>1. k \in 1..attempt.unit /\ k \in 1..2 /\ attempt.unit \in 1..2
      BY <2>1, <1>1
    <3>2. Request.start + k - 1 \in Units /\ Request.start + attempt.unit - 1 \in Units
      BY <3>1, <1>2, Places
    <3>3. CASE k = attempt.unit
      BY <3>2, <3>3, <2>1 DEF FlashTypes
    <3>4. CASE k # attempt.unit
      <4>1. k \in 1..attempt.unit - 1
        BY <3>1, <3>4
      <4>2. Request.start + k - 1 # Request.start + attempt.unit - 1
        BY <3>1, <3>4, <1>2, Sectors
      <4>3. flash \in [Units -> Cells]
        BY DEF FlashTypes
      <4>4. flash'[Request.start + k - 1] = flash[Request.start + k - 1]
        BY <3>2, <4>2, <4>3, <2>1
      <4>5. QED BY <4>1, <4>4, <1>1
    <3>5. QED BY <3>3, <3>4
  <2>3. AttemptInv'
    BY <2>1, <2>2, <1>1 DEF AttemptInv
  <2>4. QED BY <2>1, <2>3, <1>1, <1>4
<1>10. CASE DeviceError
  <2>1. left.errors > 0 /\ left' = [left EXCEPT !.errors = left.errors - 1]
    BY <1>10 DEF DeviceError
  <2>2. CASE attempt.tries < MaxRetries
    <3>1. /\ attempt' = [unit |-> 0, tries |-> attempt.tries + 1] /\ todo' = todo /\ Request' = Request
      BY <1>10, <2>2 DEF DeviceError, Request
    <3>2. /\ left' \in [errors : Nat, cuts : Nat] /\ left'.cuts = left.cuts
          /\ left'.errors = left.errors - 1
      BY <2>1, <1>1
    <3>3. attempt.tries + 1 \in 0..MaxRetries /\ attempt'.tries + left'.errors <= setting.errors
      BY <3>1, <3>2, <2>2, <1>1, <1>3
    <3>4. AttemptInv'
      BY <3>1, <3>3, <1>1, <1>2 DEF AttemptInv
    <3>5. QED BY <3>1, <3>2, <3>3, <3>4, <1>4
  <2>3. CASE ~(attempt.tries < MaxRetries)
    BY <1>10, <2>1, <2>3, <1>5 DEF DeviceError
  <2>4. QED BY <2>2, <2>3
<1>11. QED BY <1>6, <1>7, <1>8, <1>9, <1>10 DEF FlashThread

\* The same, together.
LEMMA FlashNext ==
  ASSUME FlashTypes, AttemptInv, FlashThread
  PROVE  FlashTypes' /\ AttemptInv'
<1>1. /\ attempt' \in [unit : 0..2, tries : 0..MaxRetries] /\ AttemptInv'
      /\ todo' = Tail(todo) => attempt' = Start
      /\ left' \in [errors : Nat, cuts : Nat]
  BY AttemptKept
<1>2. /\ todo # <<>> /\ todo' \in {todo, Tail(todo)} /\ flash' \in [Units -> Cells]
  BY FlashCells
<1>3. /\ todo' \in Seq(Requests)
      /\ \A m, n \in DOMAIN todo' : todo'[m].start = todo'[n].start => m = n
      /\ todo' = <<>> => attempt' = Start
  <2>1. CASE todo' = todo
    BY <2>1, <1>2 DEF FlashTypes
  <2>2. CASE todo' = Tail(todo)
    <3>1. /\ todo' \in Seq(Requests) /\ DOMAIN todo' = 1..Len(todo) - 1
          /\ \A n \in DOMAIN todo' : n + 1 \in DOMAIN todo /\ todo'[n] = todo[n + 1]
      BY <2>2, <1>2, Rest
    <3>2. ASSUME NEW m \in DOMAIN todo', NEW n \in DOMAIN todo', todo'[m].start = todo'[n].start
          PROVE  m = n
      <4>1. m + 1 = n + 1
        BY <3>1, <3>2 DEF FlashTypes
      <4>2. QED BY <4>1, <3>1
    <3>3. QED BY <3>1, <3>2, <2>2, <1>1
  <2>3. QED BY <2>1, <2>2, <1>2
<1>4. QED BY <1>1, <1>2, <1>3 DEF FlashTypes, FlashThread

\* A write that is not given up is over when its units are in the flash.
LEMMA Written ==
  ASSUME FlashTypes, AttemptInv, FlashThread, ~DeviceError, todo' = Tail(todo)
  PROVE  \A k \in DOMAIN Request.units : flash'[Request.start + k - 1] = Request.units[k]
<1>1. /\ todo # <<>> /\ attempt \in [unit : 0..2, tries : 0..MaxRetries]
      /\ left \in [errors : Nat, cuts : Nat] /\ attempt.tries + left.errors <= setting.errors
      /\ \A k \in 1..attempt.unit - 1 : flash[Request.start + k - 1] = Request.units[k]
      /\ setting \in Settings /\ flash \in [Units -> Cells]
  BY FlashCells DEF FlashTypes, AttemptInv, FlashThread
<1>2. /\ Request.start \in Starts
      /\ DOMAIN Request.units = 1..Len(Request.units) /\ Len(Request.units) \in 1..2
  BY <1>1, TodoIs, RequestIs
<1>3. Tail(todo) # todo
  <2>1. Len(Tail(todo)) = Len(todo) - 1 /\ Len(todo) \in Nat
    BY <1>1, HeadTailProperties, LenProperties DEF FlashTypes
  <2>2. QED BY <2>1
<1>4. CASE Unchanged
  <2>1. ReadData(Request.start, Len(Request.units)) = Request.units /\ flash' = flash
    BY <1>4 DEF Unchanged, SameAlready
  <2>2. \A k \in 1..Len(Request.units) :
          ReadData(Request.start, Len(Request.units))[k] = flash[Request.start + k - 1]
    BY DEF ReadData
  <2>3. QED BY <2>1, <2>2, <1>2
<1>5. CASE WritePages
  <2>1. /\ attempt.unit = Len(Request.units) /\ attempt.unit \in 1..2
        /\ flash' = [flash EXCEPT ![Request.start + attempt.unit - 1] = Request.units[attempt.unit]]
    <3>1. todo' # todo
      BY <1>3
    <3>2. /\ attempt.unit = Len(Request.units)
          /\ flash' = [flash EXCEPT ![Request.start + attempt.unit - 1] =
                                      Request.units[attempt.unit]]
      BY <1>5, <3>1 DEF WritePages
    <3>3. QED BY <3>2, <1>2
  <2>2. ASSUME NEW k \in 1..Len(Request.units)
        PROVE  flash'[Request.start + k - 1] = Request.units[k]
    <3>0. PICK l \in 1..2 : l = Len(Request.units)
      BY <1>2
    <3>1. k \in 1..2
      <4>1. k \in 1..l
        BY <3>0
      <4>2. \A j \in 1..l : j \in 1..2
        OBVIOUS
      <4>3. QED BY <4>1, <4>2
    <3>2. Request.start + k - 1 \in Units /\ Request.start + attempt.unit - 1 \in Units
      BY <2>1, <3>1, <1>2, Places
    <3>3. CASE k = attempt.unit
      BY <3>2, <3>3, <2>1, <1>1
    <3>4. CASE k # attempt.unit
      <4>1. k \in 1..attempt.unit - 1
        BY <2>1, <3>4, <1>2
      <4>2. Request.start + k - 1 # Request.start + attempt.unit - 1
        BY <3>1, <3>4, <2>1, <1>2, Sectors
      <4>3. flash'[Request.start + k - 1] = flash[Request.start + k - 1]
        BY <3>2, <4>2, <1>1, <2>1
      <4>4. QED BY <4>1, <4>3, <1>1
    <3>5. QED BY <3>3, <3>4
  <2>3. QED BY <2>2, <1>2
<1>6. ~EraseSector
  BY <1>3 DEF EraseSector
<1>7. QED BY <1>4, <1>5, <1>6 DEF FlashThread

\* An error after which the write is not tried again, and a device that never errs so often.
GivenUp == DeviceError /\ ~(attempt.tries < MaxRetries)
NeverGivesUp == [][~GivenUp]_vars

\* A write is given up only after more errors than there are retries.
LEMMA NotGivenUp ==
  ASSUME FlashTypes, AttemptInv, setting.errors <= MaxRetries
  PROVE  ~GivenUp
<1>1. /\ attempt \in [unit : 0..2, tries : 0..MaxRetries]
      /\ left \in [errors : Nat, cuts : Nat] /\ attempt.tries + left.errors <= setting.errors
      /\ setting \in Settings
  BY DEF FlashTypes, AttemptInv
<1>2. GivenUp => left.errors > 0 /\ ~(attempt.tries < MaxRetries)
  BY DEF GivenUp, DeviceError
<1>3. setting.errors \in Nat /\ MaxRetries = 3
  BY <1>1, SettingsAssumption DEF MaxRetries
<1>4. QED BY <1>1, <1>2, <1>3

\* A write that ends without being given up ends without an error.
LEMMA EndsWell ==
  ASSUME FlashTypes, AttemptInv, FlashThread, todo' = Tail(todo), ~GivenUp
  PROVE  ~DeviceError
<1>1. todo \in Seq(Requests) /\ todo # <<>>
  BY FlashCells DEF FlashTypes
<1>2. Tail(todo) # todo
  <2>1. Len(Tail(todo)) = Len(todo) - 1 /\ Len(todo) \in Nat
    BY <1>1, HeadTailProperties, LenProperties
  <2>2. QED BY <2>1
<1>3. QED BY <1>2 DEF DeviceError, GivenUp

\* A step that gives a write up changes how many errors are left.
LEMMA NotOnStuttering ==
  ASSUME FlashTypes, [~GivenUp]_vars
  PROVE  ~GivenUp
<1>1. left \in [errors : Nat, cuts : Nat]
  BY DEF FlashTypes
<1>2. GivenUp => left' = [left EXCEPT !.errors = left.errors - 1]
  BY DEF GivenUp, DeviceError
<1>3. GivenUp => left' # left
  BY <1>1, <1>2
<1>4. QED BY <1>3 DEF vars

\* What will be in a unit stays, but where a write is over.
LEMMA WillApart ==
  ASSUME FlashTypes, AttemptInv, FlashThread, NEW p \in Starts, NEW k \in 1..2
  PROVE  \/ Will(p, k)' = Will(p, k)
         \/ todo' = Tail(todo) /\ p = Request.start
<1>1. /\ todo # <<>> /\ todo' \in {todo, Tail(todo)}
      /\ \A u \in Units : u \notin Sector(Request.start) => flash'[u] = flash[u]
  BY FlashCells
<1>2. Request \in Requests /\ Request.start \in Starts /\ 1 \in DOMAIN todo /\ Request = todo[1]
      /\ \A n \in DOMAIN todo : todo[n] \in Requests
  BY <1>1, TodoIs, RequestIs DEF Request
<1>3. FlashTypes'
  BY FlashNext
<1>4. p # Request.start => flash'[p + k - 1] = flash[p + k - 1]
  BY <1>1, <1>2, Places
<1>5. CASE todo' = todo /\ Writes(p) = {}
  <2>1. \A n \in DOMAIN todo : todo[n].start # p
    BY <1>5 DEF Writes
  <2>2. p # Request.start
    BY <2>1, <1>2
  <2>3. Writes(p)' = {}
    BY <1>5 DEF Writes
  <2>4. QED BY <1>4, <1>5, <2>2, <2>3 DEF Will
<1>6. CASE todo' = todo /\ Writes(p) # {}
  <2>1. Writes(p)' = Writes(p)
    BY <1>6 DEF Writes
  <2>2. QED BY <1>6, <2>1 DEF Will
<1>7. CASE todo' = Tail(todo) /\ p # Request.start
  <2>1. /\ \A n \in DOMAIN todo' : n + 1 \in DOMAIN todo /\ todo'[n] = todo[n + 1]
        /\ \A n \in DOMAIN todo : n # 1 => n - 1 \in DOMAIN todo' /\ todo'[n - 1] = todo[n]
    BY <1>1, <1>7, Rest
  <2>2. CASE \A n \in DOMAIN todo : todo[n].start # p
    <3>1. \A n \in DOMAIN todo' : todo'[n].start # p
      BY <2>1, <2>2
    <3>2. Will(p, k)' = flash'[p + k - 1]
      BY <3>1 DEF Will, Writes
    <3>3. Will(p, k) = flash[p + k - 1]
      BY <2>2, WillNot
    <3>4. QED BY <3>2, <3>3, <1>4, <1>7
  <2>3. CASE \E n \in DOMAIN todo : todo[n].start = p
    <3>1. PICK n \in DOMAIN todo : todo[n].start = p
      BY <2>3
    <3>2. n - 1 \in DOMAIN todo' /\ todo'[n - 1] = todo[n]
      BY <3>1, <2>1, <1>2, <1>7
    <3>3. Will(p, k) = todo[n].units[k]
      BY <3>1, WillAt
    <3>4. Writes(p)' = {n - 1}
      BY <3>1, <3>2, <1>3 DEF Writes, FlashTypes
    <3>5. n - 1 = CHOOSE m \in {n - 1} : TRUE
      OBVIOUS
    <3>6. Will(p, k)' = todo'[n - 1].units[k]
      BY <3>4, <3>5 DEF Will
    <3>7. QED BY <3>2, <3>3, <3>6
  <2>4. QED BY <2>2, <2>3
<1>8. QED BY <1>1, <1>5, <1>6, <1>7

\* What will be in a unit is there when the write is over.
LEMMA WillStays ==
  ASSUME FlashTypes, AttemptInv, FlashThread, ~GivenUp,
         NEW p \in Starts, NEW k \in 1..2, \A n \in Writes(p) : k \in DOMAIN todo[n].units
  PROVE  Will(p, k)' = Will(p, k)
<1>1. todo # <<>>
  BY FlashCells
<1>2. 1 \in DOMAIN todo /\ Request = todo[1]
  BY <1>1, TodoIs DEF Request
<1>3. CASE todo' = Tail(todo) /\ p = Request.start
  <2>1. \A j \in DOMAIN Request.units : flash'[Request.start + j - 1] = Request.units[j]
    BY <1>3, Written, EndsWell
  <2>2. 1 \in Writes(p)
    BY <1>2, <1>3 DEF Writes
  <2>3. flash'[p + k - 1] = Request.units[k]
    BY <2>1, <2>2, <1>2, <1>3
  <2>4. Will(p, k) = Request.units[k]
    BY <1>2, <1>3, WillAt
  <2>5. \A n \in DOMAIN todo' : todo'[n].start # p
    BY <1>1, <1>3, Rest
  <2>6. Will(p, k)' = flash'[p + k - 1]
    BY <2>5 DEF Will, Writes
  <2>7. QED BY <2>3, <2>4, <2>6
<1>4. QED BY <1>3, WillApart

-----------------------------------------------------------------------------
(* What the game asks of the flash thread.                                 *)

\* The map of the flash.
LEMMA Map ==
  /\ \A i \in Tables : MainStart(i) \in Starts
  /\ \A f \in Files : /\ f \in Tables /\ Owl(f) \in Tables /\ Owl(f) \notin Files
                      /\ MainStart(f) = 2 * f /\ BackupStart(f) = 2 * f + 1
                      /\ MainStart(Owl(f)) = 4 * f + 4 /\ BackupStart(Owl(f)) = 4 * f + 6
                      /\ BackupStart(Owl(f)) \in Starts
  /\ \A i \in Tables : i \in Files \/ \E f \in Files : i = Owl(f)
  /\ \A i \in Tables : Count(i) \in 1..2 /\ (i \in Files <=> Count(i) = 1)
  /\ \A i \in Tables, j \in Tables : MainStart(i) = MainStart(j) => i = j
<1>1. /\ MainStart(0) = 0 /\ MainStart(1) = 2 /\ MainStart(2) = 4 /\ MainStart(3) = 8
      /\ BackupStart(0) = 1 /\ BackupStart(1) = 3 /\ BackupStart(2) = 6 /\ BackupStart(3) = 10
  BY DEF MainStart, BackupStart
<1>2. Owl(0) = 2 /\ Owl(1) = 3
  BY DEF Owl
<1>3. Tables = {0, 1, 2, 3} /\ Files = {0, 1} /\ 2 \notin Files /\ 3 \notin Files
  BY DEF Tables, Files
<1>4. /\ \A i \in Tables : MainStart(i) \in Starts
      /\ \A i \in Tables, j \in Tables : MainStart(i) = MainStart(j) => i = j
  BY <1>1, <1>3 DEF Starts
<1>5. \A f \in Files : /\ f \in Tables /\ Owl(f) \in Tables /\ Owl(f) \notin Files
                       /\ MainStart(f) = 2 * f /\ BackupStart(f) = 2 * f + 1
                       /\ MainStart(Owl(f)) = 4 * f + 4 /\ BackupStart(Owl(f)) = 4 * f + 6
                       /\ BackupStart(Owl(f)) \in Starts
  BY <1>1, <1>2, <1>3 DEF Starts
<1>6. \A i \in Tables : i \in Files \/ \E f \in Files : i = Owl(f)
  BY <1>2, <1>3
<1>7. \A i \in Tables : Count(i) \in 1..2 /\ (i \in Files <=> Count(i) = 1)
  BY DEF Count
<1>8. QED BY <1>4, <1>5, <1>6, <1>7

\* A function from 1 on is a sequence.
LEMMA Listed ==
  ASSUME NEW n \in Nat, NEW S, NEW s \in [1..n -> S]
  PROVE  s \in Seq(S) /\ Len(s) = n
OBVIOUS

\* What is put in a buffer.
LEMMA ImageIs ==
  ASSUME NEW s \in SaveRecs, NEW n \in 1..2
  PROVE  /\ Image(s, n) \in Seq(Cells) /\ Len(Image(s, n)) = n /\ Image(s, n) \in [1..n -> Cells]
         /\ \A k \in 1..n : Image(s, n)[k] = [save |-> s, part |-> k]
<1>1. Image(s, n) = [k \in 1..n |-> [save |-> s, part |-> k]]
  BY DEF Image
<1>2. \A k \in 1..n : [save |-> s, part |-> k] \in Cells
  BY DEF Cells
<1>3. Image(s, n) \in [1..n -> Cells] /\ n \in Nat
  BY <1>1, <1>2
<1>4. QED BY <1>1, <1>3, Listed

\* A cycle save in both halves of the buffer.
LEMMA TwiceIs ==
  ASSUME NEW s \in SaveRecs
  PROVE  /\ Twice(s) \in Seq(Cells) /\ Len(Twice(s)) = 2 /\ Len(Twice(s)) \in 1..2
         /\ \A k \in 1..2 : Twice(s)[k] = [save |-> s, part |-> 1]
<1>1. /\ Image(s, 1) \in Seq(Cells) /\ Len(Image(s, 1)) = 1
      /\ Image(s, 1)[1] = [save |-> s, part |-> 1]
  <2>1. 1 \in 1..2 /\ 1 \in 1..1
    OBVIOUS
  <2>2. QED BY <2>1, ImageIs
<1>2. /\ Twice(s) \in Seq(Cells) /\ Len(Twice(s)) = 1 + 1
      /\ \A k \in 1..1 + 1 : Twice(s)[k] = IF k <= 1 THEN Image(s, 1)[k] ELSE Image(s, 1)[k - 1]
  BY <1>1, ConcatProperties DEF Twice
<1>3. Twice(s)[1] = Image(s, 1)[1] /\ Twice(s)[2] = Image(s, 1)[1]
  BY <1>2
<1>4. 2 \in 1..2 /\ 1 + 1 = 2
  OBVIOUS
<1>5. Len(Twice(s)) = 2 /\ Len(Twice(s)) \in 1..2
  BY <1>2, <1>4
<1>6. QED BY <1>1, <1>2, <1>3, <1>5

\* The buffer of any save.
LEMMA BufferIs ==
  ASSUME NEW s \in SaveRecs
  PROVE  /\ Buffer(s) \in Seq(Cells) /\ Len(Buffer(s)) = 2 /\ Len(Buffer(s)) \in 1..2
         /\ \A k \in 1..2 : Buffer(s)[k] \in Cells /\ Buffer(s)[k].save = s
         /\ Buffer(s)[1] = [save |-> s, part |-> 1]
         /\ s.owl \/ s.crash => Buffer(s) = Image(s, 2)
<1>1. /\ Image(s, 2) \in Seq(Cells) /\ Len(Image(s, 2)) = 2
      /\ \A k \in 1..2 : Image(s, 2)[k] = [save |-> s, part |-> k]
  BY ImageIs
<1>2. 2 \in 1..2
  OBVIOUS
<1>3. QED BY <1>1, <1>2, TwiceIs DEF Buffer, Cells

\* What is read.
LEMMA ReadIs ==
  ASSUME FlashTypes, NEW i \in Tables
  PROVE  /\ Main(i) \in [1..Count(i) -> Cells] /\ Backup(i) \in [1..Count(i) -> Cells]
         /\ Main(i) \in Seq(Cells) /\ Len(Main(i)) = Count(i)
         /\ Backup(i) \in Seq(Cells) /\ Len(Backup(i)) = Count(i)
         /\ \A k \in 1..Count(i) : Main(i)[k] = flash[MainStart(i) + k - 1]
         /\ i \in Files => Backup(i) = [k \in 1..1 |-> flash[MainStart(i) + 1]]
         /\ i \notin Files => /\ BackupStart(i) \in Starts
                              /\ Backup(i) = [k \in 1..2 |-> flash[BackupStart(i) + k - 1]]
<1>1. Count(i) \in 1..2 /\ MainStart(i) \in Starts /\ flash \in [Units -> Cells]
  BY Map DEF FlashTypes
<1>2. \A p \in Starts, k \in 1..2 : flash[p + k - 1] \in Cells
  BY <1>1, Places
<1>3. Main(i) = [k \in 1..Count(i) |-> flash[MainStart(i) + k - 1]]
  BY DEF Main, ReadData
<1>4. \A k \in 1..Count(i) : k \in 1..2
  BY <1>1
<1>5. Main(i) \in [1..Count(i) -> Cells]
  BY <1>1, <1>2, <1>3, <1>4
<1>6. CASE i \in Files
  <2>1. Count(i) = 1 /\ BackupStart(i) = MainStart(i) + 1 /\ MainStart(i) + 1 - 0 = MainStart(i) + 2 - 1
        /\ MainStart(i) \in Nat
    BY <1>6, Map, Sectors
  <2>2. Backup(i) = [k \in 1..1 |-> flash[MainStart(i) + 1]]
    <3>1. Backup(i) = [k \in 1..1 |-> flash[MainStart(i) + 1 + k - 1]]
      BY <2>1 DEF Backup, ReadData
    <3>2. \A k \in 1..1 : MainStart(i) + 1 + k - 1 = MainStart(i) + 1
      BY <2>1
    <3>3. QED BY <3>1, <3>2
  <2>3. flash[MainStart(i) + 1] \in Cells
    BY <1>1, Sectors
  <2>4. Backup(i) \in [1..Count(i) -> Cells]
    BY <2>1, <2>2, <2>3
  <2>5. QED BY <1>1, <1>3, <1>5, <1>6, <2>2, <2>4, Listed
<1>7. CASE i \notin Files
  <2>1. Count(i) = 2 /\ BackupStart(i) \in Starts
    BY <1>7, Map, <1>1
  <2>2. Backup(i) = [k \in 1..2 |-> flash[BackupStart(i) + k - 1]]
    BY <2>1 DEF Backup, ReadData
  <2>3. Backup(i) \in [1..Count(i) -> Cells]
    BY <1>2, <2>1, <2>2
  <2>4. QED BY <1>1, <1>3, <1>5, <1>7, <2>1, <2>2, <2>3, Listed
<1>8. QED BY <1>6, <1>7

\* The writes W are to the sectors S, one each, and what is written to p is u[p].
Asks(W, S, u) ==
  /\ W \in Seq(Requests)
  /\ \A n \in DOMAIN W : W[n].start \in S /\ W[n].units = u[W[n].start]
  /\ \A p \in S : \E n \in DOMAIN W : W[n].start = p
  /\ \A m, n \in DOMAIN W : W[m].start = W[n].start => m = n

\* Writes nothing.
LEMMA AsksNone == ASSUME NEW u PROVE Asks(<<>>, {}, u)
<1>1. <<>> \in Seq(Requests) /\ DOMAIN <<>> = {}
  OBVIOUS
<1>2. QED BY <1>1 DEF Asks

\* Writes one sector.
LEMMA AsksOne ==
  ASSUME NEW p \in Starts, NEW u, u[p] \in Seq(Cells), Len(u[p]) \in 1..2, p >= 4 => Len(u[p]) = 2
  PROVE  Asks(<<Write(p, u[p])>>, {p}, u)
<1>1. Write(p, u[p]) \in Requests /\ Write(p, u[p]).start = p /\ Write(p, u[p]).units = u[p]
  BY DEF Write, Requests
<1>2. /\ <<Write(p, u[p])>> \in Seq(Requests) /\ DOMAIN <<Write(p, u[p])>> = {1}
      /\ <<Write(p, u[p])>>[1] = Write(p, u[p])
  BY <1>1
<1>3. QED BY <1>1, <1>2 DEF Asks

\* Writes some sectors and then others.
LEMMA AsksBoth ==
  ASSUME NEW V, NEW W, NEW S, NEW T, NEW u, Asks(V, S, u), Asks(W, T, u), S \cap T = {}
  PROVE  Asks(V \o W, S \cup T, u)
<1>1. V \in Seq(Requests) /\ W \in Seq(Requests)
  BY DEF Asks
<1>2. /\ V \o W \in Seq(Requests) /\ DOMAIN (V \o W) = 1..Len(V) + Len(W)
      /\ DOMAIN V = 1..Len(V) /\ DOMAIN W = 1..Len(W) /\ Len(V) \in Nat /\ Len(W) \in Nat
      /\ \A n \in 1..Len(V) + Len(W) : (V \o W)[n] = IF n <= Len(V) THEN V[n] ELSE W[n - Len(V)]
  <2>1. /\ V \o W \in Seq(Requests) /\ Len(V \o W) = Len(V) + Len(W)
        /\ \A n \in 1..Len(V) + Len(W) : (V \o W)[n] = IF n <= Len(V) THEN V[n] ELSE W[n - Len(V)]
    BY <1>1, ConcatProperties
  <2>2. QED BY <1>1, <2>1, LenProperties
<1>3. ASSUME NEW n \in DOMAIN (V \o W)
      PROVE  \/ n \in DOMAIN V /\ (V \o W)[n] = V[n]
             \/ n - Len(V) \in DOMAIN W /\ (V \o W)[n] = W[n - Len(V)]
  BY <1>2
<1>4. ASSUME NEW n \in DOMAIN V PROVE n \in DOMAIN (V \o W) /\ (V \o W)[n] = V[n]
  BY <1>2
<1>5. ASSUME NEW n \in DOMAIN W
      PROVE  n + Len(V) \in DOMAIN (V \o W) /\ (V \o W)[n + Len(V)] = W[n]
  <2>1. n + Len(V) \in 1..Len(V) + Len(W) /\ ~(n + Len(V) <= Len(V)) /\ n + Len(V) - Len(V) = n
    BY <1>2
  <2>2. QED BY <1>2, <2>1
<1>6. \A n \in DOMAIN (V \o W) : /\ (V \o W)[n].start \in S \cup T
                                 /\ (V \o W)[n].units = u[(V \o W)[n].start]
  BY <1>3 DEF Asks
<1>7. \A p \in S \cup T : \E n \in DOMAIN (V \o W) : (V \o W)[n].start = p
  <2>1. ASSUME NEW p \in S PROVE \E n \in DOMAIN (V \o W) : (V \o W)[n].start = p
    BY <1>4 DEF Asks
  <2>2. ASSUME NEW p \in T PROVE \E n \in DOMAIN (V \o W) : (V \o W)[n].start = p
    <3>1. PICK n \in DOMAIN W : W[n].start = p
      BY DEF Asks
    <3>2. QED BY <3>1, <1>5
  <2>3. QED BY <2>1, <2>2
<1>8. ASSUME NEW m \in DOMAIN (V \o W), NEW n \in DOMAIN (V \o W),
             (V \o W)[m].start = (V \o W)[n].start
      PROVE  m = n
  <2>1. CASE m \in DOMAIN V /\ (V \o W)[m] = V[m]
    BY <1>3, <1>8, <2>1 DEF Asks
  <2>2. CASE m - Len(V) \in DOMAIN W /\ (V \o W)[m] = W[m - Len(V)]
    <3>1. n - Len(V) \in DOMAIN W /\ (V \o W)[n] = W[n - Len(V)]
      BY <1>3, <1>8, <2>2 DEF Asks
    <3>2. m - Len(V) = n - Len(V)
      BY <1>8, <2>2, <3>1 DEF Asks
    <3>3. QED BY <3>2, <1>2
  <2>3. QED BY <1>3, <2>1, <2>2
<1>9. QED BY <1>2, <1>6, <1>7, <1>8 DEF Asks

\* What follows for the flash thread when it is asked.
LEMMA Asked ==
  ASSUME FlashTypes, AttemptInv, NEW W, NEW S, NEW u, Asks(W, S, u), Flash(W),
         UNCHANGED <<left, setting>>
  PROVE  /\ FlashTypes' /\ AttemptInv' /\ todo = <<>> /\ todo' = W /\ flash' = flash
         /\ \A p, k : Will(p, k)' = IF p \in S THEN u[p][k] ELSE flash[p + k - 1]
<1>1. /\ todo = <<>> /\ todo' = W /\ flash' = flash /\ attempt' = attempt /\ attempt = Start
      /\ left' = left /\ setting' = setting
  BY DEF Flash, FlashTypes
<1>2. FlashTypes'
  BY <1>1 DEF FlashTypes, Asks
<1>3. AttemptInv'
  <2>1. attempt'.unit = 0 /\ 1..0 - 1 = {}
    BY <1>1 DEF Start
  <2>2. todo' # <<>> => Request' \in Requests
    <3>1. todo' # <<>> => 1 \in DOMAIN todo' /\ \A n \in DOMAIN todo' : todo'[n] \in Requests
      BY <1>1, EmptySeq, LenProperties DEF Asks
    <3>2. QED BY <3>1 DEF Request
  <2>3. todo' # <<>> => 0 \in 0..Len(Request'.units)
    BY <2>2, RequestIs
  <2>4. QED BY <1>1, <2>1, <2>3 DEF AttemptInv
<1>4. ASSUME NEW p, NEW k PROVE Will(p, k)' = IF p \in S THEN u[p][k] ELSE flash[p + k - 1]
  <2>1. CASE p \in S
    <3>1. PICK n \in DOMAIN todo' : todo'[n].start = p /\ todo'[n].units = u[p]
      BY <1>1, <2>1 DEF Asks
    <3>2. Writes(p)' = {n}
      BY <1>1, <3>1 DEF Writes, Asks
    <3>3. n = CHOOSE m \in {n} : TRUE
      OBVIOUS
    <3>4. QED BY <2>1, <3>1, <3>2, <3>3 DEF Will
  <2>2. CASE p \notin S
    <3>1. Writes(p)' = {}
      BY <1>1, <2>2 DEF Writes, Asks
    <3>2. QED BY <1>1, <2>2, <3>1 DEF Will
  <2>3. QED BY <2>1, <2>2
<1>5. QED BY <1>1, <1>2, <1>3, <1>4

\* What is written to the sectors of the cycle saves, and of the owl saves.
Fill(x, y) == [p \in Starts |-> IF p < 4 THEN x ELSE y]
OwlSectors(f) == {MainStart(Owl(f)), BackupStart(Owl(f))}

\* Where the sectors of a file are: those of the cycle saves come first.
LEMMA Below ==
  ASSUME NEW f \in Files, NEW x, NEW y
  PROVE  /\ MainStart(f) \in Starts /\ MainStart(f) < 4 /\ Fill(x, y)[MainStart(f)] = x
         /\ MainStart(Owl(f)) \in Starts /\ MainStart(Owl(f)) >= 4 /\ Fill(x, y)[MainStart(Owl(f))] = y
         /\ BackupStart(Owl(f)) \in Starts /\ BackupStart(Owl(f)) >= 4
         /\ Fill(x, y)[BackupStart(Owl(f))] = y
         /\ MainStart(Owl(f)) # BackupStart(Owl(f)) /\ MainStart(f) \notin OwlSectors(f)
         /\ OwlSectors(f) \subseteq Starts /\ \A p \in OwlSectors(f) : p >= 4
<1>1. f \in Nat /\ f <= 1
  BY DEF Files
<1>2. /\ MainStart(f) = 2 * f /\ MainStart(Owl(f)) = 4 * f + 4 /\ BackupStart(Owl(f)) = 4 * f + 6
      /\ MainStart(f) \in Starts /\ MainStart(Owl(f)) \in Starts /\ BackupStart(Owl(f)) \in Starts
  BY Map
<1>3. MainStart(f) < 4 /\ MainStart(Owl(f)) >= 4 /\ BackupStart(Owl(f)) >= 4
      /\ MainStart(Owl(f)) # BackupStart(Owl(f))
  BY <1>1, <1>2
<1>4. ~(MainStart(Owl(f)) < 4) /\ ~(BackupStart(Owl(f)) < 4)
  BY <1>1, <1>2
<1>5. QED BY <1>2, <1>3, <1>4 DEF Fill, OwlSectors

\* Writes a cycle save.
LEMMA AsksCycle ==
  ASSUME NEW f \in Files, NEW x \in Seq(Cells), Len(x) \in 1..2, NEW y
  PROVE  Asks(WriteMain(f, x), {MainStart(f)}, Fill(x, y))
<1>1. MainStart(f) \in Starts /\ ~(MainStart(f) >= 4) /\ Fill(x, y)[MainStart(f)] = x
  BY Below, Map, Sectors
<1>2. Asks(<<Write(MainStart(f), Fill(x, y)[MainStart(f)])>>, {MainStart(f)}, Fill(x, y))
  BY <1>1, AsksOne
<1>3. QED BY <1>1, <1>2 DEF WriteMain

\* Writes an owl save, its backup, or both.
LEMMA AsksOwl ==
  ASSUME NEW f \in Files, NEW x, NEW y \in Seq(Cells), Len(y) = 2
  PROVE  /\ Asks(WriteMain(Owl(f), y), {MainStart(Owl(f))}, Fill(x, y))
         /\ Asks(<<Write(BackupStart(Owl(f)), y)>>, {BackupStart(Owl(f))}, Fill(x, y))
         /\ Asks(WriteMain(Owl(f), y) \o <<Write(BackupStart(Owl(f)), y)>>, OwlSectors(f), Fill(x, y))
<1>1. /\ MainStart(Owl(f)) \in Starts /\ Fill(x, y)[MainStart(Owl(f))] = y
      /\ BackupStart(Owl(f)) \in Starts /\ Fill(x, y)[BackupStart(Owl(f))] = y
      /\ MainStart(Owl(f)) # BackupStart(Owl(f)) /\ Len(y) \in 1..2
  BY Below
<1>2. Asks(<<Write(MainStart(Owl(f)), Fill(x, y)[MainStart(Owl(f))])>>, {MainStart(Owl(f))}, Fill(x, y))
  BY <1>1, AsksOne
<1>3. Asks(<<Write(BackupStart(Owl(f)), Fill(x, y)[BackupStart(Owl(f))])>>, {BackupStart(Owl(f))},
           Fill(x, y))
  BY <1>1, AsksOne
<1>4. /\ Asks(WriteMain(Owl(f), y), {MainStart(Owl(f))}, Fill(x, y))
      /\ Asks(<<Write(BackupStart(Owl(f)), y)>>, {BackupStart(Owl(f))}, Fill(x, y))
  BY <1>1, <1>2, <1>3 DEF WriteMain
<1>5. {MainStart(Owl(f))} \cap {BackupStart(Owl(f))} = {}
      /\ {MainStart(Owl(f))} \cup {BackupStart(Owl(f))} = OwlSectors(f)
  BY <1>1 DEF OwlSectors
<1>6. Asks(WriteMain(Owl(f), y) \o <<Write(BackupStart(Owl(f)), y)>>,
           {MainStart(Owl(f))} \cup {BackupStart(Owl(f))}, Fill(x, y))
  BY <1>4, <1>5, AsksBoth
<1>7. QED BY <1>4, <1>5, <1>6

\* Invalidates the owl save, and then writes the cycle save.
LEMMA AsksInvalidate ==
  ASSUME NEW f \in Files, NEW x
  PROVE  /\ Asks(InvalidateOwlSave(f), OwlSectors(f), Fill(x, Image(Zeros, 2)))
         /\ x \in Seq(Cells) /\ Len(x) \in 1..2 =>
              Asks(InvalidateOwlSave(f) \o WriteMain(f, x), OwlSectors(f) \cup {MainStart(f)},
                   Fill(x, Image(Zeros, 2)))
<1>1. Image(Zeros, 2) \in Seq(Cells) /\ Len(Image(Zeros, 2)) = 2
  <2>1. 2 \in 1..2
    OBVIOUS
  <2>2. QED BY <2>1, Blank, ImageIs
<1>2. Asks(InvalidateOwlSave(f), OwlSectors(f), Fill(x, Image(Zeros, 2)))
  BY <1>1, AsksOwl DEF InvalidateOwlSave, InvalidateMain
<1>3. OwlSectors(f) \cap {MainStart(f)} = {}
  BY Below
<1>4. QED BY <1>2, <1>3, AsksCycle, AsksBoth

\* Two saves that differ in the configuration and the checksum only.
Alike(t, s) == /\ t.stamp = s.stamp /\ t.owl = s.owl /\ t.crash = s.crash
               /\ t.cycling = s.cycling /\ t.whole = s.whole

\* A save whose configuration is changed is a save of the same shape.
LEMMA ConfigIs ==
  ASSUME NEW q \in Seq(Cells), NEW c \in {0, 1}
  PROVE  /\ WithConfig(q, c) \in Seq(Cells) /\ Len(WithConfig(q, c)) = Len(q)
         /\ \A k \in DOMAIN q :
              /\ WithConfig(q, c)[k].save \in SaveRecs /\ WithConfig(q, c)[k].part = q[k].part
              /\ Alike(WithConfig(q, c)[k].save, q[k].save)
<1> DEFINE new(k) == [q[k] EXCEPT !.save.config = c, !.save.sum = TRUE]
<1>1. WithConfig(q, c) = [k \in 1..Len(q) |-> new(k)]
  BY LenProperties DEF WithConfig
<1>2. ASSUME NEW k \in 1..Len(q)
      PROVE  /\ new(k) \in Cells /\ new(k).part = q[k].part
             /\ Alike(new(k).save, q[k].save) /\ new(k).save \in SaveRecs
  <2>1. q[k] \in Cells
    BY ElementOfSeq
  <2>2. /\ q[k].save \in SaveRecs /\ q[k].part \in {1, 2}
        /\ q[k] = [save |-> q[k].save, part |-> q[k].part]
    BY <2>1 DEF Cells
  <2>3. [q[k].save EXCEPT !.config = c, !.sum = TRUE] \in SaveRecs
    BY <2>2 DEF SaveRecs
  <2>4. Alike([q[k].save EXCEPT !.config = c, !.sum = TRUE], q[k].save)
    BY <2>2 DEF Alike, SaveRecs
  <2>5. QED BY <2>1, <2>2, <2>3, <2>4 DEF Cells
<1> HIDE DEF new
<1>3. Len(q) \in Nat /\ DOMAIN q = 1..Len(q)
  BY LenProperties
<1>4. WithConfig(q, c) \in [1..Len(q) -> Cells]
  BY <1>1, <1>2
<1>5. WithConfig(q, c) \in Seq(Cells) /\ Len(WithConfig(q, c)) = Len(q)
  BY <1>3, <1>4, Listed
<1>6. \A k \in 1..Len(q) : WithConfig(q, c)[k] = new(k)
  BY <1>1
<1>7. QED BY <1>2, <1>3, <1>5, <1>6

\* Nor does it change its shape that its checksum is another save's.
LEMMA WrongSumIs ==
  ASSUME NEW q \in Seq(Cells)
  PROVE  /\ WrongSum(q) \in Seq(Cells) /\ Len(WrongSum(q)) = Len(q)
         /\ \A k \in DOMAIN q :
              /\ WrongSum(q)[k].save \in SaveRecs /\ WrongSum(q)[k].part = q[k].part
              /\ WrongSum(q)[k].save = [q[k].save EXCEPT !.sum = FALSE]
<1> DEFINE new(k) == [q[k] EXCEPT !.save.sum = FALSE]
<1>1. WrongSum(q) = [k \in 1..Len(q) |-> new(k)]
  BY LenProperties DEF WrongSum
<1>2. ASSUME NEW k \in 1..Len(q)
      PROVE  /\ new(k) \in Cells /\ new(k).part = q[k].part
             /\ new(k).save = [q[k].save EXCEPT !.sum = FALSE] /\ new(k).save \in SaveRecs
  <2>1. q[k] \in Cells
    BY ElementOfSeq
  <2>2. /\ q[k].save \in SaveRecs /\ q[k].part \in {1, 2}
        /\ q[k] = [save |-> q[k].save, part |-> q[k].part]
    BY <2>1 DEF Cells
  <2>3. [q[k].save EXCEPT !.sum = FALSE] \in SaveRecs
    BY <2>2 DEF SaveRecs
  <2>4. QED BY <2>1, <2>2, <2>3 DEF Cells
<1> HIDE DEF new
<1>3. Len(q) \in Nat /\ DOMAIN q = 1..Len(q)
  BY LenProperties
<1>4. WrongSum(q) \in [1..Len(q) -> Cells]
  BY <1>1, <1>2
<1>5. WrongSum(q) \in Seq(Cells) /\ Len(WrongSum(q)) = Len(q)
  BY <1>3, <1>4, Listed
<1>6. \A k \in 1..Len(q) : WrongSum(q)[k] = new(k)
  BY <1>1
<1>7. QED BY <1>2, <1>3, <1>5, <1>6

\* A save that is made.
LEMMA MadeIs ==
  ASSUME GameTypes, NEW s \in SaveRecs, fileNum' \in Files, Made(s)
  PROVE  /\ saves' = saves + 1 /\ saves < setting.saves
         /\ ctx' \in SaveRecs /\ ctx'.stamp = saves + 1 /\ ctx'.owl = s.owl /\ ctx'.crash = s.crash
         /\ ctx'.config = s.config /\ ctx'.cycling = s.cycling /\ ctx'.whole = s.whole /\ ctx'.sum
         /\ latest' \in [Files -> [cycle : Nat, owl : Nat, config : {0, 1}]]
         /\ \A f \in Files : f # fileNum' => latest'[f] = latest[f]
         /\ latest'[fileNum'] = [cycle |-> IF s.whole THEN latest[fileNum'].cycle ELSE saves + 1,
                                 owl |-> IF s.whole THEN saves + 1 ELSE 0, config |-> s.config]
<1>1. /\ saves \in Nat /\ latest \in [Files -> [cycle : Nat, owl : Nat, config : {0, 1}]]
      /\ s.config \in {0, 1} /\ saves + 1 \in Nat
  BY DEF GameTypes, SaveRecs
<1>2. ctx' = [s EXCEPT !.stamp = saves + 1, !.sum = TRUE] /\ saves' = saves + 1 /\ saves < setting.saves
  BY DEF Made
<1>3. /\ ctx' \in SaveRecs /\ ctx'.stamp = saves + 1 /\ ctx'.owl = s.owl /\ ctx'.crash = s.crash
      /\ ctx'.config = s.config /\ ctx'.cycling = s.cycling /\ ctx'.whole = s.whole /\ ctx'.sum
  <2>1. TRUE \in BOOLEAN /\ saves + 1 \in Int
    BY <1>1
  <2>2. /\ ctx' \in SaveRecs /\ ctx'.stamp = saves + 1 /\ ctx'.owl = s.owl /\ ctx'.crash = s.crash
        /\ ctx'.config = s.config /\ ctx'.cycling = s.cycling /\ ctx'.whole = s.whole
    BY <1>2, <2>1 DEF SaveRecs
  <2>3. ctx'.sum = TRUE
    BY <1>2 DEF SaveRecs
  <2>4. QED BY <2>2, <2>3
<1>4. latest' = [latest EXCEPT ![fileNum'] =
                   [cycle |-> IF s.whole THEN latest[fileNum'].cycle ELSE saves + 1,
                    owl |-> IF s.whole THEN saves + 1 ELSE 0, config |-> s.config]]
  BY DEF Made
<1>5. [cycle |-> IF s.whole THEN latest[fileNum'].cycle ELSE saves + 1,
       owl |-> IF s.whole THEN saves + 1 ELSE 0, config |-> s.config]
        \in [cycle : Nat, owl : Nat, config : {0, 1}]
  BY <1>1
<1>6. QED BY <1>1, <1>2, <1>3, <1>4, <1>5

\* The flash thread has been asked to write x, or y for an owl save, to the sectors S.
Sent(S, x, y) ==
  /\ FlashTypes' /\ AttemptInv' /\ todo = <<>> /\ flash' = flash
  /\ Asks(todo', S, Fill(x, y))
  /\ \A p \in Starts : \A k :
       Will(p, k)' = IF p \notin S THEN flash[p + k - 1]
                     ELSE IF p < 4 THEN x[k] ELSE y[k]
  /\ left' = left /\ setting' = setting

\* The writes a step asks for are as described.
LEMMA SentBy ==
  ASSUME FlashTypes, AttemptInv, UNCHANGED <<left, setting>>,
         NEW W, NEW S, NEW x, NEW y, Asks(W, S, Fill(x, y)), Flash(W)
  PROVE  Sent(S, x, y)
<1>1. /\ FlashTypes' /\ AttemptInv' /\ todo = <<>> /\ todo' = W /\ flash' = flash
      /\ \A p, k : Will(p, k)' = IF p \in S THEN Fill(x, y)[p][k] ELSE flash[p + k - 1]
  BY Asked
<1>2. \A p \in Starts : Fill(x, y)[p] = IF p < 4 THEN x ELSE y
  BY DEF Fill
<1>3. \A p \in Starts : \A k :
        Will(p, k)' = IF p \notin S THEN flash[p + k - 1]
                      ELSE IF p < 4 THEN x[k] ELSE y[k]
  BY <1>1, <1>2
<1>4. QED BY <1>1, <1>3 DEF Sent

\* It asks for none.
LEMMA SentNone ==
  ASSUME FlashTypes, AttemptInv, UNCHANGED <<left, setting>>, Flash(<<>>)
  PROVE  Sent({}, <<>>, <<>>)
BY AsksNone, SentBy

\* What is known before a step of the game.
GameStep == FlashTypes /\ AttemptInv /\ GameTypes /\ UNCHANGED <<left, setting>>

\* The checks of the start.
LEMMA CheckGoodDoes ==
  ASSUME GameStep, CheckFile, CheckGood
  PROVE  /\ \/ Sent({}, <<>>, <<>>) /\ Backup(file) = Main(file)
            \/ file \in Files /\ Sent({MainStart(file)}, Main(file) \o Main(file), <<>>)
            \/ file \notin Files /\ Sent({BackupStart(file)}, <<>>, Main(file))
         /\ GameTypes' /\ file \in Tables /\ file' = file + 1 /\ phase = "boot" /\ phase' = "boot"
         /\ info' = [info EXCEPT ![file] = Occupied(Main(file))]
         /\ UNCHANGED <<ctx, fileNum, saves, latest>>
<1>1. /\ FlashTypes /\ AttemptInv /\ UNCHANGED <<left, setting>> /\ GameTypes
      /\ file \in Tables /\ file' = file + 1 /\ phase = "boot" /\ phase' = phase
      /\ info' = [info EXCEPT ![file] = Occupied(Main(file))]
      /\ UNCHANGED <<ctx, fileNum, saves, latest>>
      /\ Flash(IF Backup(file) = Main(file) THEN <<>> ELSE RepairBackup(file))
  BY DEF GameStep, CheckFile, CheckGood
<1>2. /\ Main(file) \in Seq(Cells) /\ Len(Main(file)) = Count(file) /\ Count(file) \in 1..2
      /\ file \in Files <=> Count(file) = 1
      /\ Main(file)[1] \in Cells
  BY <1>1, ReadIs, Map
<1>3. GameTypes'
  <2>1. Occupied(Main(file)) \in [used : BOOLEAN, owl : BOOLEAN]
    BY <1>2 DEF Occupied, Cells, SaveRecs
  <2>2. file + 1 \in 0..4
    BY <1>1 DEF Tables
  <2>3. info' \in [Tables -> [used : BOOLEAN, owl : BOOLEAN]]
    BY <1>1, <2>1 DEF GameTypes
  <2>4. QED BY <1>1, <2>2, <2>3 DEF GameTypes
<1>4. CASE Backup(file) = Main(file)
  BY <1>1, <1>3, <1>4, SentNone
<1>5. CASE Backup(file) # Main(file) /\ file \in Files
  <2>1. Main(file) \o Main(file) \in Seq(Cells) /\ Len(Main(file) \o Main(file)) \in 1..2
    BY <1>2, <1>5, ConcatProperties
  <2>2. Asks(WriteMain(file, Main(file) \o Main(file)), {MainStart(file)},
             Fill(Main(file) \o Main(file), <<>>))
    BY <1>5, <2>1, AsksCycle
  <2>3. Flash(WriteMain(file, Main(file) \o Main(file)))
    BY <1>1, <1>5 DEF RepairBackup
  <2>4. Sent({MainStart(file)}, Main(file) \o Main(file), <<>>)
    BY <1>1, <2>2, <2>3, SentBy
  <2>5. QED BY <1>1, <1>3, <1>5, <2>4
<1>6. CASE Backup(file) # Main(file) /\ file \notin Files
  <2>1. PICK f \in Files : file = Owl(f)
    BY <1>1, <1>6, Map
  <2>2. Len(Main(file)) = 2
    BY <1>2, <1>6
  <2>3. Asks(<<Write(BackupStart(file), Main(file))>>, {BackupStart(file)}, Fill(<<>>, Main(file)))
    BY <1>2, <2>1, <2>2, AsksOwl
  <2>4. Flash(<<Write(BackupStart(file), Main(file))>>)
    BY <1>1, <1>6 DEF RepairBackup
  <2>5. Sent({BackupStart(file)}, <<>>, Main(file))
    BY <1>1, <2>3, <2>4, SentBy
  <2>6. QED BY <1>1, <1>3, <1>6, <2>5
<1>7. QED BY <1>4, <1>5, <1>6

\* A bad save, with or without a good backup.
LEMMA CheckBadDoes ==
  ASSUME GameStep, CheckFile, CheckEmpty \/ CheckBackup
  PROVE  /\ Sent({}, <<>>, <<>>) /\ GameTypes' /\ file \in Tables /\ phase = "boot"
         /\ ~Valid(file, Main(file)) /\ UNCHANGED <<info, ctx, fileNum, saves, latest>>
         /\ \/ file' = file + 1 /\ phase' = "boot" /\ ~Valid(file, Backup(file))
            \/ phase' = "hung"
<1>1. /\ FlashTypes /\ AttemptInv /\ UNCHANGED <<left, setting>> /\ GameTypes /\ Flash(<<>>)
      /\ file \in Tables /\ phase = "boot" /\ ~Valid(file, Main(file))
      /\ UNCHANGED <<info, ctx, fileNum, saves, latest>>
      /\ \/ file' = file + 1 /\ phase' = "boot" /\ ~Valid(file, Backup(file))
         \/ phase' = "hung" /\ file' = file
  BY DEF GameStep, CheckFile, CheckEmpty, CheckBackup
<1>2. file + 1 \in 0..4
  BY <1>1 DEF Tables
<1>3. GameTypes'
  BY <1>1, <1>2 DEF GameTypes
<1>4. QED BY <1>1, <1>3, SentNone

\* The end of the checks.
LEMMA FilesCheckedDoes ==
  ASSUME GameStep, FilesChecked
  PROVE  /\ Sent({}, <<>>, <<>>) /\ GameTypes' /\ phase = "boot" /\ phase' = "select"
         /\ file = 4 /\ UNCHANGED <<file, info, ctx, fileNum, saves, latest>>
<1>1. /\ FlashTypes /\ AttemptInv /\ UNCHANGED <<left, setting>> /\ GameTypes /\ Flash(<<>>)
      /\ file \notin Tables /\ file \in 0..4 /\ phase = "boot" /\ phase' = "select"
      /\ UNCHANGED <<file, info, ctx, fileNum, saves, latest>>
  BY DEF GameStep, FilesChecked, GameTypes
<1>2. file = 4
  BY <1>1 DEF Tables
<1>3. GameTypes'
  BY <1>1 DEF GameTypes
<1>4. QED BY <1>1, <1>2, <1>3, SentNone

\* The console is switched off and on.
LEMMA BootDoes ==
  ASSUME GameTypes, Boot
  PROVE  /\ GameTypes' /\ phase' = "boot" /\ file' = 0 /\ ctx' = Zeros
         /\ info' = [i \in Tables |-> NoInfo] /\ saves' = saves /\ latest' = latest
<1>1. NoInfo \in [used : BOOLEAN, owl : BOOLEAN]
  BY DEF NoInfo
<1>2. info' \in [Tables -> [used : BOOLEAN, owl : BOOLEAN]]
  BY <1>1 DEF Boot
<1>3. GameTypes'
  BY <1>2, Blank DEF Boot, GameTypes, Files
<1>4. QED BY <1>3 DEF Boot

\* The console is switched off.
LEMMA SwitchOffDoes ==
  ASSUME GameStep, SwitchOff
  PROVE  Sent({}, <<>>, <<>>) /\ Boot /\ GameTypes'
BY SentNone, BootDoes DEF SwitchOff, GameStep

\* The power goes while something is left to be written.
LEMMA PowerCutDoes ==
  ASSUME FlashTypes, AttemptInv, GameTypes, PowerCut
  PROVE  /\ FlashTypes' /\ AttemptInv' /\ GameTypes' /\ Boot
         /\ flash' = flash /\ todo' = <<>> /\ setting' = setting /\ left.cuts > 0
         /\ \A p, k : Will(p, k)' = flash[p + k - 1]
<1>1. /\ left.cuts > 0 /\ left' = [left EXCEPT !.cuts = left.cuts - 1] /\ todo' = <<>>
      /\ attempt' = Start /\ flash' = flash /\ setting' = setting /\ Boot
      /\ left \in [errors : Nat, cuts : Nat]
      /\ attempt \in [unit : 0..2, tries : 0..MaxRetries]
      /\ attempt.tries + left.errors <= setting.errors
      /\ DOMAIN todo' = {}
  BY DEF PowerCut, FlashTypes, AttemptInv
<1>2. /\ left' \in [errors : Nat, cuts : Nat] /\ left'.errors = left.errors
      /\ setting.errors \in Nat /\ MaxRetries = 3
  BY <1>1, SettingsAssumption DEF FlashTypes, MaxRetries
<1>3. /\ Start \in [unit : 0..2, tries : 0..MaxRetries] /\ Start.tries = 0
      /\ todo' \in Seq(Requests)
  BY <1>1, <1>2 DEF Start
<1>4. FlashTypes'
  BY <1>1, <1>2, <1>3 DEF FlashTypes
<1>5. AttemptInv'
  <2>1. attempt'.tries + left'.errors <= setting'.errors
    BY <1>1, <1>2, <1>3
  <2>2. QED BY <1>1, <2>1 DEF AttemptInv
<1>6. \A p, k : Will(p, k)' = flash[p + k - 1]
  BY <1>1 DEF Will, Writes
<1>7. QED BY <1>1, <1>4, <1>5, <1>6, BootDoes

\* The running game or the menu makes a save with these flags for a file.
Creates(f, owl, crash, config, cycling, whole) ==
  /\ saves' = saves + 1
  /\ ctx' \in SaveRecs /\ ctx'.stamp = saves + 1 /\ ctx'.owl = owl /\ ctx'.crash = crash
  /\ ctx'.config = config /\ ctx'.cycling = cycling /\ ctx'.whole = whole /\ ctx'.sum
  /\ \A g \in Files : g # f => latest'[g] = latest[g]
  /\ latest'[f] = [cycle |-> IF whole THEN latest[f].cycle ELSE saves + 1,
                   owl |-> IF whole THEN saves + 1 ELSE 0, config |-> config]

\* Makes a save.
LEMMA CreatesIs ==
  ASSUME GameTypes, NEW s \in SaveRecs, NEW f \in Files, fileNum' = f, Made(s),
         phase' \in {"select", "play", "leave", "crashed"}, file' = file,
         info' \in [Tables -> [used : BOOLEAN, owl : BOOLEAN]]
  PROVE  GameTypes' /\ Creates(f, s.owl, s.crash, s.config, s.cycling, s.whole)
<1>1. fileNum' \in Files
  OBVIOUS
<1>2. /\ saves' = saves + 1
      /\ ctx' \in SaveRecs /\ ctx'.stamp = saves + 1 /\ ctx'.owl = s.owl /\ ctx'.crash = s.crash
      /\ ctx'.config = s.config /\ ctx'.cycling = s.cycling /\ ctx'.whole = s.whole /\ ctx'.sum
      /\ latest' \in [Files -> [cycle : Nat, owl : Nat, config : {0, 1}]]
      /\ \A g \in Files : g # fileNum' => latest'[g] = latest[g]
      /\ latest'[fileNum'] = [cycle |-> IF s.whole THEN latest[fileNum'].cycle ELSE saves + 1,
                              owl |-> IF s.whole THEN saves + 1 ELSE 0, config |-> s.config]
  BY <1>1, MadeIs
<1>3. Creates(f, s.owl, s.crash, s.config, s.cycling, s.whole)
  BY <1>2 DEF Creates
<1>4. saves' \in Nat
  BY <1>2 DEF GameTypes
<1>5. GameTypes'
  BY <1>1, <1>2, <1>4 DEF GameTypes
<1>6. QED BY <1>3, <1>5

\* What the menu shows when two flags are changed.
LEMMA TwoFlags ==
  ASSUME GameTypes, NEW i \in Tables, NEW j \in Tables, NEW b \in BOOLEAN, NEW c \in BOOLEAN,
         info' = [info EXCEPT ![i].used = b, ![j].owl = c]
  PROVE  /\ info' \in [Tables -> [used : BOOLEAN, owl : BOOLEAN]]
         /\ (info'[i].used <=> b) /\ (info'[j].owl <=> c)
         /\ \A k \in Tables : /\ k # i => info'[k].used = info[k].used
                              /\ k # j => info'[k].owl = info[k].owl
<1> DEFINE m == [info EXCEPT ![i].used = b]
<1>1. /\ m \in [Tables -> [used : BOOLEAN, owl : BOOLEAN]]
      /\ \A k \in Tables : /\ m[k].used = IF k = i THEN b ELSE info[k].used
                           /\ m[k].owl = info[k].owl
  BY DEF GameTypes
<1>2. info' = [m EXCEPT ![j].owl = c]
  OBVIOUS
<1> HIDE DEF m
<1>3. /\ info' \in [Tables -> [used : BOOLEAN, owl : BOOLEAN]]
      /\ \A k \in Tables : /\ info'[k].used = m[k].used
                           /\ info'[k].owl = IF k = j THEN c ELSE m[k].owl
  BY <1>1, <1>2
<1>4. QED BY <1>1, <1>3

\* A new file.
LEMMA InitSaveDoes ==
  ASSUME GameStep, NEW f \in Files, InitSave(f)
  PROVE  /\ Sent({MainStart(f)}, Twice(ctx'), <<>>) /\ GameTypes'
         /\ phase = "select" /\ phase' = "select" /\ ~info[f].used /\ fileNum' = f
         /\ info' = [info EXCEPT ![f].used = TRUE]
         /\ Creates(f, FALSE, ctx.crash, 0, FALSE, FALSE)
<1>1. /\ FlashTypes /\ AttemptInv /\ UNCHANGED <<left, setting>> /\ GameTypes
      /\ phase = "select" /\ phase' = "select" /\ ~info[f].used /\ fileNum' = f /\ file' = file
      /\ info' = [info EXCEPT ![f].used = TRUE]
      /\ Made([Zeros EXCEPT !.crash = ctx.crash])
      /\ Flash(WriteMain(f, Twice(ctx')))
  BY DEF GameStep, InitSave
<1> DEFINE s == [Zeros EXCEPT !.crash = ctx.crash]
<1>2. /\ s \in SaveRecs /\ s.owl = FALSE /\ s.crash = ctx.crash /\ s.config = 0
      /\ s.cycling = FALSE /\ s.whole = FALSE
  <2>1. /\ Zeros \in SaveRecs /\ ctx.crash \in BOOLEAN
    BY <1>1, Blank DEF GameTypes, SaveRecs
  <2>2. Zeros.owl = FALSE /\ Zeros.config = 0 /\ Zeros.cycling = FALSE /\ Zeros.whole = FALSE
    BY DEF Zeros
  <2>3. QED BY <2>1, <2>2 DEF SaveRecs
<1> HIDE DEF s
<1>3. Made(s)
  BY <1>1 DEF s
<1>4. info' \in [Tables -> [used : BOOLEAN, owl : BOOLEAN]]
  BY <1>1 DEF GameTypes
<1>5. GameTypes' /\ Creates(f, s.owl, s.crash, s.config, s.cycling, s.whole)
  BY <1>1, <1>2, <1>3, <1>4, CreatesIs
<1>6. Twice(ctx') \in Seq(Cells) /\ Len(Twice(ctx')) \in 1..2
  BY <1>5, TwiceIs DEF Creates
<1>7. Asks(WriteMain(f, Twice(ctx')), {MainStart(f)}, Fill(Twice(ctx'), <<>>))
  BY <1>6, AsksCycle
<1>8. Sent({MainStart(f)}, Twice(ctx'), <<>>)
  BY <1>1, <1>7, SentBy
<1>9. QED BY <1>1, <1>2, <1>5, <1>8

\* A file is erased.
LEMMA EraseSaveDoes ==
  ASSUME GameStep, NEW f \in Files, EraseSave(f)
  PROVE  /\ Sent((IF info[Owl(f)].owl THEN OwlSectors(f) ELSE {}) \cup {MainStart(f)},
                 Twice(Zeros), Image(Zeros, 2))
         /\ GameTypes' /\ phase = "select" /\ phase' = "select"
         /\ info' = [info EXCEPT ![f].used = FALSE, ![Owl(f)].owl = FALSE]
         /\ ctx' = Zeros /\ latest' = [latest EXCEPT ![f] = None] /\ UNCHANGED <<fileNum, saves>>
<1>1. /\ FlashTypes /\ AttemptInv /\ UNCHANGED <<left, setting>> /\ GameTypes
      /\ phase = "select" /\ phase' = "select"
      /\ info' = [info EXCEPT ![f].used = FALSE, ![Owl(f)].owl = FALSE]
      /\ ctx' = Zeros /\ latest' = [latest EXCEPT ![f] = None] /\ UNCHANGED <<file, fileNum, saves>>
      /\ Flash((IF info[Owl(f)].owl THEN InvalidateOwlSave(f) ELSE <<>>) \o WriteMain(f, Twice(Zeros)))
  BY DEF GameStep, EraseSave
<1>2. GameTypes'
  <2>1. info' \in [Tables -> [used : BOOLEAN, owl : BOOLEAN]]
    BY <1>1, Map, TwoFlags
  <2>2. latest' \in [Files -> [cycle : Nat, owl : Nat, config : {0, 1}]]
    BY <1>1 DEF GameTypes, None
  <2>3. QED BY <1>1, <2>1, <2>2, Blank DEF GameTypes
<1>3. Twice(Zeros) \in Seq(Cells) /\ Len(Twice(Zeros)) \in 1..2
  BY Blank, TwiceIs
<1>4. CASE info[Owl(f)].owl
  <2>1. Asks(InvalidateOwlSave(f) \o WriteMain(f, Twice(Zeros)), OwlSectors(f) \cup {MainStart(f)},
             Fill(Twice(Zeros), Image(Zeros, 2)))
    BY <1>3, AsksInvalidate
  <2>2. Flash(InvalidateOwlSave(f) \o WriteMain(f, Twice(Zeros)))
    BY <1>1, <1>4
  <2>3. Sent(OwlSectors(f) \cup {MainStart(f)}, Twice(Zeros), Image(Zeros, 2))
    BY <1>1, <2>1, <2>2, SentBy
  <2>4. QED BY <1>1, <1>2, <1>4, <2>3
<1>5. CASE ~info[Owl(f)].owl
  <2>1. Asks(WriteMain(f, Twice(Zeros)), {MainStart(f)}, Fill(Twice(Zeros), Image(Zeros, 2)))
    BY <1>3, AsksCycle
  <2>2. Asks(<<>>, {}, Fill(Twice(Zeros), Image(Zeros, 2)))
    BY AsksNone
  <2>3. Asks(<<>> \o WriteMain(f, Twice(Zeros)), {} \cup {MainStart(f)},
             Fill(Twice(Zeros), Image(Zeros, 2)))
    BY <2>1, <2>2, AsksBoth
  <2>4. Flash(<<>> \o WriteMain(f, Twice(Zeros)))
    BY <1>1, <1>5
  <2>5. Sent({} \cup {MainStart(f)}, Twice(Zeros), Image(Zeros, 2))
    BY <1>1, <2>3, <2>4, SentBy
  <2>6. QED BY <1>1, <1>2, <1>5, <2>5
<1>6. QED BY <1>4, <1>5

\* A file is copied.
LEMMA CopySaveDoes ==
  ASSUME GameStep, NEW src \in Files, NEW dst \in Files, CopySave(src, dst)
  PROVE  /\ Sent((IF info[Owl(src)].owl THEN OwlSectors(dst) ELSE {}) \cup {MainStart(dst)},
                 Main(src) \o Backup(src), Main(Owl(src)))
         /\ Len(Main(src) \o Backup(src)) = 2
         /\ (Main(src) \o Backup(src))[1] = Main(src)[1]
         /\ (Main(src) \o Backup(src))[2] = Backup(src)[1]
         /\ GameTypes' /\ phase = "select" /\ phase' = "select"
         /\ info[src].used /\ ~info[dst].used /\ (info[Owl(src)].owl => setting.copies = "owl")
         /\ setting.copies # "none"
         /\ info' = [info EXCEPT ![dst].used = HasNewf(Main(src)),
                                   ![Owl(dst)].owl = Occupied(Main(src)).owl]
         /\ ctx' = Main(src)[1].save /\ latest' = [latest EXCEPT ![dst] = latest[src]]
         /\ UNCHANGED <<fileNum, saves>>
<1> DEFINE x == Main(src) \o Backup(src)
           y == Main(Owl(src))
<1>1. /\ FlashTypes /\ AttemptInv /\ UNCHANGED <<left, setting>> /\ GameTypes
      /\ phase = "select" /\ phase' = "select" /\ info[src].used /\ ~info[dst].used
      /\ (info[Owl(src)].owl => setting.copies = "owl") /\ setting.copies # "none"
      /\ info' = [info EXCEPT ![dst].used = HasNewf(Main(src)),
                                ![Owl(dst)].owl = Occupied(Main(src)).owl]
      /\ ctx' = Main(src)[1].save /\ latest' = [latest EXCEPT ![dst] = latest[src]]
      /\ UNCHANGED <<file, fileNum, saves>>
      /\ Flash((IF info[Owl(src)].owl
                THEN WriteMain(Owl(dst), y) \o <<Write(BackupStart(Owl(dst)), y)>>
                ELSE <<>>)
               \o WriteMain(dst, x))
  BY DEF GameStep, CopySave
<1>2. /\ Main(src) \in Seq(Cells) /\ Len(Main(src)) = 1 /\ Main(src)[1] \in Cells
      /\ Backup(src) \in Seq(Cells) /\ Len(Backup(src)) = 1
      /\ y \in Seq(Cells) /\ Len(y) = 2
  <2>1. Count(src) = 1 /\ Count(Owl(src)) = 2 /\ src \in Tables /\ Owl(src) \in Tables
    BY Map
  <2>2. QED BY <1>1, <2>1, ReadIs
<1>3. /\ x \in Seq(Cells) /\ Len(x) = 2 /\ x[1] = Main(src)[1] /\ x[2] = Backup(src)[1]
  <2>1. /\ x \in Seq(Cells) /\ Len(x) = 1 + 1
        /\ \A i \in 1..1 + 1 : x[i] = IF i <= 1 THEN Main(src)[i] ELSE Backup(src)[i - 1]
    BY <1>2, ConcatProperties
  <2>2. QED BY <2>1
<1>4. GameTypes'
  <2>1. HasNewf(Main(src)) \in BOOLEAN /\ Occupied(Main(src)).owl \in BOOLEAN
    BY <1>2 DEF HasNewf, Occupied, Cells, SaveRecs
  <2>2. info' \in [Tables -> [used : BOOLEAN, owl : BOOLEAN]]
    BY <1>1, <2>1, Map, TwoFlags
  <2>3. latest' \in [Files -> [cycle : Nat, owl : Nat, config : {0, 1}]]
    BY <1>1 DEF GameTypes
  <2>4. ctx' \in SaveRecs
    BY <1>1, <1>2 DEF Cells
  <2>5. QED BY <1>1, <2>2, <2>3, <2>4 DEF GameTypes
<1> HIDE DEF x, y
<1>5. Asks(WriteMain(dst, x), {MainStart(dst)}, Fill(x, y))
  BY <1>3, AsksCycle
<1>6. Sent((IF info[Owl(src)].owl THEN OwlSectors(dst) ELSE {}) \cup {MainStart(dst)}, x, y)
  <2>1. CASE info[Owl(src)].owl
    <3>1. Asks(WriteMain(Owl(dst), y) \o <<Write(BackupStart(Owl(dst)), y)>>, OwlSectors(dst),
               Fill(x, y))
      BY <1>2, AsksOwl
    <3>2. OwlSectors(dst) \cap {MainStart(dst)} = {}
      BY Below
    <3>3. Asks((WriteMain(Owl(dst), y) \o <<Write(BackupStart(Owl(dst)), y)>>) \o WriteMain(dst, x),
               OwlSectors(dst) \cup {MainStart(dst)}, Fill(x, y))
      BY <1>5, <3>1, <3>2, AsksBoth
    <3>4. Flash((WriteMain(Owl(dst), y) \o <<Write(BackupStart(Owl(dst)), y)>>) \o WriteMain(dst, x))
      BY <1>1, <2>1
    <3>5. QED BY <1>1, <2>1, <3>3, <3>4, SentBy
  <2>2. CASE ~info[Owl(src)].owl
    <3>1. Asks(<<>>, {}, Fill(x, y))
      BY AsksNone
    <3>2. Asks(<<>> \o WriteMain(dst, x), {} \cup {MainStart(dst)}, Fill(x, y))
      BY <1>5, <3>1, AsksBoth
    <3>3. Flash(<<>> \o WriteMain(dst, x))
      BY <1>1, <2>2
    <3>4. QED BY <1>1, <2>2, <3>2, <3>3, SentBy
  <2>3. QED BY <2>1, <2>2
<1>7. QED BY <1>1, <1>3, <1>4, <1>6 DEF x, y

\* The configuration of a file is changed: what is written to its cycle save, and to its backup
\* the same with a checksum that is not its own.
Configured(f, c, x) ==
  /\ x \in Seq(Cells) /\ Len(x) \in 1..2 /\ x[1] = WithConfig(Main(f), c)[1]
  /\ Len(x) = 2 => x[2] = WrongSum(WithConfig(Backup(f), c))[1]

\* Writes the configuration to the owl save and the cycle save.
LEMMA SaveChaosConfigDoes ==
  ASSUME GameStep, NEW f \in Files, NEW c \in {0, 1}, SaveChaosConfig(f, c)
  PROVE  /\ \E x : /\ Configured(f, c, x)
                   /\ Sent((IF info[Owl(f)].owl THEN {MainStart(Owl(f))} ELSE {}) \cup {MainStart(f)},
                           x, WithConfig(Main(Owl(f)), c))
         /\ GameTypes' /\ phase = "select" /\ phase' = "select" /\ info[f].used
         /\ ctx' = [ctx EXCEPT !.config = c] /\ latest' = [latest EXCEPT ![f].config = c]
         /\ UNCHANGED <<info, fileNum, saves>>
<1> DEFINE m == WithConfig(Main(f), c)
           b == WrongSum(WithConfig(Backup(f), c))
           both == m \o b
           y == WithConfig(Main(Owl(f)), c)
<1>1. /\ FlashTypes /\ AttemptInv /\ UNCHANGED <<left, setting>> /\ GameTypes
      /\ phase = "select" /\ phase' = "select" /\ info[f].used
      /\ ctx' = [ctx EXCEPT !.config = c] /\ latest' = [latest EXCEPT ![f].config = c]
      /\ UNCHANGED <<file, info, fileNum, saves>>
      /\ Flash(IF info[Owl(f)].owl THEN ConfigOfBoth(f, c) ELSE WriteMain(f, m))
  BY DEF GameStep, SaveChaosConfig
<1>2. /\ m \in Seq(Cells) /\ Len(m) = 1 /\ b \in Seq(Cells) /\ Len(b) = 1
      /\ y \in Seq(Cells) /\ Len(y) = 2
  <2>1. Count(f) = 1 /\ Count(Owl(f)) = 2 /\ f \in Tables /\ Owl(f) \in Tables
    BY Map
  <2>2. /\ Main(f) \in Seq(Cells) /\ Len(Main(f)) = 1
        /\ Backup(f) \in Seq(Cells) /\ Len(Backup(f)) = 1
        /\ Main(Owl(f)) \in Seq(Cells) /\ Len(Main(Owl(f))) = 2
    BY <1>1, <2>1, ReadIs
  <2>3. WithConfig(Backup(f), c) \in Seq(Cells) /\ Len(WithConfig(Backup(f), c)) = 1
    BY <2>2, ConfigIs
  <2>4. QED BY <2>2, <2>3, ConfigIs, WrongSumIs
<1>3. GameTypes'
  <2>1. latest' \in [Files -> [cycle : Nat, owl : Nat, config : {0, 1}]]
    BY <1>1 DEF GameTypes
  <2>2. ctx' \in SaveRecs
    BY <1>1 DEF GameTypes, SaveRecs
  <2>3. QED BY <1>1, <2>1, <2>2 DEF GameTypes
<1>4. both \in Seq(Cells) /\ Len(both) = 2 /\ both[1] = m[1] /\ both[2] = b[1]
  <2>1. /\ m \o b \in Seq(Cells) /\ Len(m \o b) = Len(m) + Len(b)
        /\ \A i \in 1..Len(m) + Len(b) : (m \o b)[i] = IF i <= Len(m) THEN m[i] ELSE b[i - Len(m)]
    <3> HIDE DEF m, b
    <3>1. QED BY ONLY <1>2, ConcatProperties
  <2>2. QED BY <1>2, <2>1
<1>5. Len(both) \in 1..2 /\ Len(m) \in 1..2
  BY <1>2, <1>4
<1>6. Configured(f, c, both) /\ Configured(f, c, m)
  <2>1. QED BY <1>2, <1>4, <1>5 DEF Configured
<1>7. ConfigOfBoth(f, c) = WriteMain(Owl(f), y) \o WriteMain(f, both)
  BY DEF ConfigOfBoth, ConfigOfOwl
<1> HIDE DEF m, b, both, y
<1>8. Flash(IF info[Owl(f)].owl THEN WriteMain(Owl(f), y) \o WriteMain(f, both) ELSE WriteMain(f, m))
  BY <1>1, <1>7 DEF m
<1>9. CASE info[Owl(f)].owl
  <2>1. Asks(WriteMain(f, both), {MainStart(f)}, Fill(both, y))
    BY <1>4, <1>5, AsksCycle
  <2>2. Asks(WriteMain(Owl(f), y), {MainStart(Owl(f))}, Fill(both, y))
    BY <1>2, AsksOwl
  <2>3. {MainStart(Owl(f))} \cap {MainStart(f)} = {}
    BY Below DEF OwlSectors
  <2>4. Asks(WriteMain(Owl(f), y) \o WriteMain(f, both), {MainStart(Owl(f))} \cup {MainStart(f)},
             Fill(both, y))
    BY <2>1, <2>2, <2>3, AsksBoth
  <2>5. Flash(WriteMain(Owl(f), y) \o WriteMain(f, both))
    BY <1>8, <1>9
  <2>6. Sent({MainStart(Owl(f))} \cup {MainStart(f)}, both, y)
    BY <1>1, <2>4, <2>5, SentBy
  <2>7. QED BY <1>1, <1>3, <1>6, <1>9, <2>6 DEF y
<1>10. CASE ~info[Owl(f)].owl
  <2>1. Asks(WriteMain(f, m), {MainStart(f)}, Fill(m, y))
    BY <1>2, <1>5, AsksCycle
  <2>2. Flash(WriteMain(f, m))
    BY <1>8, <1>10
  <2>3. Sent({MainStart(f)}, m, y)
    BY <1>1, <2>1, <2>2, SentBy
  <2>4. {MainStart(f)} = {} \cup {MainStart(f)}
    OBVIOUS
  <2>5. QED BY <1>1, <1>3, <1>6, <1>10, <2>3, <2>4 DEF y
<1>11. QED BY <1>9, <1>10

\* A file is opened.
LEMMA LoadedIs ==
  ASSUME FlashTypes, NEW i \in Tables
  PROVE  /\ Loaded(i)[1] \in Cells /\ Loaded(i)[1].save \in SaveRecs
         /\ Main(i)[1] \in Cells /\ Main(i)[1] = flash[MainStart(i)]
         /\ HasNewf(Main(i)) => Loaded(i) = Main(i)
         /\ i \in Files => Backup(i)[1] = flash[MainStart(i) + 1]
         /\ i \notin Files => Backup(i)[1] = flash[BackupStart(i)]
         /\ Loaded(i)[1] \in {Main(i)[1], Backup(i)[1]}
<1>1. /\ Main(i) \in [1..Count(i) -> Cells] /\ Backup(i) \in [1..Count(i) -> Cells]
      /\ Count(i) \in 1..2 /\ MainStart(i) \in Nat
      /\ \A k \in 1..Count(i) : Main(i)[k] = flash[MainStart(i) + k - 1]
      /\ i \in Files => Backup(i) = [k \in 1..1 |-> flash[MainStart(i) + 1]]
      /\ i \notin Files => /\ BackupStart(i) \in Nat
                           /\ Backup(i) = [k \in 1..2 |-> flash[BackupStart(i) + k - 1]]
  BY ReadIs, Map, Sectors
<1>2. 1 \in 1..Count(i) /\ MainStart(i) + 1 - 1 = MainStart(i)
  BY <1>1
<1>3. i \notin Files => BackupStart(i) + 1 - 1 = BackupStart(i)
  BY <1>1
<1>4. /\ i \in Files => Backup(i)[1] = flash[MainStart(i) + 1]
      /\ i \notin Files => Backup(i)[1] = flash[BackupStart(i)]
  BY <1>1, <1>3
<1>5. Main(i)[1] \in Cells /\ Main(i)[1] = flash[MainStart(i)] /\ Backup(i)[1] \in Cells
  BY <1>1, <1>2
<1>6. QED BY <1>4, <1>5 DEF Loaded, Cells

\* Opens a file.
LEMMA OpenSaveDoes ==
  ASSUME GameStep, NEW f \in Files, OpenSave(f)
  PROVE  LET s == Loaded(Opened(f))[1].save IN
         /\ \/ s.owl /\ ~s.crash /\ Sent(OwlSectors(f), <<>>, Image(Zeros, 2))
               /\ latest' = [latest EXCEPT ![f].owl = 0]
            \/ ~(s.owl /\ ~s.crash) /\ Sent({}, <<>>, <<>>) /\ latest' = latest
         /\ GameTypes' /\ phase = "select" /\ phase' = "play" /\ info[f].used /\ fileNum' = f
         /\ s \in SaveRecs /\ Opened(f) \in Tables
         /\ ctx' \in SaveRecs /\ ctx' = [s EXCEPT !.owl = FALSE] /\ UNCHANGED <<info, saves>>
<1> DEFINE s == Loaded(Opened(f))[1].save
<1>1. /\ FlashTypes /\ AttemptInv /\ UNCHANGED <<left, setting>> /\ GameTypes
      /\ phase = "select" /\ phase' = "play" /\ info[f].used /\ fileNum' = f
      /\ ctx' = [s EXCEPT !.owl = FALSE] /\ UNCHANGED <<file, info, saves>>
      /\ Flash(IF s.owl /\ ~s.crash THEN InvalidateOwlSave(f) ELSE <<>>)
      /\ latest' = IF todo' = <<>> THEN latest ELSE [latest EXCEPT ![f].owl = 0]
  BY DEF GameStep, OpenSave, OpenInvalidates
<1>2. Opened(f) \in Tables
  BY Map DEF Opened
<1>3. s \in SaveRecs
  BY <1>1, <1>2, LoadedIs
<1> HIDE DEF s
<1>4. ctx' \in SaveRecs
  BY <1>1, <1>3 DEF SaveRecs
<1>5. latest' \in [Files -> [cycle : Nat, owl : Nat, config : {0, 1}]]
  BY <1>1 DEF GameTypes
<1>6. GameTypes'
  BY <1>1, <1>4, <1>5 DEF GameTypes
<1>7. CASE s.owl /\ ~s.crash
  <2>1. Asks(InvalidateOwlSave(f), OwlSectors(f), Fill(<<>>, Image(Zeros, 2)))
    BY AsksInvalidate
  <2>2. Flash(InvalidateOwlSave(f))
    BY <1>1, <1>7
  <2>3. Sent(OwlSectors(f), <<>>, Image(Zeros, 2))
    BY <1>1, <2>1, <2>2, SentBy
  <2>4. todo' # <<>>
    <3>1. todo' = InvalidateOwlSave(f)
      BY <2>2 DEF Flash
    <3>2. \E n \in DOMAIN todo' : TRUE
      BY <2>1, <3>1 DEF Asks, OwlSectors
    <3>3. QED BY <3>2
  <2>5. QED BY <1>1, <1>2, <1>3, <1>4, <1>6, <1>7, <2>3, <2>4 DEF s
<1>8. CASE ~(s.owl /\ ~s.crash)
  <2>1. Flash(<<>>)
    BY <1>1, <1>8
  <2>2. todo' = <<>>
    BY <2>1 DEF Flash
  <2>3. Sent({}, <<>>, <<>>)
    BY <1>1, <2>1, SentNone
  <2>4. QED BY <1>1, <1>2, <1>3, <1>4, <1>6, <1>8, <2>2, <2>3 DEF s
<1>9. QED BY <1>7, <1>8

\* What the running game saves.
LEMMA WholeIs ==
  ASSUME GameTypes, NEW a \in BOOLEAN, NEW b \in BOOLEAN
  PROVE  LET s == Whole([ctx EXCEPT !.owl = a, !.crash = b]) IN
         /\ s \in SaveRecs /\ s.owl = a /\ s.crash = b /\ s.config = ctx.config
         /\ s.cycling = ctx.cycling /\ s.whole = (a \/ b)
<1> DEFINE r == [ctx EXCEPT !.owl = a, !.crash = b]
<1>1. /\ r \in SaveRecs /\ r.owl = a /\ r.crash = b /\ r.config = ctx.config /\ r.cycling = ctx.cycling
  BY DEF GameTypes, SaveRecs
<1> HIDE DEF r
<1>2. Whole(r) = [r EXCEPT !.whole = r.owl \/ r.crash]
  BY DEF Whole
<1>3. (r.owl \/ r.crash) \in BOOLEAN
  OBVIOUS
<1>4. /\ Whole(r) \in SaveRecs /\ Whole(r).owl = r.owl /\ Whole(r).crash = r.crash
      /\ Whole(r).config = r.config /\ Whole(r).cycling = r.cycling
      /\ Whole(r).whole = (r.owl \/ r.crash)
  BY <1>1, <1>2, <1>3 DEF SaveRecs
<1>5. QED BY <1>1, <1>4 DEF r

\* A new cycle: the owl save is made invalid, then the file is saved.
LEMMA NewCycleDoes ==
  ASSUME GameStep, NewCycle
  PROVE  /\ Sent(OwlSectors(fileNum) \cup {MainStart(fileNum)}, Buffer(ctx'), Image(Zeros, 2))
         /\ GameTypes' /\ phase = "play" /\ phase' = "play" /\ fileNum' = fileNum
         /\ Creates(fileNum, FALSE, FALSE, ctx.config, ctx.cycling, FALSE)
<1>1. /\ FlashTypes /\ AttemptInv /\ UNCHANGED <<left, setting>> /\ GameTypes
      /\ phase = "play" /\ UNCHANGED <<phase, file, info>> /\ fileNum' = fileNum /\ fileNum \in Files
      /\ Made(Whole([ctx EXCEPT !.owl = FALSE, !.crash = FALSE]))
      /\ Flash(InvalidateOwlSave(fileNum) \o WriteMain(fileNum, Buffer(ctx')))
      /\ info \in [Tables -> [used : BOOLEAN, owl : BOOLEAN]]
  BY DEF GameStep, NewCycle, GameTypes
<1> DEFINE s == Whole([ctx EXCEPT !.owl = FALSE, !.crash = FALSE])
<1>2. /\ s \in SaveRecs /\ s.owl = FALSE /\ s.crash = FALSE /\ s.config = ctx.config
      /\ s.cycling = ctx.cycling /\ s.whole = FALSE
  BY <1>1, WholeIs
<1>3. Made(s)
  BY <1>1
<1> HIDE DEF s
<1>4. GameTypes' /\ Creates(fileNum, s.owl, s.crash, s.config, s.cycling, s.whole)
  BY <1>1, <1>2, <1>3, CreatesIs
<1>5. Buffer(ctx') \in Seq(Cells) /\ Len(Buffer(ctx')) \in 1..2
  BY <1>4, BufferIs DEF Creates
<1>6. Asks(InvalidateOwlSave(fileNum) \o WriteMain(fileNum, Buffer(ctx')),
           OwlSectors(fileNum) \cup {MainStart(fileNum)}, Fill(Buffer(ctx'), Image(Zeros, 2)))
  BY <1>1, <1>5, AsksInvalidate
<1>7. Sent(OwlSectors(fileNum) \cup {MainStart(fileNum)}, Buffer(ctx'), Image(Zeros, 2))
  BY <1>1, <1>6, SentBy
<1>8. QED BY <1>1, <1>2, <1>4, <1>7

\* A new day: the same, without the backup of the file.
LEMMA NewDayDoes ==
  ASSUME GameStep, NewDay
  PROVE  /\ \E x : /\ x \in Seq(Cells) /\ Len(x) = 1 /\ x[1] = [save |-> ctx', part |-> 1]
                   /\ Sent(OwlSectors(fileNum) \cup {MainStart(fileNum)}, x, Image(Zeros, 2))
         /\ GameTypes' /\ phase = "play" /\ phase' = "play" /\ fileNum' = fileNum
         /\ Creates(fileNum, ctx.owl, FALSE, ctx.config, ctx.cycling, ctx.owl)
<1> DEFINE x == SubSeq(Buffer(ctx'), 1, 1)
<1>1. /\ FlashTypes /\ AttemptInv /\ UNCHANGED <<left, setting>> /\ GameTypes
      /\ phase = "play" /\ UNCHANGED <<phase, file, info>> /\ fileNum' = fileNum /\ fileNum \in Files
      /\ Made(Whole([ctx EXCEPT !.crash = FALSE]))
      /\ Flash(InvalidateOwlSave(fileNum) \o WriteMain(fileNum, x))
      /\ info \in [Tables -> [used : BOOLEAN, owl : BOOLEAN]]
  BY DEF GameStep, NewDay, GameTypes
<1>2. /\ [ctx EXCEPT !.crash = FALSE] = [ctx EXCEPT !.owl = ctx.owl, !.crash = FALSE]
      /\ ctx.owl \in BOOLEAN
  BY <1>1 DEF GameTypes, SaveRecs
<1> DEFINE s == Whole([ctx EXCEPT !.owl = ctx.owl, !.crash = FALSE])
<1>3. /\ s \in SaveRecs /\ s.owl = ctx.owl /\ s.crash = FALSE /\ s.config = ctx.config
      /\ s.cycling = ctx.cycling /\ s.whole = ctx.owl
  BY <1>1, <1>2, WholeIs
<1>4. Made(s)
  BY <1>1, <1>2
<1> HIDE DEF s
<1>5. GameTypes' /\ Creates(fileNum, s.owl, s.crash, s.config, s.cycling, s.whole)
  BY <1>1, <1>3, <1>4, CreatesIs
<1>6. x \in Seq(Cells) /\ Len(x) = 1 /\ x[1] = [save |-> ctx', part |-> 1]
  <2>1. /\ Buffer(ctx') \in Seq(Cells) /\ Len(Buffer(ctx')) = 2
        /\ Buffer(ctx')[1] = [save |-> ctx', part |-> 1]
    BY <1>5, BufferIs DEF Creates
  <2>2. Buffer(ctx')[1] \in Cells
    BY <1>5, <2>1 DEF Creates, Cells
  <2>3. \A i \in 1..1 : Buffer(ctx')[i] \in Cells
    BY <2>2
  <2>4. /\ x \in Seq(Cells) /\ Len(x) = IF 1 <= 1 THEN 1 - 1 + 1 ELSE 0
        /\ \A i \in 1..1 - 1 + 1 : x[i] = Buffer(ctx')[1 + i - 1]
    BY <2>3, SubSeqProperties
  <2>5. QED BY <2>1, <2>4
<1> HIDE DEF x
<1>7. Len(x) \in 1..2
  BY <1>6
<1>8. Asks(InvalidateOwlSave(fileNum) \o WriteMain(fileNum, x),
           OwlSectors(fileNum) \cup {MainStart(fileNum)}, Fill(x, Image(Zeros, 2)))
  BY <1>1, <1>6, <1>7, AsksInvalidate
<1>9. Sent(OwlSectors(fileNum) \cup {MainStart(fileNum)}, x, Image(Zeros, 2))
  BY <1>1, <1>8, SentBy
<1>10. QED BY <1>1, <1>3, <1>5, <1>6, <1>9

\* The first clock town.
LEMMA EnterClockTownDoes ==
  ASSUME GameStep, EnterClockTown
  PROVE  /\ Sent({MainStart(fileNum)}, Twice(ctx'), <<>>)
         /\ GameTypes' /\ phase = "play" /\ phase' = "play" /\ fileNum' = fileNum /\ ~ctx.cycling
         /\ Creates(fileNum, FALSE, ctx.crash, ctx.config, TRUE, FALSE)
<1> DEFINE s == [ctx EXCEPT !.owl = FALSE, !.cycling = TRUE, !.whole = FALSE]
<1>1. /\ FlashTypes /\ AttemptInv /\ UNCHANGED <<left, setting>> /\ GameTypes
      /\ phase = "play" /\ UNCHANGED <<phase, file, info>> /\ fileNum' = fileNum /\ fileNum \in Files
      /\ Made(s) /\ ~ctx.cycling
      /\ Flash(WriteMain(fileNum, Twice(ctx')))
      /\ info \in [Tables -> [used : BOOLEAN, owl : BOOLEAN]]
  BY DEF GameStep, EnterClockTown, GameTypes
<1>2. /\ s \in SaveRecs /\ s.owl = FALSE /\ s.crash = ctx.crash /\ s.config = ctx.config
      /\ s.cycling = TRUE /\ s.whole = FALSE
  BY <1>1 DEF GameTypes, SaveRecs
<1> HIDE DEF s
<1>3. GameTypes' /\ Creates(fileNum, s.owl, s.crash, s.config, s.cycling, s.whole)
  BY <1>1, <1>2, CreatesIs
<1>4. Twice(ctx') \in Seq(Cells) /\ Len(Twice(ctx')) \in 1..2
  BY <1>3, TwiceIs DEF Creates
<1>5. Asks(WriteMain(fileNum, Twice(ctx')), {MainStart(fileNum)}, Fill(Twice(ctx'), <<>>))
  BY <1>1, <1>4, AsksCycle
<1>6. Sent({MainStart(fileNum)}, Twice(ctx'), <<>>)
  BY <1>1, <1>5, SentBy
<1>7. QED BY <1>1, <1>2, <1>3, <1>6

\* An owl save and its backup.
LEMMA OwlSaveDoes ==
  ASSUME GameStep, OwlSave
  PROVE  /\ Sent(OwlSectors(fileNum), <<>>, Buffer(ctx'))
         /\ GameTypes' /\ phase = "play" /\ phase' = "leave" /\ fileNum' = fileNum /\ ctx.cycling
         /\ Creates(fileNum, TRUE, FALSE, ctx.config, ctx.cycling, TRUE)
<1> DEFINE s == Whole([ctx EXCEPT !.owl = TRUE, !.crash = FALSE])
<1>1. /\ FlashTypes /\ AttemptInv /\ UNCHANGED <<left, setting>> /\ GameTypes
      /\ phase = "play" /\ phase' = "leave" /\ UNCHANGED <<file, info>>
      /\ fileNum' = fileNum /\ fileNum \in Files /\ Made(s) /\ ctx.cycling
      /\ Flash(WriteMain(Owl(fileNum), Buffer(ctx')) \o <<SecondCopy(fileNum, Buffer(ctx'))>>)
      /\ info \in [Tables -> [used : BOOLEAN, owl : BOOLEAN]]
  BY DEF GameStep, OwlSave, GameTypes
<1>2. /\ s \in SaveRecs /\ s.owl = TRUE /\ s.crash = FALSE /\ s.config = ctx.config
      /\ s.cycling = ctx.cycling /\ s.whole = TRUE
  BY <1>1, WholeIs
<1> HIDE DEF s
<1>3. GameTypes' /\ Creates(fileNum, s.owl, s.crash, s.config, s.cycling, s.whole)
  BY <1>1, <1>2, CreatesIs
<1>4. Buffer(ctx') \in Seq(Cells) /\ Len(Buffer(ctx')) = 2
  BY <1>3, BufferIs DEF Creates
<1>5. SecondCopy(fileNum, Buffer(ctx')) = Write(BackupStart(Owl(fileNum)), Buffer(ctx'))
  <2>1. fileNum \in Nat
    BY <1>1 DEF Files
  <2>2. MainStart(Owl(fileNum)) + 2 = BackupStart(Owl(fileNum))
    BY <2>1, <1>1, Map
  <2>3. QED BY <2>2 DEF SecondCopy
<1>6. Asks(WriteMain(Owl(fileNum), Buffer(ctx')) \o <<SecondCopy(fileNum, Buffer(ctx'))>>,
           OwlSectors(fileNum), Fill(<<>>, Buffer(ctx')))
  BY <1>1, <1>4, <1>5, AsksOwl
<1>7. Sent(OwlSectors(fileNum), <<>>, Buffer(ctx'))
  BY <1>1, <1>6, SentBy
<1>8. QED BY <1>1, <1>2, <1>3, <1>7

\* A crash.
LEMMA CrashDoes ==
  ASSUME GameStep, Crash
  PROVE  /\ Sent({MainStart(Owl(fileNum))}, <<>>, Buffer(ctx'))
         /\ GameTypes' /\ phase = "play" /\ phase' = "crashed" /\ fileNum' = fileNum
         /\ ctx.cycling \/ setting.crashesEarly
         /\ Creates(fileNum, FALSE, TRUE, ctx.config, ctx.cycling, TRUE)
<1> DEFINE s == Whole([ctx EXCEPT !.owl = FALSE, !.crash = TRUE])
<1>1. /\ FlashTypes /\ AttemptInv /\ UNCHANGED <<left, setting>> /\ GameTypes
      /\ phase = "play" /\ phase' = "crashed" /\ UNCHANGED <<file, info>>
      /\ fileNum' = fileNum /\ fileNum \in Files /\ Made(s) /\ (ctx.cycling \/ setting.crashesEarly)
      /\ Flash(WriteMain(Owl(fileNum), Buffer(ctx')))
      /\ info \in [Tables -> [used : BOOLEAN, owl : BOOLEAN]]
  BY DEF GameStep, Crash, GameTypes
<1>2. /\ s \in SaveRecs /\ s.owl = FALSE /\ s.crash = TRUE /\ s.config = ctx.config
      /\ s.cycling = ctx.cycling /\ s.whole = TRUE
  BY <1>1, WholeIs
<1> HIDE DEF s
<1>3. GameTypes' /\ Creates(fileNum, s.owl, s.crash, s.config, s.cycling, s.whole)
  BY <1>1, <1>2, CreatesIs
<1>4. Buffer(ctx') \in Seq(Cells) /\ Len(Buffer(ctx')) = 2
  BY <1>3, BufferIs DEF Creates
<1>5. Asks(WriteMain(Owl(fileNum), Buffer(ctx')), {MainStart(Owl(fileNum))}, Fill(<<>>, Buffer(ctx')))
  BY <1>1, <1>4, AsksOwl
<1>6. Sent({MainStart(Owl(fileNum))}, <<>>, Buffer(ctx'))
  BY <1>1, <1>5, SentBy
<1>7. QED BY <1>1, <1>2, <1>3, <1>6

\* The moon falls.
LEMMA MoonCrashDoes ==
  ASSUME GameStep, MoonCrash
  PROVE  /\ Sent({}, <<>>, <<>>) /\ GameTypes' /\ phase = "play" /\ phase' = "play"
         /\ ctx.cycling /\ ctx' = Loaded(fileNum)[1].save /\ ctx' \in SaveRecs
         /\ UNCHANGED <<info, fileNum, saves, latest>>
<1>1. /\ FlashTypes /\ AttemptInv /\ UNCHANGED <<left, setting>> /\ GameTypes /\ Flash(<<>>)
      /\ phase = "play" /\ ctx.cycling /\ ctx' = Loaded(fileNum)[1].save /\ fileNum \in Files
      /\ UNCHANGED <<phase, file, info, fileNum, saves, latest>>
  BY DEF GameStep, MoonCrash, GameTypes
<1>2. ctx' \in SaveRecs
  BY <1>1, LoadedIs, Map
<1>3. GameTypes'
  BY <1>1, <1>2 DEF GameTypes
<1>4. QED BY <1>1, <1>2, <1>3, SentNone

\* What holds of the types, at all times.
Sound == FlashTypes /\ AttemptInv /\ GameTypes

\* Every step of the game but an action of the flash thread asks for writes when none is left.
LEMMA GameDoes ==
  ASSUME GameStep, Booting \/ Menu \/ Play \/ SwitchOff
  PROVE  GameTypes' /\ \E S, x, y : Sent(S, x, y)
<1>1. CASE CheckFile /\ CheckGood
  BY <1>1, CheckGoodDoes
<1>2. CASE CheckFile /\ (CheckEmpty \/ CheckBackup)
  BY <1>2, CheckBadDoes
<1>3. CASE FilesChecked
  BY <1>3, FilesCheckedDoes
<1>4. CASE Menu
  <2>1. PICK f \in Files : InitSave(f) \/ EraseSave(f) \/ OpenSave(f)
                           \/ (\E g \in Files : CopySave(f, g))
                           \/ (\E c \in {0, 1} : SaveChaosConfig(f, c))
    BY <1>4 DEF Menu
  <2>2. CASE InitSave(f)
    BY <2>2, InitSaveDoes
  <2>3. CASE EraseSave(f)
    BY <2>3, EraseSaveDoes
  <2>4. CASE OpenSave(f)
    BY <2>4, OpenSaveDoes
  <2>5. CASE \E g \in Files : CopySave(f, g)
    BY <2>5, CopySaveDoes
  <2>6. CASE \E c \in {0, 1} : SaveChaosConfig(f, c)
    BY <2>6, SaveChaosConfigDoes
  <2>7. QED BY <2>1, <2>2, <2>3, <2>4, <2>5, <2>6
<1>5. CASE NewCycle
  BY <1>5, NewCycleDoes
<1>6. CASE NewDay
  BY <1>6, NewDayDoes
<1>7. CASE EnterClockTown
  BY <1>7, EnterClockTownDoes
<1>8. CASE OwlSave
  BY <1>8, OwlSaveDoes
<1>9. CASE Crash
  BY <1>9, CrashDoes
<1>10. CASE MoonCrash
  BY <1>10, MoonCrashDoes
<1>11. CASE SwitchOff
  BY <1>11, SwitchOffDoes
<1>12. QED BY <1>1, <1>2, <1>3, <1>4, <1>5, <1>6, <1>7, <1>8, <1>9, <1>10, <1>11
           DEF Booting, CheckFile, Play

\* The types at the start.
LEMMA SoundInit == Init => Sound
<1> SUFFICES ASSUME Init PROVE Sound
  OBVIOUS
<1>1. /\ NoInfo \in [used : BOOLEAN, owl : BOOLEAN]
      /\ None \in [cycle : Nat, owl : Nat, config : {0, 1}]
  BY DEF NoInfo, None
<1>2. GameTypes
  BY <1>1, Blank DEF Init, GameTypes, Files
<1>3. /\ Start \in [unit : 0..2, tries : 0..MaxRetries] /\ Start.tries = 0
  BY DEF Start, MaxRetries
<1>4. setting.errors \in Nat /\ setting.cuts \in Nat /\ setting \in Settings
  BY SettingsAssumption DEF Init
<1>5. FlashTypes
  <2>1. flash \in [Units -> Cells]
    BY Blank DEF Init
  <2>2. todo = <<>> /\ todo \in Seq(Requests) /\ DOMAIN todo = {}
    BY DEF Init
  <2>3. left \in [errors : Nat, cuts : Nat]
    BY <1>4 DEF Init
  <2>4. attempt = Start
    BY DEF Init
  <2>5. QED BY <1>3, <1>4, <2>1, <2>2, <2>3, <2>4 DEF FlashTypes
<1>6. AttemptInv
  BY <1>3, <1>4 DEF Init, AttemptInv
<1>7. QED BY <1>2, <1>5, <1>6 DEF Sound

\* Every step keeps the types.
LEMMA SoundNext == Sound /\ [Next]_vars => Sound'
<1> SUFFICES ASSUME Sound, [Next]_vars PROVE Sound'
  OBVIOUS
<1>1. CASE FlashThread
  <2>1. FlashTypes' /\ AttemptInv'
    BY <1>1, FlashNext DEF Sound
  <2>2. GameTypes'
    BY <1>1 DEF FlashThread, game, Sound, GameTypes
  <2>3. QED BY <2>1, <2>2 DEF Sound
<1>2. CASE PowerCut
  BY <1>2, PowerCutDoes DEF Sound
<1>3. CASE (Booting \/ Menu \/ Play \/ SwitchOff) /\ UNCHANGED <<left, setting>>
  BY <1>3, GameDoes DEF Sound, GameStep, Sent
<1>4. CASE UNCHANGED vars
  BY <1>4 DEF vars, game, Sound, FlashTypes, AttemptInv, GameTypes, Request
<1>5. QED BY <1>1, <1>2, <1>3, <1>4 DEF Next

\* The types, and how far the flash thread is.
LEMMA SoundAlways == Spec => []Sound
BY SoundInit, SoundNext, PTL DEF Spec

\* With no more errors than retries a write ends with the buffer in the flash (RetriesSuffice).
THEOREM RetriesAlwaysSuffice == Spec => RetriesSuffice
<1>1. Sound /\ [Next]_vars =>
        [(/\ setting.errors <= 3 /\ left'.cuts = left.cuts /\ todo # <<>> /\ todo' = Tail(todo)) =>
           [k \in DOMAIN Request.units |-> flash'[Request.start + k - 1]] = Request.units]_vars
  <2> SUFFICES ASSUME Sound, Next, setting.errors <= 3, left'.cuts = left.cuts, todo # <<>>,
                      todo' = Tail(todo)
               PROVE  [k \in DOMAIN Request.units |-> flash'[Request.start + k - 1]] = Request.units
    OBVIOUS
  <2>1. CASE FlashThread
    <3>1. \A k \in DOMAIN Request.units : flash'[Request.start + k - 1] = Request.units[k]
      BY <2>1, Written, EndsWell, NotGivenUp DEF Sound, MaxRetries
    <3>2. Request.units \in [1..Len(Request.units) -> Cells]
      BY TodoIs, RequestIs DEF Sound
    <3>3. QED BY <3>1, <3>2
  <2>2. CASE PowerCut
    <3>1. left.cuts \in Nat /\ left'.cuts = left.cuts - 1
      BY <2>2 DEF PowerCut, Sound, FlashTypes
    <3>2. QED BY <3>1
  <2>3. CASE (Booting \/ Menu \/ Play \/ SwitchOff) /\ UNCHANGED <<left, setting>>
    BY <2>3, GameDoes DEF Sound, GameStep, Sent
  <2>4. QED BY <2>1, <2>2, <2>3 DEF Next
<1>2. QED BY <1>1, SoundAlways, PTL DEF Spec, RetriesSuffice

\* Only the sectors that were asked for are going to be written.
LEMMA AsksOnly ==
  ASSUME NEW S, NEW x, NEW y, Sent(S, x, y)
  PROVE  \A n \in DOMAIN todo' : todo'[n].start \in S
BY DEF Sent, Asks

\* After an owl save or a crash only the owl sectors of the file are written.
LEMMA OwlNext == Sound /\ OwlInv /\ [Next]_vars => OwlInv'
<1> SUFFICES ASSUME Sound, OwlInv, [Next]_vars, phase' \in {"leave", "crashed"}
             PROVE  \A n \in DOMAIN todo' :
                      todo'[n].start \in {MainStart(Owl(fileNum)), BackupStart(Owl(fileNum))}'
  BY DEF OwlInv
<1>1. CASE FlashThread
  <2>1. phase' = phase /\ fileNum' = fileNum /\ todo # <<>> /\ todo' \in {todo, Tail(todo)}
    BY <1>1, FlashCells DEF FlashThread, game, Sound
  <2>2. \A n \in DOMAIN todo : todo[n].start \in {MainStart(Owl(fileNum)), BackupStart(Owl(fileNum))}
    BY <2>1 DEF OwlInv
  <2>3. {MainStart(Owl(fileNum)), BackupStart(Owl(fileNum))}'
          = {MainStart(Owl(fileNum)), BackupStart(Owl(fileNum))}
    BY <2>1
  <2>4. CASE todo' = Tail(todo)
    BY <2>1, <2>2, <2>3, <2>4, Rest DEF Sound
  <2>5. QED BY <2>1, <2>2, <2>3, <2>4
<1>2. CASE PowerCut
  BY <1>2 DEF PowerCut, Boot
<1>3. CASE (Booting \/ Menu \/ Play \/ SwitchOff) /\ UNCHANGED <<left, setting>>
  <2>1. GameStep
    BY <1>3 DEF GameStep, Sound
  <2>2. ~CheckFile /\ ~FilesChecked
    BY <2>1, FilesCheckedDoes DEF CheckFile, CheckGood, CheckEmpty, CheckBackup
  <2>3. ~Menu
    BY DEF Menu, InitSave, EraseSave, OpenSave, CopySave, SaveChaosConfig
  <2>4. ~SwitchOff
    BY DEF SwitchOff, Boot
  <2>5. OwlSave \/ Crash
    BY <1>3, <2>2, <2>3, <2>4 DEF Booting, Play, NewCycle, NewDay, EnterClockTown, MoonCrash
  <2>6. /\ fileNum' = fileNum
        /\ \/ Sent(OwlSectors(fileNum), <<>>, Buffer(ctx'))
           \/ Sent({MainStart(Owl(fileNum))}, <<>>, Buffer(ctx'))
    BY <2>1, <2>5, OwlSaveDoes, CrashDoes
  <2>7. \A n \in DOMAIN todo' : todo'[n].start \in OwlSectors(fileNum)
    BY <2>6, AsksOnly DEF OwlSectors
  <2>8. QED BY <2>6, <2>7 DEF OwlSectors
<1>4. CASE UNCHANGED vars
  <2>1. phase' = phase /\ fileNum' = fileNum /\ todo' = todo
    BY <1>4 DEF vars, game
  <2>2. QED BY <2>1 DEF OwlInv
<1>5. QED BY <1>1, <1>2, <1>3, <1>4 DEF Next

\* An owl save disturbs neither the cycle saves nor the other file (OwlKeepsTheRest).
THEOREM OwlAlwaysKeepsTheRest == Spec => OwlKeepsTheRest
<1>1. Init => OwlInv
  BY DEF Init, OwlInv
<1>2. Sound /\ OwlInv /\ [Next]_vars =>
        [phase = "leave" \/ phase = "crashed" =>
           \A u \in Units \ OwlUnits(fileNum) : flash'[u] = flash[u]]_vars
  <2> SUFFICES ASSUME Sound, OwlInv, Next, phase = "leave" \/ phase = "crashed",
                      NEW u \in Units \ OwlUnits(fileNum)
               PROVE  flash'[u] = flash[u]
    OBVIOUS
  <2>1. CASE FlashThread
    <3>1. /\ todo # <<>> /\ \A v \in Units : v \notin Sector(Request.start) => flash'[v] = flash[v]
      BY <2>1, FlashCells DEF Sound
    <3>2. Request.start \in OwlSectors(fileNum) /\ Request.start \in Starts
      BY <3>1, TodoIs, RequestIs DEF Sound, OwlInv, OwlSectors, Request
    <3>3. Sector(Request.start) = {Request.start, Request.start + 1}
      BY <3>2, Sectors
    <3>4. Sector(Request.start) \subseteq OwlUnits(fileNum)
      BY <3>2, <3>3 DEF OwlUnits, OwlSectors
    <3>5. QED BY <3>1, <3>4
  <2>2. CASE PowerCut
    BY <2>2 DEF PowerCut
  <2>3. CASE (Booting \/ Menu \/ Play \/ SwitchOff) /\ UNCHANGED <<left, setting>>
    BY <2>3, GameDoes DEF Sound, GameStep, Sent
  <2>4. QED BY <2>1, <2>2, <2>3 DEF Next
<1>3. QED BY <1>1, <1>2, SoundAlways, OwlNext, PTL DEF Spec, OwlKeepsTheRest

KindInv == CellsInv /\ CtxInv /\ StampInv

\* A save that is written is a copy of one there was, but for its configuration, or a new one.
Old(s) == \/ s.stamp \in {-1, 0}
          \/ \E t \in AllSaves : t.stamp = s.stamp /\ t.whole = s.whole /\ t.crash = s.crash
New(s, whole, crash) == s.stamp = saves + 1 /\ s.whole = whole /\ s.crash = crash
Good(low, s, whole, crash) ==
  Fits(low, s, saves', setting.crashesEarly) /\ (Old(s) \/ New(s, whole, crash))
Suits(S, x, y, whole, crash) ==
  /\ Sent(S, x, y)
  /\ \A p \in S : p < 4 => \A k \in DOMAIN x : Good(TRUE, x[k].save, whole, crash)
  /\ \A p \in S : p >= 4 => \A k \in DOMAIN y : Good(FALSE, y[k].save, whole, crash)
  /\ CtxInv' /\ (Old(ctx') \/ New(ctx', whole, crash))
  /\ saves' \in {saves, saves + 1}

\* What the flash holds, and the game itself, is a save there is.
LEMMA Among ==
  /\ \A p \in Starts, k \in 1..2 : flash[p + k - 1].save \in AllSaves /\ Old(flash[p + k - 1].save)
  /\ ctx \in AllSaves /\ Old(ctx)
<1>1. ASSUME NEW p \in Starts, NEW k \in 1..2
      PROVE  flash[p + k - 1].save \in AllSaves
  <2>1. flash[p + k - 1].save \in {flash[p + l - 1].save : l \in 1..2}
    OBVIOUS
  <2>2. QED BY <2>1 DEF AllSaves
<1>2. ctx \in AllSaves
  BY DEF AllSaves
<1>3. \A s \in AllSaves : Old(s)
  BY DEF Old
<1>4. QED BY <1>1, <1>2, <1>3

\* What is going to be written to a sector.
LEMMA SentWhere ==
  ASSUME NEW S, NEW x, NEW y, Sent(S, x, y), NEW n \in DOMAIN todo'
  PROVE  /\ todo'[n].start \in S /\ todo'[n].start \in Starts
         /\ todo'[n].units = IF todo'[n].start < 4 THEN x ELSE y
<1>1. /\ todo' \in Seq(Requests) /\ todo'[n].start \in S
      /\ todo'[n].units = Fill(x, y)[todo'[n].start]
  BY DEF Sent, Asks
<1>2. todo'[n] \in Requests
  BY <1>1
<1>3. todo'[n].start \in Starts
  BY <1>2, RequestIs
<1>4. QED BY <1>1, <1>3 DEF Fill

\* All stamps are integers, none greater than the number of saves.
LEMMA Stamps ==
  ASSUME Sound, CellsInv, CtxInv
  PROVE  \A s \in AllSaves : s \in SaveRecs /\ s.stamp \in Int /\ s.stamp <= saves
<1> SUFFICES ASSUME NEW s \in AllSaves
             PROVE  s \in SaveRecs /\ s.stamp <= saves
  BY DEF SaveRecs
<1>1. CASE s = ctx
  BY <1>1 DEF Sound, GameTypes, CtxInv
<1>2. CASE \E p \in Starts, k \in 1..2 : s = flash[p + k - 1].save
  <2>1. PICK p \in Starts, k \in 1..2 : s = flash[p + k - 1].save
    BY <1>2
  <2>2. flash[p + k - 1] \in Cells
    <3>1. p + k - 1 \in Units /\ flash \in [Units -> Cells]
      BY Places DEF Sound, FlashTypes
    <3>2. QED BY <3>1
  <2>3. Fits(p < 4, s, saves, setting.crashesEarly)
    BY <2>1 DEF CellsInv
  <2>4. QED BY <2>1, <2>2, <2>3 DEF Fits, Cells
<1>3. CASE \E n \in DOMAIN todo : \E k \in DOMAIN todo[n].units : s = todo[n].units[k].save
  <2>1. PICK n \in DOMAIN todo : \E k \in DOMAIN todo[n].units : s = todo[n].units[k].save
    BY <1>3
  <2>2. PICK k \in DOMAIN todo[n].units : s = todo[n].units[k].save
    BY <2>1
  <2>3. todo[n].units[k] \in Cells
    BY TodoIs, RequestIs DEF Sound
  <2>4. Fits(todo[n].start < 4, s, saves, setting.crashesEarly)
    BY <2>2 DEF CellsInv
  <2>5. QED BY <2>2, <2>3, <2>4 DEF Fits, Cells
<1>4. QED BY <1>1, <1>2, <1>3 DEF AllSaves

\* Copies of a save stay of a kind.
LEMMA StampsKept ==
  ASSUME Sound, KindInv, NEW w, NEW c, \A s \in AllSaves' : Old(s) \/ New(s, w, c)
  PROVE  StampInv'
<1>1. \A s \in AllSaves : s.stamp \in Int /\ s.stamp <= saves
  BY Stamps DEF KindInv
<1>2. saves \in Nat
  BY DEF Sound, GameTypes
<1> SUFFICES ASSUME NEW s \in AllSaves', NEW t \in AllSaves', s.stamp > 0 /\ s.stamp = t.stamp
             PROVE  s.whole = t.whole /\ s.crash = t.crash
  BY DEF StampInv
<1>3. (Old(s) \/ New(s, w, c)) /\ (Old(t) \/ New(t, w, c))
  OBVIOUS
<1>4. CASE New(s, w, c) /\ New(t, w, c)
  BY <1>4 DEF New
<1>5. CASE Old(s) /\ Old(t)
  <2>1. s.stamp # -1 /\ s.stamp # 0
    OBVIOUS
  <2>2. s.stamp \notin {-1, 0} /\ t.stamp \notin {-1, 0}
    BY <2>1
  <2>3. PICK s1 \in AllSaves : s1.stamp = s.stamp /\ s1.whole = s.whole /\ s1.crash = s.crash
    BY <1>5, <2>2 DEF Old
  <2>4. PICK t1 \in AllSaves : t1.stamp = t.stamp /\ t1.whole = t.whole /\ t1.crash = t.crash
    BY <1>5, <2>2 DEF Old
  <2>5. s1.whole = t1.whole /\ s1.crash = t1.crash
    BY <2>3, <2>4 DEF KindInv, StampInv
  <2>6. QED BY <2>3, <2>4, <2>5
<1>6. CASE New(s, w, c) /\ Old(t)
  <2>1. s.stamp = saves + 1 /\ t.stamp = saves + 1
    BY <1>6 DEF New
  <2>2. saves + 1 \notin {-1, 0} /\ \A u \in AllSaves : u.stamp # saves + 1
    BY <1>2, <1>1
  <2>3. QED BY <1>6, <2>1, <2>2 DEF Old
<1>7. CASE New(t, w, c) /\ Old(s)
  <2>1. s.stamp = saves + 1 /\ t.stamp = saves + 1
    BY <1>7 DEF New
  <2>2. saves + 1 \notin {-1, 0} /\ \A u \in AllSaves : u.stamp # saves + 1
    BY <1>2, <1>1
  <2>3. QED BY <1>7, <2>1, <2>2 DEF Old
<1>8. QED BY <1>3, <1>4, <1>5, <1>6, <1>7

\* A step of the game that writes saves there were, or one new save.
LEMMA KindSent ==
  ASSUME Sound, KindInv, NEW S, NEW x, NEW y, NEW w, NEW c, Suits(S, x, y, w, c)
  PROVE  KindInv'
<1>1. /\ Sent(S, x, y) /\ flash' = flash /\ setting' = setting
      /\ \A p \in S : p < 4 => \A k \in DOMAIN x : Good(TRUE, x[k].save, w, c)
      /\ \A p \in S : p >= 4 => \A k \in DOMAIN y : Good(FALSE, y[k].save, w, c)
      /\ CtxInv' /\ (Old(ctx') \/ New(ctx', w, c))
      /\ saves' \in {saves, saves + 1} /\ saves \in Nat /\ saves' \in Nat
  <2>1. Sent(S, x, y) /\ saves' \in {saves, saves + 1} /\ saves \in Nat
    BY DEF Suits, Sound, GameTypes
  <2>2. saves' \in Nat
    BY <2>1
  <2>3. flash' = flash /\ setting' = setting
    BY <2>1 DEF Sent
  <2>4. QED BY <2>1, <2>2, <2>3 DEF Suits
<1>2. ASSUME NEW n \in DOMAIN todo', NEW k \in DOMAIN todo'[n].units
      PROVE  Good(todo'[n].start < 4, todo'[n].units[k].save, w, c)
  <2>1. /\ todo'[n].start \in S /\ todo'[n].start \in Starts
        /\ todo'[n].units = IF todo'[n].start < 4 THEN x ELSE y
    BY <1>1, SentWhere
  <2>2. todo'[n].start \in Nat
    BY <2>1, Sectors
  <2>3. CASE todo'[n].start < 4
    <3>1. Good(TRUE, todo'[n].units[k].save, w, c)
      BY <1>1, <2>1, <2>3
    <3>2. (todo'[n].start < 4) = TRUE
      BY <2>3
    <3>3. QED BY <3>1, <3>2
  <2>4. CASE ~(todo'[n].start < 4)
    <3>0. todo'[n].start >= 4 /\ todo'[n].units = y
      BY <2>1, <2>2, <2>4
    <3>1. Good(FALSE, todo'[n].units[k].save, w, c)
      BY <1>1, <2>1, <3>0
    <3>2. (todo'[n].start < 4) = FALSE
      BY <2>4
    <3>3. QED BY <3>1, <3>2
  <2>5. QED BY <2>3, <2>4
<1>3. CellsInv'
  <2>1. ASSUME NEW p \in Starts, NEW k \in 1..2
        PROVE  Fits(p < 4, flash[p + k - 1].save, saves', setting.crashesEarly)
    <3>1. flash[p + k - 1].save.stamp \in Int
      <4>1. p + k - 1 \in Units /\ flash \in [Units -> Cells]
        BY Places DEF Sound, FlashTypes
      <4>2. flash[p + k - 1] \in Cells
        BY <4>1
      <4>3. QED BY <4>2 DEF Cells, SaveRecs
    <3>2. Fits(p < 4, flash[p + k - 1].save, saves, setting.crashesEarly)
      BY DEF KindInv, CellsInv
    <3>3. QED BY <1>1, <3>1, <3>2 DEF Fits
  <2>2. QED BY <1>1, <1>2, <2>1 DEF CellsInv, Good
<1>4. ASSUME NEW s \in AllSaves' PROVE Old(s) \/ New(s, w, c)
  <2>1. CASE s = ctx'
    BY <1>1, <2>1
  <2>2. CASE \E p \in Starts, k \in 1..2 : s = flash[p + k - 1].save
    BY <2>2, Among
  <2>3. CASE \E n \in DOMAIN todo' : \E k \in DOMAIN todo'[n].units : s = todo'[n].units[k].save
    BY <1>2, <2>3 DEF Good
  <2>4. QED BY <1>1, <2>1, <2>2, <2>3 DEF AllSaves
<1>5. StampInv'
  BY <1>4, StampsKept
<1>6. QED BY <1>1, <1>3, <1>5 DEF KindInv

\* A cleared save and a torn one may be anywhere.
LEMMA BlankFits ==
  ASSUME NEW n \in Nat, NEW low, NEW early
  PROVE  /\ Fits(low, Zeros, n, early) /\ Fits(low, Torn, n, early)
         /\ Old(Zeros) /\ Old(Torn) /\ \A k \in DOMAIN Image(Zeros, 2) : Image(Zeros, 2)[k].save = Zeros
         /\ \A k \in DOMAIN Twice(Zeros) : Twice(Zeros)[k].save = Zeros
<1>1. Zeros.stamp = 0 /\ ~Zeros.owl /\ ~Zeros.crash /\ ~Zeros.whole
  BY DEF Zeros
<1>2. Fits(low, Zeros, n, early) /\ Fits(low, Torn, n, early) /\ Old(Zeros) /\ Old(Torn)
  BY <1>1, Blank DEF Fits, Old
<1>3. \A k \in DOMAIN Image(Zeros, 2) : Image(Zeros, 2)[k].save = Zeros
  BY DEF Image
<1>4. \A k \in DOMAIN Twice(Zeros) : Twice(Zeros)[k].save = Zeros
  <2>1. /\ Twice(Zeros) \in Seq(Cells) /\ Len(Twice(Zeros)) = 2
        /\ \A k \in 1..2 : Twice(Zeros)[k] = [save |-> Zeros, part |-> 1]
    BY Blank, TwiceIs
  <2>2. DOMAIN Twice(Zeros) = 1..2
    BY <2>1
  <2>3. QED BY <2>1, <2>2
<1>5. QED BY <1>2, <1>3, <1>4

\* What is read of a save.
LEMMA ReadFits ==
  ASSUME Sound, KindInv, NEW i \in Tables
  PROVE  /\ \A k \in DOMAIN Main(i) : /\ Fits(i \in Files, Main(i)[k].save, saves, setting.crashesEarly)
                                      /\ Old(Main(i)[k].save)
         /\ \A k \in DOMAIN Backup(i) :
              /\ Fits(i \in Files, Backup(i)[k].save, saves, setting.crashesEarly)
              /\ Old(Backup(i)[k].save)
         /\ Loaded(i)[1].save \in SaveRecs /\ Old(Loaded(i)[1].save)
         /\ Fits(i \in Files, Loaded(i)[1].save, saves, setting.crashesEarly)
         /\ DOMAIN Main(i) = 1..Count(i) /\ DOMAIN Backup(i) = 1..Count(i) /\ Count(i) \in 1..2
<1>1. /\ Main(i) \in [1..Count(i) -> Cells] /\ Backup(i) \in [1..Count(i) -> Cells]
      /\ \A k \in 1..Count(i) : Main(i)[k] = flash[MainStart(i) + k - 1]
      /\ i \in Files => Backup(i) = [k \in 1..1 |-> flash[MainStart(i) + 1]]
      /\ i \notin Files => /\ BackupStart(i) \in Starts
                           /\ Backup(i) = [k \in 1..2 |-> flash[BackupStart(i) + k - 1]]
      /\ Count(i) \in 1..2 /\ MainStart(i) \in Starts
      /\ i \in Files <=> Count(i) = 1
  BY ReadIs, Map DEF Sound
<1>2. \A p \in Starts, k \in 1..2 : /\ Fits(p < 4, flash[p + k - 1].save, saves, setting.crashesEarly)
                                    /\ Old(flash[p + k - 1].save)
  BY Among DEF KindInv, CellsInv
<1>3. /\ (MainStart(i) < 4) = (i \in Files)
      /\ i \notin Files => (BackupStart(i) < 4) = (i \in Files)
  <2>1. CASE i \in Files
    BY <2>1, Below
  <2>2. CASE i \notin Files
    <3>1. PICK f \in Files : i = Owl(f)
      BY <2>2, Map
    <3>2. MainStart(i) >= 4 /\ BackupStart(i) >= 4 /\ MainStart(i) \in Nat /\ BackupStart(i) \in Nat
      BY <3>1, Below, <1>1, <2>2, Sectors
    <3>3. QED BY <2>2, <3>2
  <2>3. QED BY <2>1, <2>2
<1>4. ASSUME NEW k \in 1..Count(i)
      PROVE  Fits(i \in Files, Main(i)[k].save, saves, setting.crashesEarly) /\ Old(Main(i)[k].save)
  <2>1. k \in 1..2
    BY <1>1
  <2>2. QED BY <1>1, <1>2, <1>3, <2>1
<1>5. ASSUME NEW k \in 1..Count(i)
      PROVE  Fits(i \in Files, Backup(i)[k].save, saves, setting.crashesEarly) /\ Old(Backup(i)[k].save)
  <2>1. k \in 1..2
    BY <1>1
  <2>2. CASE i \in Files
    <3>1. k = 1 /\ MainStart(i) \in Nat
      BY <1>1, <2>2, Sectors
    <3>2. Backup(i)[k] = flash[MainStart(i) + 1]
      BY <1>1, <2>2, <3>1
    <3>3. PICK l \in 1..2 : l = 2
      OBVIOUS
    <3>4. MainStart(i) + 1 = MainStart(i) + l - 1
      BY <3>1, <3>3
    <3>5. QED BY <1>1, <1>2, <1>3, <3>2, <3>4
  <2>3. CASE i \notin Files
    <3>1. Count(i) = 2 /\ Backup(i)[k] = flash[BackupStart(i) + k - 1]
      BY <1>1, <2>1, <2>3
    <3>2. QED BY <1>1, <1>2, <1>3, <2>1, <2>3, <3>1
  <2>4. QED BY <2>2, <2>3
<1>6. 1 \in 1..Count(i) /\ Main(i)[1].save \in SaveRecs /\ Backup(i)[1].save \in SaveRecs
  BY <1>1 DEF Cells
<1>7. Loaded(i)[1] \in {Main(i)[1], Backup(i)[1]}
  BY DEF Loaded
<1>8. QED BY <1>1, <1>4, <1>5, <1>6, <1>7

\* The flash thread.
LEMMA KindFlash == ASSUME Sound, KindInv, FlashThread PROVE KindInv'
<1>1. /\ todo # <<>> /\ todo' \in {todo, Tail(todo)}
      /\ \A p \in Starts, k \in 1..2 :
           \/ flash'[p + k - 1] = flash[p + k - 1]
           \/ flash'[p + k - 1] = [save |-> Torn, part |-> 1]
           \/ /\ p = Request.start /\ k \in DOMAIN Request.units
              /\ flash'[p + k - 1] = Request.units[k]
      /\ saves' = saves /\ setting' = setting /\ ctx' = ctx /\ phase' = phase
  BY FlashCells DEF Sound, FlashThread, game
<1>2. /\ 1 \in DOMAIN todo /\ Request = todo[1] /\ saves \in Nat
  BY <1>1, TodoIs DEF Sound, Request, GameTypes
<1>3. ASSUME NEW p \in Starts, NEW k \in 1..2
      PROVE  /\ Fits(p < 4, flash'[p + k - 1].save, saves, setting.crashesEarly)
             /\ Old(flash'[p + k - 1].save)
  <2>1. CASE flash'[p + k - 1] = flash[p + k - 1]
    BY <2>1, Among DEF KindInv, CellsInv
  <2>2. CASE flash'[p + k - 1] = [save |-> Torn, part |-> 1]
    BY <1>2, <2>2, BlankFits
  <2>3. CASE p = Request.start /\ k \in DOMAIN Request.units /\ flash'[p + k - 1] = Request.units[k]
    <3>1. Request.units[k].save \in AllSaves
      BY <1>2, <2>3 DEF AllSaves
    <3>2. Old(Request.units[k].save)
      BY <3>1 DEF Old
    <3>3. QED BY <1>2, <2>3, <3>2 DEF KindInv, CellsInv
  <2>4. QED BY <1>1, <2>1, <2>2, <2>3
<1>4. ASSUME NEW n \in DOMAIN todo'
      PROVE  \E m \in DOMAIN todo : todo'[n] = todo[m]
  <2>1. CASE todo' = Tail(todo)
    BY <1>1, <2>1, Rest DEF Sound
  <2>2. QED BY <1>1, <2>1
<1>5. CellsInv'
  BY <1>1, <1>3, <1>4 DEF KindInv, CellsInv
<1>6. CtxInv'
  BY <1>1 DEF KindInv, CtxInv
<1>7. \A s \in AllSaves' : Old(s)
  <2> SUFFICES ASSUME NEW s \in AllSaves' PROVE Old(s)
    OBVIOUS
  <2>1. CASE s = ctx
    BY <2>1, Among
  <2>2. CASE \E p \in Starts, k \in 1..2 : s = flash'[p + k - 1].save
    BY <1>3, <2>2
  <2>3. CASE \E n \in DOMAIN todo' : \E k \in DOMAIN todo'[n].units : s = todo'[n].units[k].save
    <3>1. s \in AllSaves
      BY <1>4, <2>3 DEF AllSaves
    <3>2. QED BY <3>1 DEF Old
  <2>4. QED BY <1>1, <2>1, <2>2, <2>3 DEF AllSaves
<1>8. PICK w : w = 1
  OBVIOUS
<1>9. StampInv'
  BY <1>7, <1>8, StampsKept
<1>10. QED BY <1>5, <1>6, <1>9 DEF KindInv

\* The power is cut.
LEMMA KindCut == ASSUME Sound, KindInv, PowerCut PROVE KindInv'
<1>1. /\ flash' = flash /\ todo' = <<>> /\ setting' = setting /\ saves' = saves /\ ctx' = Zeros
      /\ phase' = "boot" /\ saves \in Nat /\ DOMAIN todo' = {}
  BY DEF PowerCut, Boot, Sound, GameTypes
<1>2. CellsInv'
  BY <1>1 DEF KindInv, CellsInv
<1>3. Old(Zeros) /\ Zeros.stamp = 0 /\ ~Zeros.owl /\ ~Zeros.crash
  BY <1>1, BlankFits DEF Zeros
<1>4. CtxInv'
  BY <1>1, <1>3 DEF CtxInv
<1>5. \A s \in AllSaves' : Old(s)
  BY <1>1, <1>3, Among DEF AllSaves
<1>6. PICK w : w = 1
  OBVIOUS
<1>7. StampInv'
  BY <1>5, <1>6, StampsKept
<1>8. QED BY <1>2, <1>4, <1>7 DEF KindInv

\* Nothing is written and no save made.
LEMMA KindNone ==
  ASSUME Sound, KindInv, Sent({}, <<>>, <<>>), saves' = saves, CtxInv', Old(ctx')
  PROVE  KindInv'
<1>1. PICK w : w = 1
  OBVIOUS
<1>2. Suits({}, <<>>, <<>>, w, w)
  BY DEF Suits
<1>3. QED BY <1>2, KindSent

\* A good save, whose backup may be written again.
LEMMA KindCheckGood ==
  ASSUME Sound, KindInv, GameStep, CheckFile, CheckGood
  PROVE  KindInv'
<1>1. /\ \/ Sent({}, <<>>, <<>>)
         \/ file \in Files /\ Sent({MainStart(file)}, Main(file) \o Main(file), <<>>)
         \/ file \notin Files /\ Sent({BackupStart(file)}, <<>>, Main(file))
      /\ file \in Tables /\ phase = "boot" /\ phase' = "boot" /\ UNCHANGED <<ctx, saves>>
      /\ setting' = setting
  BY CheckGoodDoes DEF GameStep
<1>2. CtxInv' /\ Old(ctx')
  BY <1>1, Among DEF KindInv, CtxInv
<1>3. /\ \A k \in DOMAIN Main(file) :
           /\ Fits(file \in Files, Main(file)[k].save, saves, setting.crashesEarly)
           /\ Old(Main(file)[k].save)
      /\ Main(file) \in Seq(Cells) /\ Len(Main(file)) = Count(file)
      /\ (file \in Files <=> Count(file) = 1)
  BY <1>1, ReadFits, ReadIs, Map DEF Sound
<1>4. PICK w : w = 1
  OBVIOUS
<1>5. CASE Sent({}, <<>>, <<>>)
  BY <1>1, <1>2, <1>5, KindNone
<1>6. CASE file \in Files /\ Sent({MainStart(file)}, Main(file) \o Main(file), <<>>)
  <2>1. /\ DOMAIN (Main(file) \o Main(file)) = 1..2 /\ 1 \in DOMAIN Main(file)
        /\ \A k \in 1..2 : (Main(file) \o Main(file))[k] = Main(file)[1]
    <3>1. /\ Len(Main(file)) = 1 /\ Main(file) \o Main(file) \in Seq(Cells)
          /\ Len(Main(file) \o Main(file)) = 1 + 1
          /\ \A k \in 1..1 + 1 : (Main(file) \o Main(file))[k]
                                   = IF k <= 1 THEN Main(file)[k] ELSE Main(file)[k - 1]
      BY <1>3, <1>6, ConcatProperties
    <3>2. DOMAIN Main(file) = 1..1
      BY <1>3, <3>1
    <3>3. QED BY <3>1, <3>2
  <2>2. Good(TRUE, Main(file)[1].save, w, w)
    <3>1. (file \in Files) = TRUE
      BY <1>6
    <3>2. Fits(TRUE, Main(file)[1].save, saves, setting.crashesEarly) /\ Old(Main(file)[1].save)
      BY <1>3, <2>1, <3>1
    <3>3. QED BY <1>1, <3>2 DEF Good
  <2>3. MainStart(file) < 4 /\ ~(MainStart(file) >= 4)
    BY <1>6, Below, Map, Sectors
  <2>4. Suits({MainStart(file)}, Main(file) \o Main(file), <<>>, w, w)
    BY <1>1, <1>2, <1>6, <2>1, <2>2, <2>3 DEF Suits
  <2>5. QED BY <2>4, KindSent
<1>7. CASE file \notin Files /\ Sent({BackupStart(file)}, <<>>, Main(file))
  <2>1. \A k \in DOMAIN Main(file) : Good(FALSE, Main(file)[k].save, w, w)
    <3>1. (file \in Files) = FALSE
      BY <1>7
    <3>2. QED BY <1>1, <1>3, <3>1 DEF Good
  <2>2. PICK f \in Files : file = Owl(f)
    BY <1>1, <1>7, Map
  <2>3. BackupStart(file) >= 4 /\ ~(BackupStart(file) < 4)
    BY <2>2, Below, Sectors
  <2>4. Suits({BackupStart(file)}, <<>>, Main(file), w, w)
    BY <1>1, <1>2, <1>7, <2>1, <2>3 DEF Suits
  <2>5. QED BY <2>4, KindSent
<1>8. QED BY <1>1, <1>5, <1>6, <1>7

\* The steps that write nothing: booting, and switching off.
LEMMA KindQuiet ==
  ASSUME Sound, KindInv, GameStep,
         (CheckFile /\ (CheckEmpty \/ CheckBackup)) \/ FilesChecked \/ SwitchOff
  PROVE  KindInv'
<1>1. /\ Sent({}, <<>>, <<>>) /\ saves' = saves /\ setting' = setting
      /\ \/ phase = "boot" /\ ctx' = ctx /\ phase' \in {"boot", "select", "hung"}
         \/ ctx' = Zeros /\ phase' = "boot"
  BY CheckBadDoes, FilesCheckedDoes, SwitchOffDoes DEF GameStep, Boot
<1>2. saves \in Nat /\ Old(Zeros) /\ Zeros.stamp = 0 /\ ~Zeros.owl /\ ~Zeros.crash
  BY BlankFits DEF Zeros, Sound, GameTypes
<1>3. ctx' = Zeros
  BY <1>1 DEF KindInv, CtxInv
<1>4. CtxInv' /\ Old(ctx')
  BY <1>1, <1>2, <1>3 DEF CtxInv
<1>5. QED BY <1>1, <1>4, KindNone

\* A new save.
KindOfSave(owl, crash, cycling, whole) ==
  /\ whole => owl \/ crash
  /\ owl => whole
  /\ ~setting.crashesEarly => (whole => cycling) /\ (crash => whole)

\* A new save fits the sectors it is written to.
LEMMA NewFits ==
  ASSUME Sound, NEW f, NEW owl, NEW crash, NEW config, NEW cycling, NEW whole,
         Creates(f, owl, crash, config, cycling, whole), KindOfSave(owl, crash, cycling, whole)
  PROVE  /\ New(ctx', whole, crash) /\ saves' \in {saves, saves + 1} /\ saves' \in Nat
         /\ ~whole => Good(TRUE, ctx', whole, crash)
         /\ whole => Good(FALSE, ctx', whole, crash)
<1>1. /\ saves' = saves + 1 /\ saves \in Nat /\ ctx'.stamp = saves + 1 /\ ctx'.owl = owl
      /\ ctx'.crash = crash /\ ctx'.cycling = cycling /\ ctx'.whole = whole
  BY DEF Creates, Sound, GameTypes
<1>2. New(ctx', whole, crash) /\ saves' \in Nat /\ ctx'.stamp <= saves'
  BY <1>1 DEF New
<1>3. ~whole => Fits(TRUE, ctx', saves', setting.crashesEarly)
  BY <1>1, <1>2 DEF Fits, KindOfSave
<1>4. whole => Fits(FALSE, ctx', saves', setting.crashesEarly)
  BY <1>1, <1>2 DEF Fits, KindOfSave
<1>5. QED BY <1>1, <1>2, <1>3, <1>4 DEF Good

\* A cycle save is made, and the owl save invalidated or not.
LEMMA KindCycle ==
  ASSUME Sound, KindInv, NEW f \in Files, NEW owl, NEW crash, NEW config, NEW cycling, NEW whole,
         NEW S, NEW x, NEW y, ~owl, ~whole,
         Creates(f, owl, crash, config, cycling, whole), Sent(S, x, y),
         ~setting.crashesEarly => ~crash,
         \A k \in DOMAIN x : x[k].save = ctx', \A k \in DOMAIN y : y[k].save = Zeros,
         phase' = "select" \/ phase' = "play"
  PROVE  KindInv'
<1>1. /\ New(ctx', whole, crash) /\ saves' \in {saves, saves + 1} /\ saves' \in Nat
      /\ Good(TRUE, ctx', whole, crash)
  <2>1. KindOfSave(owl, crash, cycling, whole)
    BY DEF KindOfSave
  <2>2. QED BY <2>1, NewFits
<1>2. setting' = setting /\ ctx'.stamp = saves' /\ ctx'.owl = owl /\ ctx'.crash = crash
  BY DEF Creates, Sent
<1>3. Good(FALSE, Zeros, whole, crash)
  BY <1>1, BlankFits DEF Good
<1>4. CtxInv'
  BY <1>1, <1>2 DEF CtxInv
<1>5. Suits(S, x, y, whole, crash)
  BY <1>1, <1>3, <1>4 DEF Suits
<1>6. QED BY <1>5, KindSent

\* An owl save or a crash save is made.
LEMMA KindOwl ==
  ASSUME Sound, KindInv, NEW f \in Files, NEW owl, NEW crash, NEW config, NEW cycling, NEW whole,
         NEW S, NEW y, whole,
         Creates(f, owl, crash, config, cycling, whole), Sent(S, <<>>, y), owl \/ crash,
         ~setting.crashesEarly => cycling, \A k \in DOMAIN y : y[k].save = ctx',
         phase' = "leave" \/ phase' = "crashed"
  PROVE  KindInv'
<1>1. /\ New(ctx', whole, crash) /\ saves' \in {saves, saves + 1} /\ saves' \in Nat
      /\ Good(FALSE, ctx', whole, crash)
  <2>1. KindOfSave(owl, crash, cycling, whole)
    BY DEF KindOfSave
  <2>2. QED BY <2>1, NewFits
<1>2. setting' = setting /\ ctx'.stamp = saves'
  BY DEF Creates, Sent
<1>3. CtxInv'
  BY <1>1, <1>2 DEF CtxInv
<1>4. DOMAIN <<>> = {}
  OBVIOUS
<1>5. Suits(S, <<>>, y, whole, crash)
  BY <1>1, <1>3, <1>4 DEF Suits
<1>6. QED BY <1>5, KindSent

\* Makes a new file.
LEMMA KindInitSave ==
  ASSUME Sound, KindInv, GameStep, NEW f \in Files, InitSave(f)
  PROVE  KindInv'
<1>1. /\ Sent({MainStart(f)}, Twice(ctx'), <<>>) /\ phase = "select" /\ phase' = "select"
      /\ Creates(f, FALSE, ctx.crash, 0, FALSE, FALSE)
  BY InitSaveDoes
<1>2. ctx' \in SaveRecs
  BY <1>1 DEF Creates
<1>3. \A k \in DOMAIN Twice(ctx') : Twice(ctx')[k].save = ctx'
  <2>1. /\ Twice(ctx') \in Seq(Cells) /\ Len(Twice(ctx')) = 2
        /\ \A k \in 1..2 : Twice(ctx')[k] = [save |-> ctx', part |-> 1]
    BY <1>2, TwiceIs
  <2>2. DOMAIN Twice(ctx') = 1..2
    BY <2>1
  <2>3. QED BY <2>1, <2>2
<1>4. ~setting.crashesEarly => ~ctx.crash
  BY <1>1 DEF KindInv, CtxInv
<1>5. DOMAIN <<>> = {}
  OBVIOUS
<1>6. QED BY <1>1, <1>3, <1>4, <1>5, KindCycle

\* Both units of the buffer hold the save.
LEMMA BufferOf ==
  ASSUME NEW s \in SaveRecs
  PROVE  DOMAIN Buffer(s) = 1..2 /\ \A k \in DOMAIN Buffer(s) : Buffer(s)[k].save = s
<1>1. Buffer(s) \in Seq(Cells) /\ Len(Buffer(s)) = 2 /\ \A k \in 1..2 : Buffer(s)[k].save = s
  BY BufferIs
<1>2. DOMAIN Buffer(s) = 1..2
  BY <1>1
<1>3. QED BY <1>1, <1>2

\* The game makes a cycle save.
LEMMA KindPlay ==
  ASSUME Sound, KindInv, GameStep, NewCycle \/ NewDay \/ EnterClockTown
  PROVE  KindInv'
<1>0. saves \in Nat /\ fileNum \in Files /\ DOMAIN <<>> = {}
  BY DEF Sound, GameTypes
<1>1. \A k \in DOMAIN Image(Zeros, 2) : Image(Zeros, 2)[k].save = Zeros
  BY <1>0, BlankFits
<1>2. CASE NewCycle
  <2>1. /\ Sent(OwlSectors(fileNum) \cup {MainStart(fileNum)}, Buffer(ctx'), Image(Zeros, 2))
        /\ phase' = "play" /\ Creates(fileNum, FALSE, FALSE, ctx.config, ctx.cycling, FALSE)
    BY <1>2, NewCycleDoes
  <2>2. ctx' \in SaveRecs
    BY <2>1 DEF Creates
  <2>3. \A k \in DOMAIN Buffer(ctx') : Buffer(ctx')[k].save = ctx'
    BY <2>2, BufferOf
  <2>4. PICK no : ~no /\ no = FALSE
    OBVIOUS
  <2>5. Creates(fileNum, no, no, ctx.config, ctx.cycling, no)
    BY <2>1, <2>4
  <2>6. QED BY <1>0, <1>1, <2>1, <2>3, <2>4, <2>5, KindCycle
<1>3. CASE NewDay
  <2>1. /\ phase = "play" /\ phase' = "play"
        /\ Creates(fileNum, ctx.owl, FALSE, ctx.config, ctx.cycling, ctx.owl)
    BY <1>3, NewDayDoes
  <2>2. PICK x : /\ x \in Seq(Cells) /\ Len(x) = 1 /\ x[1] = [save |-> ctx', part |-> 1]
                 /\ Sent(OwlSectors(fileNum) \cup {MainStart(fileNum)}, x, Image(Zeros, 2))
    BY <1>3, NewDayDoes
  <2>3. DOMAIN x = 1..1
    BY <2>2
  <2>4. \A k \in DOMAIN x : x[k].save = ctx'
    BY <2>2, <2>3
  <2>5. ~ctx.owl
    BY <2>1 DEF KindInv, CtxInv
  <2>6. PICK no : ~no /\ no = FALSE
    OBVIOUS
  <2>7. Creates(fileNum, ctx.owl, no, ctx.config, ctx.cycling, ctx.owl)
    BY <2>1, <2>6
  <2>8. QED BY <1>0, <1>1, <2>1, <2>2, <2>4, <2>5, <2>6, <2>7, KindCycle
<1>4. CASE EnterClockTown
  <2>1. /\ Sent({MainStart(fileNum)}, Twice(ctx'), <<>>)
        /\ phase = "play" /\ phase' = "play" /\ ~ctx.cycling
        /\ Creates(fileNum, FALSE, ctx.crash, ctx.config, TRUE, FALSE)
    BY <1>4, EnterClockTownDoes
  <2>2. ctx' \in SaveRecs
    BY <2>1 DEF Creates
  <2>3. \A k \in DOMAIN Twice(ctx') : Twice(ctx')[k].save = ctx'
    <3>1. /\ Twice(ctx') \in Seq(Cells) /\ Len(Twice(ctx')) = 2
          /\ \A k \in 1..2 : Twice(ctx')[k] = [save |-> ctx', part |-> 1]
      BY <2>2, TwiceIs
    <3>2. DOMAIN Twice(ctx') = 1..2
      BY <3>1
    <3>3. QED BY <3>1, <3>2
  <2>4. ~setting.crashesEarly => ~ctx.crash
    BY <2>1 DEF KindInv, CtxInv
  <2>5. QED BY <1>0, <2>1, <2>3, <2>4, KindCycle
<1>5. QED BY <1>2, <1>3, <1>4

\* The game makes an owl save, or crashes.
LEMMA KindLeave ==
  ASSUME Sound, KindInv, GameStep, OwlSave \/ Crash
  PROVE  KindInv'
<1>0. fileNum \in Files
  BY DEF Sound, GameTypes
<1>1. CASE OwlSave
  <2>1. /\ Sent(OwlSectors(fileNum), <<>>, Buffer(ctx')) /\ phase' = "leave" /\ ctx.cycling
        /\ Creates(fileNum, TRUE, FALSE, ctx.config, ctx.cycling, TRUE)
    BY <1>1, OwlSaveDoes
  <2>2. ctx' \in SaveRecs
    BY <2>1 DEF Creates
  <2>3. \A k \in DOMAIN Buffer(ctx') : Buffer(ctx')[k].save = ctx'
    BY <2>2, BufferOf
  <2>4. QED BY <1>0, <2>1, <2>3, KindOwl
<1>2. CASE Crash
  <2>1. /\ Sent({MainStart(Owl(fileNum))}, <<>>, Buffer(ctx')) /\ phase' = "crashed"
        /\ ctx.cycling \/ setting.crashesEarly
        /\ Creates(fileNum, FALSE, TRUE, ctx.config, ctx.cycling, TRUE)
    BY <1>2, CrashDoes
  <2>2. ctx' \in SaveRecs
    BY <2>1 DEF Creates
  <2>3. \A k \in DOMAIN Buffer(ctx') : Buffer(ctx')[k].save = ctx'
    BY <2>2, BufferOf
  <2>4. QED BY <1>0, <2>1, <2>3, KindOwl
<1>3. QED BY <1>1, <1>2

\* Erases a file.
LEMMA KindEraseSave ==
  ASSUME Sound, KindInv, GameStep, NEW f \in Files, EraseSave(f)
  PROVE  KindInv'
<1> DEFINE S == (IF info[Owl(f)].owl THEN OwlSectors(f) ELSE {}) \cup {MainStart(f)}
<1>1. /\ Sent(S, Twice(Zeros), Image(Zeros, 2)) /\ phase' = "select" /\ ctx' = Zeros /\ saves' = saves
      /\ saves \in Nat
  BY EraseSaveDoes DEF Sound, GameTypes
<1> HIDE DEF S
<1>2. PICK w : w = 1
  OBVIOUS
<1>3. /\ Old(Zeros) /\ Good(TRUE, Zeros, w, w) /\ Good(FALSE, Zeros, w, w)
      /\ \A k \in DOMAIN Image(Zeros, 2) : Image(Zeros, 2)[k].save = Zeros
      /\ \A k \in DOMAIN Twice(Zeros) : Twice(Zeros)[k].save = Zeros
  BY <1>1, BlankFits DEF Good
<1>4. CtxInv'
  BY <1>1 DEF CtxInv, Zeros
<1>5. Suits(S, Twice(Zeros), Image(Zeros, 2), w, w)
  BY <1>1, <1>3, <1>4 DEF Suits
<1>6. QED BY <1>5, KindSent

\* Copies a file.
LEMMA KindCopySave ==
  ASSUME Sound, KindInv, GameStep, NEW src \in Files, NEW dst \in Files, CopySave(src, dst)
  PROVE  KindInv'
<1> DEFINE S == (IF info[Owl(src)].owl THEN OwlSectors(dst) ELSE {}) \cup {MainStart(dst)}
           x == Main(src) \o Backup(src)
           y == Main(Owl(src))
<1>1. /\ Sent(S, x, y) /\ phase' = "select" /\ ctx' = Main(src)[1].save /\ saves' = saves
      /\ saves \in Nat /\ Len(x) = 2 /\ x[1] = Main(src)[1] /\ x[2] = Backup(src)[1]
  BY CopySaveDoes DEF Sound, GameTypes
<1>2. src \in Tables /\ Owl(src) \in Tables /\ Owl(src) \notin Files /\ Count(src) = 1
  BY Map
<1>3. DOMAIN x = 1..2
  <2>1. Main(src) \in Seq(Cells) /\ Backup(src) \in Seq(Cells)
    BY <1>2, ReadIs DEF Sound
  <2>2. x \in Seq(Cells)
    BY <2>1, ConcatProperties
  <2>3. QED BY <1>1, <2>2
<1>4. PICK w : w = 1
  OBVIOUS
<1>5. /\ Fits(TRUE, Main(src)[1].save, saves, setting.crashesEarly) /\ Old(Main(src)[1].save)
      /\ Fits(TRUE, Backup(src)[1].save, saves, setting.crashesEarly) /\ Old(Backup(src)[1].save)
  <2>1. 1 \in DOMAIN Main(src) /\ 1 \in DOMAIN Backup(src) /\ (src \in Files) = TRUE
    BY <1>2, ReadFits
  <2>2. QED BY <1>2, <2>1, ReadFits
<1>6. \A k \in DOMAIN y : Good(FALSE, y[k].save, w, w)
  <2>1. (Owl(src) \in Files) = FALSE
    BY <1>2
  <2>2. \A k \in DOMAIN y : Fits(FALSE, y[k].save, saves, setting.crashesEarly) /\ Old(y[k].save)
    BY <1>2, <2>1, ReadFits
  <2>3. QED BY <1>1, <2>2 DEF Good
<1> HIDE DEF S, x, y
<1>7. \A k \in DOMAIN x : Good(TRUE, x[k].save, w, w)
  <2>1. Good(TRUE, x[1].save, w, w) /\ Good(TRUE, x[2].save, w, w)
    BY <1>1, <1>5 DEF Good
  <2>2. ASSUME NEW k \in DOMAIN x PROVE Good(TRUE, x[k].save, w, w)
    <3>1. k = 1 \/ k = 2
      BY <1>3
    <3>2. CASE k = 1
      BY <2>1, <3>2
    <3>3. CASE k = 2
      BY <2>1, <3>3
    <3>4. QED BY <3>1, <3>2, <3>3
  <2>3. QED BY <2>2
<1>8. CtxInv'
  <2>1. setting' = setting
    BY <1>1 DEF Sent
  <2>2. QED BY <1>1, <1>5, <2>1 DEF CtxInv, Fits
<1>9. Suits(S, x, y, w, w)
  BY <1>1, <1>5, <1>6, <1>7, <1>8 DEF Suits
<1>10. QED BY <1>9, KindSent

\* A save with another configuration is the same save.
LEMMA ConfigFits ==
  ASSUME NEW q \in Seq(Cells), NEW c \in {0, 1}, NEW k \in DOMAIN q, NEW low, NEW early, NEW n,
         Fits(low, q[k].save, n, early), Old(q[k].save)
  PROVE  Fits(low, WithConfig(q, c)[k].save, n, early) /\ Old(WithConfig(q, c)[k].save)
<1> DEFINE s == q[k].save
           t == WithConfig(q, c)[k].save
<1>1. Alike(t, s)
  BY ConfigIs
<1>2. Fits(low, s, n, early) /\ Old(s)
  OBVIOUS
<1> HIDE DEF s, t
<1>3. Fits(low, t, n, early) /\ Old(t)
  BY <1>1, <1>2 DEF Alike, Fits, Old
<1>4. QED BY <1>3 DEF t

\* So is one with the checksum of another.
LEMMA WrongSumFits ==
  ASSUME NEW q \in Seq(Cells), NEW k \in DOMAIN q, NEW low, NEW early, NEW n,
         Fits(low, q[k].save, n, early), Old(q[k].save)
  PROVE  Fits(low, WrongSum(q)[k].save, n, early) /\ Old(WrongSum(q)[k].save)
<1>1. q[k].save \in SaveRecs
  <2>1. q[k] \in Cells
    OBVIOUS
  <2>2. QED BY <2>1 DEF Cells
<1>2. WrongSum(q)[k].save = [q[k].save EXCEPT !.sum = FALSE]
  BY WrongSumIs
<1> DEFINE s == q[k].save
           t == WrongSum(q)[k].save
<1>3. /\ t.stamp = s.stamp /\ t.owl = s.owl /\ t.crash = s.crash
      /\ t.cycling = s.cycling /\ t.whole = s.whole
  BY <1>1, <1>2 DEF SaveRecs
<1>4. Fits(low, s, n, early) /\ Old(s)
  OBVIOUS
<1> HIDE DEF s, t
<1>5. Fits(low, t, n, early) /\ Old(t)
  BY <1>3, <1>4 DEF Fits, Old
<1>6. QED BY <1>5 DEF t

\* Changes the configuration of a file.
LEMMA KindSaveChaosConfig ==
  ASSUME Sound, KindInv, GameStep, NEW f \in Files, NEW c \in {0, 1}, SaveChaosConfig(f, c)
  PROVE  KindInv'
<1> DEFINE S == (IF info[Owl(f)].owl THEN {MainStart(Owl(f))} ELSE {}) \cup {MainStart(f)}
           y == WithConfig(Main(Owl(f)), c)
<1>1. PICK x : Configured(f, c, x) /\ Sent(S, x, y)
  BY SaveChaosConfigDoes
<1>2. /\ phase = "select" /\ phase' = "select" /\ ctx' = [ctx EXCEPT !.config = c] /\ saves' = saves
      /\ ctx \in SaveRecs /\ saves \in Nat
  BY SaveChaosConfigDoes DEF Sound, GameTypes
<1>3. /\ f \in Tables /\ Owl(f) \in Tables /\ Owl(f) \notin Files /\ Count(f) = 1 /\ Count(Owl(f)) = 2
      /\ Main(f) \in Seq(Cells) /\ Backup(f) \in Seq(Cells) /\ Main(Owl(f)) \in Seq(Cells)
  <2>1. f \in Tables /\ Owl(f) \in Tables /\ Owl(f) \notin Files /\ Count(f) = 1 /\ Count(Owl(f)) = 2
    BY Map
  <2>2. QED BY <2>1, ReadIs DEF Sound
<1>4. PICK w : w = 1
  OBVIOUS
<1>5. \A k \in DOMAIN y : Good(FALSE, y[k].save, w, w)
  <2>1. DOMAIN y = DOMAIN Main(Owl(f)) /\ (Owl(f) \in Files) = FALSE
    BY <1>3 DEF WithConfig
  <2>2. ASSUME NEW k \in DOMAIN Main(Owl(f))
        PROVE  Fits(FALSE, y[k].save, saves, setting.crashesEarly) /\ Old(y[k].save)
    <3>1. Fits(FALSE, Main(Owl(f))[k].save, saves, setting.crashesEarly) /\ Old(Main(Owl(f))[k].save)
      BY <1>3, <2>1, ReadFits
    <3>2. QED BY <1>3, <3>1, ConfigFits
  <2>3. QED BY <1>2, <2>1, <2>2 DEF Good
<1>6. /\ Fits(TRUE, x[1].save, saves, setting.crashesEarly) /\ Old(x[1].save)
      /\ Len(x) = 2 => Fits(TRUE, x[2].save, saves, setting.crashesEarly) /\ Old(x[2].save)
  <2>1. 1 \in DOMAIN Main(f) /\ 1 \in DOMAIN Backup(f) /\ (f \in Files) = TRUE
    BY <1>3, ReadFits
  <2>2. /\ Fits(TRUE, Main(f)[1].save, saves, setting.crashesEarly) /\ Old(Main(f)[1].save)
        /\ Fits(TRUE, Backup(f)[1].save, saves, setting.crashesEarly) /\ Old(Backup(f)[1].save)
    BY <1>3, <2>1, ReadFits
  <2>3. /\ Fits(TRUE, WithConfig(Main(f), c)[1].save, saves, setting.crashesEarly)
        /\ Old(WithConfig(Main(f), c)[1].save)
    BY <1>3, <2>1, <2>2, ConfigFits
  <2>4. /\ Fits(TRUE, WrongSum(WithConfig(Backup(f), c))[1].save, saves, setting.crashesEarly)
        /\ Old(WrongSum(WithConfig(Backup(f), c))[1].save)
    <3> DEFINE b == WithConfig(Backup(f), c)
    <3>1. b \in Seq(Cells) /\ 1 \in DOMAIN b
      BY <1>3, <2>1, ConfigIs DEF WithConfig
    <3>2. Fits(TRUE, b[1].save, saves, setting.crashesEarly) /\ Old(b[1].save)
      BY <1>3, <2>1, <2>2, ConfigFits
    <3> HIDE DEF b
    <3>3. Fits(TRUE, WrongSum(b)[1].save, saves, setting.crashesEarly) /\ Old(WrongSum(b)[1].save)
      BY <3>1, <3>2, WrongSumFits
    <3>4. QED BY <3>3 DEF b
  <2>5. QED BY <1>1, <2>3, <2>4 DEF Configured
<1> HIDE DEF S, y
<1>7. \A k \in DOMAIN x : Good(TRUE, x[k].save, w, w)
  <2>1. ASSUME NEW k \in DOMAIN x
        PROVE  Fits(TRUE, x[k].save, saves, setting.crashesEarly) /\ Old(x[k].save)
    <3>1. DOMAIN x = 1..Len(x) /\ Len(x) \in 1..2
      BY <1>1 DEF Configured
    <3>2. k = 1 \/ (k = 2 /\ Len(x) = 2)
      BY <3>1
    <3>3. QED BY <1>6, <3>2
  <2>2. QED BY <1>2, <2>1 DEF Good
<1>8. /\ ctx'.stamp = ctx.stamp /\ ctx'.owl = ctx.owl /\ ctx'.crash = ctx.crash
      /\ ctx'.whole = ctx.whole
  BY <1>2 DEF SaveRecs
<1>9. CtxInv'
  <2>1. setting' = setting
    BY <1>1 DEF Sent
  <2>2. QED BY <1>2, <1>8, <2>1 DEF KindInv, CtxInv
<1>10. Old(ctx')
  BY <1>8, Among DEF Old
<1>11. Suits(S, x, y, w, w)
  BY <1>1, <1>2, <1>5, <1>7, <1>9, <1>10 DEF Suits
<1>12. QED BY <1>11, KindSent

\* Opens a file.
LEMMA KindOpenSave ==
  ASSUME Sound, KindInv, GameStep, NEW f \in Files, OpenSave(f)
  PROVE  KindInv'
<1> DEFINE s == Loaded(Opened(f))[1].save
<1>1. /\ Sent(OwlSectors(f), <<>>, Image(Zeros, 2)) \/ Sent({}, <<>>, <<>>)
      /\ phase' = "play" /\ s \in SaveRecs /\ Opened(f) \in Tables
      /\ ctx' = [s EXCEPT !.owl = FALSE] /\ saves' = saves /\ saves \in Nat
  BY OpenSaveDoes DEF Sound, GameTypes
<1>2. Fits(Opened(f) \in Files, s, saves, setting.crashesEarly) /\ Old(s)
  BY <1>1, ReadFits
<1> HIDE DEF s
<1>3. /\ ctx'.stamp = s.stamp /\ ~ctx'.owl /\ ctx'.crash = s.crash /\ ctx'.whole = s.whole
      /\ ctx'.cycling = s.cycling
  BY <1>1 DEF SaveRecs
<1>4. CtxInv'
  <2>1. setting' = setting
    BY <1>1 DEF Sent
  <2>2. QED BY <1>1, <1>2, <1>3, <2>1 DEF CtxInv, Fits
<1>5. Old(ctx')
  BY <1>2, <1>3 DEF Old
<1>6. PICK w : w = 1
  OBVIOUS
<1>7. CASE Sent({}, <<>>, <<>>)
  BY <1>1, <1>4, <1>5, <1>7, KindNone
<1>8. CASE Sent(OwlSectors(f), <<>>, Image(Zeros, 2))
  <2>1. \A k \in DOMAIN Image(Zeros, 2) : Good(FALSE, Image(Zeros, 2)[k].save, w, w)
    BY <1>1, BlankFits DEF Good
  <2>2. DOMAIN <<>> = {}
    OBVIOUS
  <2>3. Suits(OwlSectors(f), <<>>, Image(Zeros, 2), w, w)
    BY <1>1, <1>4, <1>5, <1>8, <2>1, <2>2 DEF Suits
  <2>4. QED BY <2>3, KindSent
<1>9. QED BY <1>1, <1>7, <1>8

\* The game goes back to the cycle save.
LEMMA KindMoonCrash ==
  ASSUME Sound, KindInv, GameStep, MoonCrash
  PROVE  KindInv'
<1>1. /\ Sent({}, <<>>, <<>>) /\ phase' = "play" /\ ctx' = Loaded(fileNum)[1].save /\ saves' = saves
      /\ fileNum \in Files /\ fileNum \in Tables
  BY MoonCrashDoes, Map DEF Sound, GameTypes
<1>2. (fileNum \in Files) = TRUE
  BY <1>1
<1>3. Fits(TRUE, ctx', saves, setting.crashesEarly) /\ Old(ctx')
  BY <1>1, <1>2, ReadFits
<1>4. CtxInv'
  <2>1. setting' = setting
    BY <1>1 DEF Sent
  <2>2. QED BY <1>1, <1>3, <2>1 DEF CtxInv, Fits
<1>5. QED BY <1>1, <1>3, <1>4, KindNone

\* Every step keeps the kinds of the saves.
LEMMA KindNext == Sound /\ KindInv /\ [Next]_vars => KindInv'
<1> SUFFICES ASSUME Sound, KindInv, [Next]_vars PROVE KindInv'
  OBVIOUS
<1>1. CASE FlashThread
  BY <1>1, KindFlash
<1>2. CASE PowerCut
  BY <1>2, KindCut
<1>3. CASE (Booting \/ Menu \/ Play \/ SwitchOff) /\ UNCHANGED <<left, setting>>
  <2>1. GameStep
    BY <1>3 DEF GameStep, Sound
  <2>2. CASE Booting \/ SwitchOff
    BY <2>1, <2>2, KindCheckGood, KindQuiet DEF Booting, CheckFile
  <2>3. CASE Menu
    <3>1. PICK f \in Files : InitSave(f) \/ EraseSave(f) \/ OpenSave(f)
                             \/ (\E g \in Files : CopySave(f, g))
                             \/ (\E c \in {0, 1} : SaveChaosConfig(f, c))
      BY <2>3 DEF Menu
    <3>2. QED BY <2>1, <3>1, KindInitSave, KindEraseSave, KindOpenSave, KindCopySave,
                 KindSaveChaosConfig
  <2>4. CASE Play
    BY <2>1, <2>4, KindPlay, KindLeave, KindMoonCrash DEF Play
  <2>5. QED BY <1>3, <2>2, <2>3, <2>4
<1>4. CASE UNCHANGED vars
  <2>1. UNCHANGED <<flash, todo, phase, ctx, saves, setting>>
    BY <1>4 DEF vars, game
  <2>2. CellsInv' /\ CtxInv'
    BY <2>1 DEF KindInv, CellsInv, CtxInv
  <2>3. AllSaves' = AllSaves
    BY <2>1 DEF AllSaves
  <2>4. StampInv'
    BY <2>3 DEF KindInv, StampInv
  <2>5. QED BY <2>2, <2>4 DEF KindInv
<1>5. QED BY <1>1, <1>2, <1>3, <1>4 DEF Next

\* At the start everything is torn.
LEMMA KindInit == Init => KindInv
<1> SUFFICES ASSUME Init PROVE KindInv
  OBVIOUS
<1>1. /\ flash = [u \in Units |-> [save |-> Torn, part |-> 1]] /\ todo = <<>> /\ ctx = Zeros
      /\ phase = "boot" /\ saves = 0 /\ DOMAIN todo = {} /\ saves \in Nat
  BY DEF Init
<1>2. \A p \in Starts, k \in 1..2 : flash[p + k - 1].save = Torn
  BY <1>1, Places
<1>3. CellsInv
  BY <1>1, <1>2, BlankFits DEF CellsInv
<1>4. CtxInv
  BY <1>1 DEF CtxInv, Zeros
<1>5. \A s \in AllSaves : s.stamp \in {-1, 0}
  BY <1>1, <1>2, Blank DEF AllSaves, Zeros
<1>6. StampInv
  BY <1>5 DEF StampInv
<1>7. QED BY <1>3, <1>4, <1>6 DEF KindInv

\* What kind of save is where, always.
LEMMA KindAlways == Spec => []KindInv
BY KindInit, KindNext, SoundAlways, PTL DEF Spec

\* When nothing is left to be written.
LEMMA Settled ==
  ASSUME Sound, todo = <<>>
  PROVE  /\ \A p, k : Will(p, k) = flash[p + k - 1]
         /\ \A i \in Tables : WillMain(i) = Main(i) /\ WillBackup(i) = Backup(i)
<1>1. \A p, k : Will(p, k) = flash[p + k - 1]
  <2>1. DOMAIN todo = {}
    OBVIOUS
  <2>2. QED BY <2>1, WillNot
<1>2. ASSUME NEW i \in Tables
      PROVE  WillMain(i) = Main(i) /\ WillBackup(i) = Backup(i)
  <2>1. WillMain(i) = Main(i)
    BY <1>1 DEF WillMain, Main, ReadData
  <2>2. CASE i \in Files
    <3>1. MainStart(i) + 2 - 1 = MainStart(i) + 1
      BY Map, Sectors
    <3>2. Will(MainStart(i), 2) = flash[MainStart(i) + 1]
      BY <1>1, <3>1
    <3>3. Backup(i) = [k \in 1..1 |-> flash[MainStart(i) + 1]]
      BY <2>2, ReadIs DEF Sound
    <3>4. QED BY <2>1, <2>2, <3>2, <3>3 DEF WillBackup
  <2>3. CASE i \notin Files
    <3>1. Backup(i) = [k \in 1..2 |-> flash[BackupStart(i) + k - 1]]
      BY <2>3, ReadIs DEF Sound
    <3>2. QED BY <1>1, <2>1, <2>3, <3>1 DEF WillBackup
  <2>4. QED BY <2>2, <2>3
<1>3. QED BY <1>1, <1>2

\* The flash thread changes nothing about what will be written.
LEMMA WillFlash ==
  ASSUME Sound, ~GivenUp, FlashThread
  PROVE  /\ \A p \in Starts : Will(p, 1)' = Will(p, 1)
         /\ \A i \in Tables : WillMain(i)' = WillMain(i)
         /\ (\A n \in DOMAIN todo : Len(todo[n].units) = 2) =>
              \A i \in Tables : WillBackup(i)' = WillBackup(i)
<1>1. \A n \in DOMAIN todo : todo[n] \in Requests
  BY TodoIs DEF Sound
<1>2. ASSUME NEW p \in Starts
      PROVE  /\ Will(p, 1)' = Will(p, 1)
             /\ p >= 4 \/ (\A n \in DOMAIN todo : Len(todo[n].units) = 2)
                  => \A k \in 1..2 : Will(p, k)' = Will(p, k)
  <2>1. \A n \in Writes(p) : n \in DOMAIN todo /\ todo[n].start = p
    BY DEF Writes
  <2>2. \A n \in Writes(p) : 1 \in DOMAIN todo[n].units
    BY <1>1, <2>1, RequestIs
  <2>3. PICK k \in 1..2 : k = 1
    OBVIOUS
  <2>4. Will(p, 1)' = Will(p, 1)
    <3>1. \A n \in Writes(p) : k \in DOMAIN todo[n].units
      BY <2>2, <2>3
    <3>2. Will(p, k)' = Will(p, k)
      BY <3>1, WillStays DEF Sound
    <3>3. QED BY <2>3, <3>2
  <2>5. ASSUME p >= 4 \/ (\A n \in DOMAIN todo : Len(todo[n].units) = 2), NEW l \in 1..2
        PROVE  Will(p, l)' = Will(p, l)
    <3>1. ASSUME NEW n \in Writes(p) PROVE l \in DOMAIN todo[n].units
      <4>1. /\ DOMAIN todo[n].units = 1..Len(todo[n].units)
            /\ todo[n].start >= 4 => Len(todo[n].units) = 2
        BY <1>1, <2>1, RequestIs
      <4>2. QED BY <2>1, <2>5, <4>1
    <3>2. QED BY <3>1, WillStays DEF Sound
  <2>6. QED BY <2>4, <2>5
<1>3. ASSUME NEW i \in Tables PROVE WillMain(i)' = WillMain(i)
  <2>1. MainStart(i) \in Starts
    BY Map
  <2>2. CASE i \in Files
    <3>1. Count(i) = 1
      BY <2>2, Map
    <3>2. QED BY <1>2, <2>1, <3>1 DEF WillMain
  <2>3. CASE i \notin Files
    <3>1. Count(i) = 2 /\ MainStart(i) >= 4
      BY <2>3, Map, Below
    <3>2. \A k \in 1..2 : Will(MainStart(i), k)' = Will(MainStart(i), k)
      BY <1>2, <2>1, <3>1
    <3>3. QED BY <3>1, <3>2 DEF WillMain
  <2>4. QED BY <2>2, <2>3
<1>4. ASSUME \A n \in DOMAIN todo : Len(todo[n].units) = 2, NEW i \in Tables
      PROVE  WillBackup(i)' = WillBackup(i)
  <2>1. MainStart(i) \in Starts /\ (i \notin Files => BackupStart(i) \in Starts)
    BY Map
  <2>2. CASE i \in Files
    <3>1. 2 \in 1..2
      OBVIOUS
    <3>2. Will(MainStart(i), 2)' = Will(MainStart(i), 2)
      BY <1>2, <1>4, <2>1, <3>1
    <3>3. QED BY <2>2, <3>2 DEF WillBackup
  <2>3. CASE i \notin Files
    <3>1. \A k \in 1..2 : Will(BackupStart(i), k)' = Will(BackupStart(i), k)
      BY <1>2, <1>4, <2>1, <2>3
    <3>2. QED BY <2>3, <3>1 DEF WillBackup
  <2>4. QED BY <2>2, <2>3
<1>5. QED BY <1>2, <1>3, <1>4

\* What will be in the flash after the game asked for writes.
LEMMA WillSent ==
  ASSUME Sound, NEW S, NEW x, NEW y, Sent(S, x, y), NEW i \in Tables
  PROVE  /\ MainStart(i) \notin S => WillMain(i)' = Main(i)
         /\ i \in Files /\ MainStart(i) \in S => WillMain(i)' = [k \in 1..1 |-> x[k]]
         /\ i \notin Files /\ MainStart(i) \in S => WillMain(i)' = [k \in 1..2 |-> y[k]]
         /\ i \in Files /\ MainStart(i) \notin S => WillBackup(i)' = Backup(i)
         /\ i \in Files /\ MainStart(i) \in S => WillBackup(i)' = [k \in 1..1 |-> x[2]]
         /\ i \notin Files /\ BackupStart(i) \notin S => WillBackup(i)' = Backup(i)
         /\ i \notin Files /\ BackupStart(i) \in S => WillBackup(i)' = [k \in 1..2 |-> y[k]]
<1>1. \A p \in Starts : \A k :
        Will(p, k)' = IF p \notin S THEN flash[p + k - 1]
                      ELSE IF p < 4 THEN x[k] ELSE y[k]
  BY DEF Sent
<1>2. /\ MainStart(i) \in Starts /\ MainStart(i) \in Nat
      /\ WillMain(i)' = [k \in 1..Count(i) |-> Will(MainStart(i), k)']
  BY Map, Sectors DEF WillMain
<1>3. MainStart(i) \notin S => WillMain(i)' = Main(i)
  BY <1>1, <1>2 DEF Main, ReadData
<1>4. CASE i \in Files
  <2>1. Count(i) = 1 /\ MainStart(i) < 4
    BY <1>4, Map, Below
  <2>2. MainStart(i) \in S => WillMain(i)' = [k \in 1..1 |-> x[k]]
    BY <1>1, <1>2, <2>1
  <2>3. WillBackup(i)' = [k \in 1..1 |-> Will(MainStart(i), 2)']
    BY <1>4 DEF WillBackup
  <2>4. MainStart(i) \in S => WillBackup(i)' = [k \in 1..1 |-> x[2]]
    BY <1>1, <1>2, <2>1, <2>3
  <2>5. MainStart(i) \notin S => WillBackup(i)' = Backup(i)
    <3>1. MainStart(i) + 2 - 1 = MainStart(i) + 1
      BY <1>2
    <3>2. Backup(i) = [k \in 1..1 |-> flash[MainStart(i) + 1]]
      BY <1>4, ReadIs DEF Sound
    <3>3. QED BY <1>1, <1>2, <2>3, <3>1, <3>2
  <2>6. QED BY <1>3, <1>4, <2>2, <2>4, <2>5
<1>5. CASE i \notin Files
  <2>1. /\ Count(i) = 2 /\ MainStart(i) >= 4 /\ BackupStart(i) >= 4 /\ BackupStart(i) \in Starts
        /\ BackupStart(i) \in Nat
    BY <1>5, Map, Below, Sectors
  <2>2. ~(MainStart(i) < 4) /\ ~(BackupStart(i) < 4)
    BY <1>2, <2>1
  <2>3. MainStart(i) \in S => WillMain(i)' = [k \in 1..2 |-> y[k]]
    BY <1>1, <1>2, <2>1, <2>2
  <2>4. WillBackup(i)' = [k \in 1..2 |-> Will(BackupStart(i), k)']
    BY <1>5 DEF WillBackup
  <2>5. BackupStart(i) \in S => WillBackup(i)' = [k \in 1..2 |-> y[k]]
    BY <1>1, <2>1, <2>2, <2>4
  <2>6. BackupStart(i) \notin S => WillBackup(i)' = Backup(i)
    <3>1. Backup(i) = [k \in 1..2 |-> flash[BackupStart(i) + k - 1]]
      BY <1>5, ReadIs DEF Sound
    <3>2. QED BY <1>1, <2>1, <2>4, <3>1
  <2>7. QED BY <1>3, <1>5, <2>3, <2>5, <2>6
<1>6. QED BY <1>4, <1>5

\* No two saves share a sector, except a cycle save and its backup.
LEMMA Apart ==
  /\ \A i \in Tables, j \in Tables : i # j => MainStart(i) # MainStart(j)
  /\ \A i \in Tables, j \in Tables : j \notin Files => MainStart(i) # BackupStart(j)
  /\ \A i \in Tables, j \in Tables :
       i \notin Files /\ j \notin Files /\ i # j => BackupStart(i) # BackupStart(j)
<1>1. /\ MainStart(0) = 0 /\ MainStart(1) = 2 /\ MainStart(2) = 4 /\ MainStart(3) = 8
      /\ BackupStart(2) = 6 /\ BackupStart(3) = 10
  BY DEF MainStart, BackupStart
<1>2. \A i \in Tables : i \in {0, 1, 2, 3} /\ (i \notin Files => i \in {2, 3})
  BY DEF Tables, Files
<1>3. QED BY <1>1, <1>2

\* A backup is written again.
LEMMA TwiceMain ==
  ASSUME Sound, NEW g \in Files
  PROVE  LET x == Main(g) \o Main(g) IN
         /\ x \in Seq(Cells) /\ Len(x) = 2 /\ x[1] = Main(g)[1] /\ x[2] = Main(g)[1]
         /\ Main(g) = [k \in 1..1 |-> Main(g)[1]] /\ Main(g)[1] \in Cells
<1> DEFINE m == Main(g)
<1>1. m \in [1..1 -> Cells] /\ m \in Seq(Cells) /\ Len(m) = 1
  BY ReadIs, Map DEF Sound
<1> HIDE DEF m
<1>2. /\ m \o m \in Seq(Cells) /\ Len(m \o m) = Len(m) + Len(m)
      /\ \A k \in 1..Len(m) + Len(m) : (m \o m)[k] = IF k <= Len(m) THEN m[k] ELSE m[k - Len(m)]
  BY ONLY <1>1, ConcatProperties
<1>3. Len(m \o m) = 2 /\ (m \o m)[1] = m[1] /\ (m \o m)[2] = m[1]
  BY <1>1, <1>2
<1>4. m = [k \in 1..1 |-> m[1]] /\ m[1] \in Cells
  BY <1>1
<1>5. QED BY <1>2, <1>3, <1>4 DEF m

\* The backup of a cycle save is written again, with the save itself.
LEMMA RepairedCycle ==
  ASSUME Sound, NEW g \in Files, Sent({MainStart(g)}, Main(g) \o Main(g), <<>>)
  PROVE  /\ \A n \in DOMAIN todo' : Len(todo'[n].units) = 2
         /\ \A i \in Tables : /\ WillMain(i)' = Main(i)
                              /\ WillBackup(i)' = IF i = g THEN Main(i) ELSE Backup(i)
<1> DEFINE x == Main(g) \o Main(g)
<1>1. /\ Len(x) = 2 /\ x[1] = Main(g)[1] /\ x[2] = Main(g)[1]
      /\ Main(g) = [k \in 1..1 |-> Main(g)[1]]
  BY TwiceMain
<1>2. Sent({MainStart(g)}, x, <<>>) /\ g \in Tables /\ MainStart(g) < 4
  BY Map, Below
<1> HIDE DEF x
<1>3. ASSUME NEW n \in DOMAIN todo' PROVE Len(todo'[n].units) = 2
  <2>1. todo'[n].start = MainStart(g)
    BY <1>2, AsksOnly
  <2>2. todo'[n].units = x
    BY <1>2, <2>1, SentWhere
  <2>3. QED BY <1>1, <2>2
<1>4. WillMain(g)' = Main(g) /\ WillBackup(g)' = Main(g)
  <2>1. MainStart(g) \in {MainStart(g)}
    OBVIOUS
  <2>2. WillMain(g)' = [k \in 1..1 |-> x[k]] /\ WillBackup(g)' = [k \in 1..1 |-> x[2]]
    BY <1>2, <2>1, WillSent
  <2>3. [k \in 1..1 |-> x[k]] = [k \in 1..1 |-> x[1]]
    OBVIOUS
  <2>4. QED BY <1>1, <2>2, <2>3
<1>5. ASSUME NEW i \in Tables, i # g
      PROVE  WillMain(i)' = Main(i) /\ WillBackup(i)' = Backup(i)
  <2>1. MainStart(i) \notin {MainStart(g)} /\ (i \notin Files => BackupStart(i) \notin {MainStart(g)})
    BY <1>2, <1>5, Apart
  <2>2. QED BY <1>2, <2>1, WillSent
<1>6. QED BY <1>3, <1>4, <1>5

\* The backup of an owl save is written again.
LEMMA RepairedOwl ==
  ASSUME Sound, NEW g \in Tables, g \notin Files, Sent({BackupStart(g)}, <<>>, Main(g))
  PROVE  /\ \A n \in DOMAIN todo' : Len(todo'[n].units) = 2
         /\ \A i \in Tables : /\ WillMain(i)' = Main(i)
                              /\ WillBackup(i)' = IF i = g THEN Main(i) ELSE Backup(i)
<1> DEFINE y == Main(g)
<1>1. /\ Len(y) = 2 /\ y = [k \in 1..2 |-> y[k]]
  <2>1. Main(g) \in [1..2 -> Cells] /\ Len(Main(g)) = 2
    BY ReadIs, Map DEF Sound
  <2>2. QED BY <2>1
<1>2. Sent({BackupStart(g)}, <<>>, y)
  OBVIOUS
<1> HIDE DEF y
<1>3. ASSUME NEW n \in DOMAIN todo' PROVE Len(todo'[n].units) = 2
  <2>1. PICK f \in Files : g = Owl(f)
    BY Map
  <2>2. BackupStart(g) >= 4 /\ BackupStart(g) \in Nat
    BY <2>1, Below, Sectors
  <2>3. ~(BackupStart(g) < 4) /\ todo'[n].start = BackupStart(g)
    BY <1>2, <2>2, AsksOnly
  <2>4. todo'[n].units = y
    BY <1>2, <2>3, SentWhere
  <2>5. QED BY <1>1, <2>4
<1>4. WillMain(g)' = Main(g) /\ WillBackup(g)' = Main(g)
  <2>1. BackupStart(g) \in {BackupStart(g)} /\ MainStart(g) \notin {BackupStart(g)}
    BY Apart
  <2>2. WillMain(g)' = Main(g) /\ WillBackup(g)' = [k \in 1..2 |-> y[k]]
    BY <1>2, <2>1, WillSent
  <2>3. QED BY <1>1, <2>2 DEF y
<1>5. ASSUME NEW i \in Tables, i # g
      PROVE  WillMain(i)' = Main(i) /\ WillBackup(i)' = Backup(i)
  <2>1. /\ MainStart(i) \notin {BackupStart(g)}
        /\ (i \notin Files => BackupStart(i) \notin {BackupStart(g)})
    BY <1>5, Apart
  <2>2. QED BY <1>2, <2>1, WillSent
<1>6. QED BY <1>3, <1>4, <1>5

\* What the checks of the start do with a good save.
LEMMA Repaired ==
  ASSUME Sound, GameStep, CheckFile, CheckGood
  PROVE  /\ \A n \in DOMAIN todo' : Len(todo'[n].units) = 2
         /\ \A i \in Tables : /\ WillMain(i)' = Main(i)
                              /\ WillBackup(i)' = IF i = file THEN Main(i) ELSE Backup(i)
<1>1. /\ \/ Sent({}, <<>>, <<>>) /\ Backup(file) = Main(file)
         \/ file \in Files /\ Sent({MainStart(file)}, Main(file) \o Main(file), <<>>)
         \/ file \notin Files /\ Sent({BackupStart(file)}, <<>>, Main(file))
      /\ file \in Tables
  BY CheckGoodDoes
<1>2. CASE Sent({}, <<>>, <<>>) /\ Backup(file) = Main(file)
  <2>1. \A n \in DOMAIN todo' : Len(todo'[n].units) = 2
    BY <1>2, AsksOnly
  <2>2. \A i \in Tables : WillMain(i)' = Main(i) /\ WillBackup(i)' = Backup(i)
    BY <1>2, WillSent
  <2>3. QED BY <1>2, <2>1, <2>2
<1>3. CASE file \in Files /\ Sent({MainStart(file)}, Main(file) \o Main(file), <<>>)
  BY <1>3, RepairedCycle
<1>4. CASE file \notin Files /\ Sent({BackupStart(file)}, <<>>, Main(file))
  BY <1>1, <1>4, RepairedOwl
<1>5. QED BY <1>1, <1>2, <1>3, <1>4

\* Every step keeps what the checks have found out so far.
LEMMA BackupNext == Sound /\ BackupInv /\ [Next]_vars /\ [~GivenUp]_vars => BackupInv'
<1> SUFFICES ASSUME Sound, BackupInv, [Next]_vars, [~GivenUp]_vars, (phase = "boot")'
             PROVE  /\ \A n \in DOMAIN todo' : Len(todo'[n].units) = 2
                    /\ \A i \in Tables : i < file' =>
                         \/ Valid(i, WillMain(i)') /\ WillBackup(i)' = WillMain(i)'
                         \/ ~Valid(i, WillMain(i)') /\ ~Valid(i, WillBackup(i)')
  BY DEF BackupInv, Valid, HasNewf
<1> USE DEF BackupInv
<1>1. CASE FlashThread
  <2>1. phase = "boot" /\ file' = file /\ todo' \in {todo, Tail(todo)} /\ todo # <<>>
    BY <1>1, FlashCells DEF FlashThread, game, Sound
  <2>2. \A n \in DOMAIN todo : Len(todo[n].units) = 2
    BY <2>1
  <2>3. \A n \in DOMAIN todo' : Len(todo'[n].units) = 2
    <3>1. CASE todo' = Tail(todo)
      BY <2>1, <2>2, <3>1, Rest DEF Sound
    <3>2. QED BY <2>1, <2>2, <3>1
  <2>4. \A i \in Tables : WillMain(i)' = WillMain(i) /\ WillBackup(i)' = WillBackup(i)
    BY <1>1, <2>2, WillFlash, NotOnStuttering DEF Sound
  <2>5. QED BY <2>1, <2>3, <2>4
<1>2. CASE file' = 0 /\ todo' = <<>>
  BY <1>2 DEF Tables
<1>3. CASE (Booting \/ Menu \/ Play \/ SwitchOff) /\ UNCHANGED <<left, setting>>
  <2>1. GameStep
    BY <1>3 DEF GameStep, Sound
  <2>2. CASE SwitchOff
    BY <1>2, <2>2 DEF SwitchOff, Boot, Flash
  <2>3. CASE CheckFile /\ CheckGood
    <3>1. /\ file \in Tables /\ file' = file + 1 /\ phase = "boot" /\ todo = <<>>
          /\ Valid(file, Main(file))
      BY <2>1, <2>3, CheckGoodDoes DEF CheckGood, Flash
    <3>2. \A i \in Tables : i < file =>
            \/ Valid(i, Main(i)) /\ Backup(i) = Main(i)
            \/ ~Valid(i, Main(i)) /\ ~Valid(i, Backup(i))
      BY <3>1, Settled
    <3>3. \A i \in Tables : i < file' => i < file \/ i = file
      BY <3>1 DEF Tables
    <3>4. /\ \A n \in DOMAIN todo' : Len(todo'[n].units) = 2
          /\ \A i \in Tables : /\ WillMain(i)' = Main(i)
                               /\ WillBackup(i)' = IF i = file THEN Main(i) ELSE Backup(i)
      BY <2>1, <2>3, Repaired
    <3>5. ASSUME NEW i \in Tables, i < file'
          PROVE  \/ Valid(i, Main(i)) /\ WillBackup(i)' = Main(i)
                 \/ ~Valid(i, Main(i)) /\ ~Valid(i, WillBackup(i)')
      <4>1. CASE i = file
        BY <3>1, <3>4, <4>1
      <4>2. CASE i # file
        BY <3>2, <3>3, <3>4, <3>5, <4>2
      <4>3. QED BY <4>1, <4>2
    <3>6. QED BY <3>4, <3>5
  <2>4. CASE CheckFile /\ (CheckEmpty \/ CheckBackup)
    <3>1. /\ Sent({}, <<>>, <<>>) /\ file \in Tables /\ phase = "boot" /\ ~Valid(file, Main(file))
          /\ file' = file + 1 /\ ~Valid(file, Backup(file))
      BY <2>1, <2>4, CheckBadDoes
    <3>2. todo = <<>>
      BY <3>1 DEF Sent
    <3>3. \A i \in Tables : i < file =>
            \/ Valid(i, Main(i)) /\ Backup(i) = Main(i)
            \/ ~Valid(i, Main(i)) /\ ~Valid(i, Backup(i))
      BY <3>1, <3>2, Settled
    <3>4. \A i \in Tables : i < file' => i < file \/ i = file
      BY <3>1 DEF Tables
    <3>5. \A n \in DOMAIN todo' : Len(todo'[n].units) = 2
      BY <3>1, AsksOnly
    <3>6. \A i \in Tables : WillMain(i)' = Main(i) /\ WillBackup(i)' = Backup(i)
      BY <3>1, WillSent
    <3>7. QED BY <3>1, <3>3, <3>4, <3>5, <3>6
  <2>5. ~FilesChecked /\ ~Menu /\ ~Play
    BY DEF FilesChecked, Menu, InitSave, EraseSave, OpenSave, CopySave, SaveChaosConfig, Play,
           NewCycle, NewDay, EnterClockTown, OwlSave, Crash, MoonCrash
  <2>6. QED BY <1>3, <2>2, <2>3, <2>4, <2>5 DEF Booting, CheckFile
<1>4. CASE UNCHANGED vars
  <2>1. phase = "boot" /\ file' = file /\ todo' = todo /\ flash' = flash
    BY <1>4 DEF vars, game
  <2>2. \A i \in Tables : WillMain(i)' = WillMain(i) /\ WillBackup(i)' = WillBackup(i)
    BY <2>1 DEF WillMain, WillBackup, Will, Writes
  <2>3. QED BY <2>1, <2>2
<1>5. CASE PowerCut
  BY <1>2, <1>5 DEF PowerCut, Boot
<1>6. QED BY <1>1, <1>3, <1>4, <1>5 DEF Next

\* After the checks every save equals its backup, or both are gone, if no write is given up
\* (CopiesAgree).
THEOREM CopiesAlwaysAgree == Spec /\ NeverGivesUp => []CopiesAgree
<1>1. Init => BackupInv
  BY DEF Init, BackupInv, Tables
<1>2. Sound /\ BackupInv => CopiesAgree
  <2> SUFFICES ASSUME Sound, BackupInv, phase = "boot", file = 4, todo = <<>>, NEW i \in Tables
               PROVE  \/ Valid(i, Main(i)) /\ Backup(i) = Main(i)
                      \/ ~Valid(i, Main(i)) /\ ~Valid(i, Backup(i))
    BY DEF CopiesAgree
  <2>1. i < file
    BY DEF Tables
  <2>2. QED BY <2>1, Settled DEF BackupInv
<1>3. QED BY <1>1, <1>2, SoundAlways, BackupNext, PTL DEF Spec, NeverGivesUp

\* The same after a step.
LEMMA AmongNext ==
  (/\ \A p \in Starts, k \in 1..2 : flash[p + k - 1].save \in AllSaves
   /\ ctx \in AllSaves)'
<1>1. /\ \A p \in Starts, k \in 1..2 : flash[p + k - 1].save \in AllSaves
      /\ ctx \in AllSaves
  BY Among
<1>2. QED BY <1>1, PTL

\* Nothing spent is left when the owl save was not written, or invalidated, and the game that
\* is played is no owl save: then a save with its stamp is a crash save as well.
LEMMA SpentIf ==
  ASSUME Sound, Sound', KindInv', setting' = setting, NEW f \in Files, fileNum' = f,
         ctx'.whole => ctx'.crash,
         \A p \in OwlSectors(f) : \/ Will(p, 1)' = flash'[p]
                                  \/ Will(p, 1)'.save = Zeros
  PROVE  SpentInv'
<1> SUFFICES ASSUME NEW p \in OwlSectors(f), Will(p, 1)'.save.stamp > 0,
                    Will(p, 1)'.save.stamp = ctx'.stamp
             PROVE  Will(p, 1)'.save.crash
  BY DEF SpentInv, OwlSectors
<1>1. p \in Starts /\ p >= 4
  BY Below
<1>2. CASE Will(p, 1)'.save = Zeros
  BY <1>2 DEF Zeros
<1>3. CASE Will(p, 1)' = flash'[p]
  <2>1. PICK k \in 1..2 : k = 1
    OBVIOUS
  <2>2. p \in Nat /\ p + k - 1 = p /\ (p < 4) = FALSE
    BY <1>1, <2>1, Sectors
  <2>3. Fits(p < 4, flash'[p + k - 1].save, saves', setting'.crashesEarly)
    BY <1>1 DEF KindInv, CellsInv
  <2>4. Fits(FALSE, flash'[p].save, saves', setting'.crashesEarly)
    BY <2>2, <2>3
  <2>5. flash'[p].save.whole
    BY <1>3, <2>4 DEF Fits
  <2>6. flash'[p + k - 1].save \in AllSaves' /\ ctx' \in AllSaves'
    BY <1>1, AmongNext
  <2>7. flash'[p].save.whole = ctx'.whole /\ flash'[p].save.crash = ctx'.crash
    BY <1>3, <2>2, <2>6 DEF KindInv, StampInv
  <2>8. QED BY <1>3, <2>5, <2>7
<1>4. QED BY <1>2, <1>3

\* What is in the first unit of the owl sectors after a step of the game.
LEMMA SentOwl ==
  ASSUME Sound, NEW S, NEW x, NEW y, Sent(S, x, y), NEW f \in Files
  PROVE  \A p \in OwlSectors(f) : Will(p, 1)' = IF p \in S THEN y[1] ELSE flash'[p]
<1> SUFFICES ASSUME NEW p \in OwlSectors(f)
             PROVE  Will(p, 1)' = IF p \in S THEN y[1] ELSE flash'[p]
  OBVIOUS
<1>1. p \in Starts /\ p >= 4 /\ p \in Nat
  BY Below, Sectors
<1>2. ~(p < 4) /\ p + 1 - 1 = p
  BY <1>1
<1>3. \A k : Will(p, k)' = IF p \notin S THEN flash[p + k - 1] ELSE IF p < 4 THEN x[k] ELSE y[k]
  BY <1>1 DEF Sent
<1>4. Will(p, 1)' = IF p \notin S THEN flash[p + 1 - 1] ELSE IF p < 4 THEN x[1] ELSE y[1]
  BY <1>3
<1>5. flash' = flash
  BY DEF Sent
<1>6. QED BY <1>2, <1>4, <1>5

\* A sector is torn when it has been erased.
ErasedInv == todo # <<>> /\ attempt.unit = 1 => flash[Request.start].save = Torn

\* Where a write begins.
LEMMA FirstUnit ==
  ASSUME FlashTypes, todo # <<>>
  PROVE  /\ Request.start \in Units /\ Request.start + 1 - 1 = Request.start
         /\ Request.start \in Sector(Request.start) /\ Len(Request.units) \in 1..2
         /\ DOMAIN flash = Units
<1>1. Request.start \in Starts /\ Len(Request.units) \in 1..2
  BY TodoIs, RequestIs
<1>2. Request.start \in Nat /\ Sector(Request.start) = {Request.start, Request.start + 1}
      /\ Request.start \in Units
  BY <1>1, Sectors
<1>3. QED BY <1>1, <1>2 DEF FlashTypes

\* Every step keeps it.
LEMMA ErasedNext == Sound /\ ErasedInv /\ [Next]_vars => ErasedInv'
<1> SUFFICES ASSUME Sound, ErasedInv, [Next]_vars, (todo # <<>> /\ attempt.unit = 1)'
             PROVE  (flash[Request.start].save = Torn)'
  BY DEF ErasedInv
<1>1. CASE FlashThread
  <2>1. todo # <<>> /\ attempt \in [unit : 0..2, tries : 0..MaxRetries]
    BY <1>1, FlashCells DEF Sound, FlashTypes
  <2>2. ~Unchanged /\ ~DeviceError
    BY <2>1 DEF Unchanged, DeviceError, WriteOver, Start
  <2>3. ~WritePages
    BY <2>1 DEF WritePages, WriteOver, Start
  <2>4. flash' = TornAt(Sector(Request.start)) /\ todo' = todo
    BY <1>1, <2>2, <2>3 DEF FlashThread, EraseSector
  <2>5. QED BY <2>1, <2>4, FirstUnit DEF TornAt, Sound, Request
<1>2. CASE PowerCut
  BY <1>2 DEF PowerCut
<1>3. CASE (Booting \/ Menu \/ Play \/ SwitchOff) /\ UNCHANGED <<left, setting>>
  <2>1. todo = <<>> /\ attempt' = attempt
    <3>1. \E writes : Flash(writes)
      BY <1>3 DEF Booting, Menu, Play, SwitchOff, CheckFile, CheckGood, CheckEmpty, CheckBackup,
           FilesChecked, InitSave, EraseSave, CopySave, OpenSave, SaveChaosConfig, NewCycle, NewDay,
           EnterClockTown, OwlSave, Crash, MoonCrash
    <3>2. QED BY <3>1 DEF Flash
  <2>2. QED BY <2>1 DEF Sound, FlashTypes, Start
<1>4. CASE UNCHANGED vars
  BY <1>4 DEF vars, ErasedInv, Request
<1>5. QED BY <1>1, <1>2, <1>3, <1>4 DEF Next

\* The first unit of what was written is there, or torn if the write was given up.
LEMMA WillOrTorn ==
  ASSUME Sound, ErasedInv, FlashThread, NEW p \in Starts
  PROVE  Will(p, 1)' = Will(p, 1) \/ Will(p, 1)'.save = Torn
<1>1. PICK k \in 1..2 : k = 1
  OBVIOUS
<1>2. Will(p, k)' = Will(p, k) \/ (todo' = Tail(todo) /\ p = Request.start)
  BY WillApart DEF Sound
<1>3. CASE todo' = Tail(todo) /\ p = Request.start
  <2>1. todo # <<>>
    BY FlashCells DEF Sound
  <2>2. 1 \in DOMAIN todo /\ Request = todo[1] /\ 1 \in DOMAIN Request.units
    BY <2>1, TodoIs, RequestIs DEF Sound, Request
  <2>3. Will(p, 1) = Request.units[1]
    BY <1>3, <2>2, WillAt DEF Sound
  <2>4. \A n \in DOMAIN todo' : todo'[n].start # p
    BY <2>1, <1>3, Rest DEF Sound
  <2>5. Will(p, 1)' = flash'[p + 1 - 1]
    BY <2>4 DEF Will, Writes
  <2>6. p + 1 - 1 = p /\ p \in Units /\ p \in Sector(Request.start)
    BY <1>3, <2>1, FirstUnit DEF Sound
  <2>7. CASE ~DeviceError
    <3>1. \A j \in DOMAIN Request.units : flash'[Request.start + j - 1] = Request.units[j]
      BY <1>3, <2>7, Written DEF Sound
    <3>2. flash'[p + 1 - 1] = Request.units[1]
      BY <1>3, <2>2, <3>1
    <3>3. QED BY <2>3, <2>5, <3>2
  <2>8. CASE DeviceError /\ attempt.unit = 0
    <3>1. flash' = TornAt(Sector(Request.start))
      BY <2>8 DEF DeviceError
    <3>2. flash'[p].save = Torn
      BY <2>6, <3>1 DEF TornAt
    <3>3. QED BY <2>5, <2>6, <3>2
  <2>9. CASE DeviceError /\ attempt.unit = 1
    <3>1. flash' = flash /\ flash[p].save = Torn
      BY <1>3, <2>1, <2>9 DEF DeviceError, ErasedInv
    <3>2. QED BY <2>5, <2>6, <3>1
  <2>10. CASE DeviceError /\ attempt.unit = 2
    <3>1. flash' = flash /\ 1 \in 1..attempt.unit - 1
      BY <2>10 DEF DeviceError
    <3>2. flash[Request.start + 1 - 1] = Request.units[1]
      BY <2>1, <3>1 DEF Sound, AttemptInv
    <3>3. QED BY <1>3, <2>3, <2>5, <3>1, <3>2
  <2>11. attempt.unit \in 0..2
    BY DEF Sound, FlashTypes
  <2>12. QED BY <2>7, <2>8, <2>9, <2>10, <2>11
<1>4. QED BY <1>1, <1>2, <1>3

\* Every step keeps that the owl save that is played is not to be loaded again.
LEMMA SpentNext == Sound /\ ErasedInv /\ KindInv /\ SpentInv /\ [Next]_vars => SpentInv'
<1> SUFFICES ASSUME Sound, ErasedInv, KindInv, SpentInv, [Next]_vars, phase' = "play"
             PROVE  SpentInv'
  BY DEF SpentInv
<1>0. Sound' /\ KindInv' /\ fileNum \in Files
  BY SoundNext, KindNext DEF Sound, GameTypes
<1>1. CASE FlashThread
  <2>1. phase = "play" /\ fileNum' = fileNum /\ ctx' = ctx
    BY <1>1 DEF FlashThread, game
  <2>2. \A p \in OwlSectors(fileNum) : Will(p, 1)' = Will(p, 1) \/ Will(p, 1)'.save = Torn
    <3>1. OwlSectors(fileNum) \subseteq Starts
      BY <1>0, Below
    <3>2. QED BY <1>1, <3>1, WillOrTorn
  <2>3. Torn.stamp = -1
    BY Blank
  <2>4. QED BY <2>1, <2>2, <2>3 DEF SpentInv, OwlSectors
<1>2. CASE PowerCut
  BY <1>2 DEF PowerCut, Boot
<1>3. CASE (Booting \/ Menu \/ Play \/ SwitchOff) /\ UNCHANGED <<left, setting>>
  <2>1. GameStep /\ setting' = setting
    BY <1>3 DEF GameStep, Sound
  <2>2. ~Booting /\ ~SwitchOff
    BY <2>1, CheckGoodDoes, CheckBadDoes DEF Booting, CheckFile, FilesChecked, SwitchOff, Boot
  <2>3. Image(Zeros, 2)[1].save = Zeros
    <3>1. saves \in Nat /\ 1 \in DOMAIN Image(Zeros, 2)
      BY DEF Sound, GameTypes, Image
    <3>2. QED BY <3>1, BlankFits
  <2>4. CASE Menu
    <3>1. PICK f \in Files : InitSave(f) \/ EraseSave(f) \/ OpenSave(f)
                             \/ (\E g \in Files : CopySave(f, g))
                             \/ (\E c \in {0, 1} : SaveChaosConfig(f, c))
      BY <2>4 DEF Menu
    <3>2. OpenSave(f)
      BY <3>1 DEF InitSave, EraseSave, CopySave, SaveChaosConfig
    <3> DEFINE s == Loaded(Opened(f))[1].save
    <3>3. /\ \/ Sent(OwlSectors(f), <<>>, Image(Zeros, 2))
             \/ ~(s.owl /\ ~s.crash) /\ Sent({}, <<>>, <<>>)
          /\ fileNum' = f /\ s \in SaveRecs /\ ctx' = [s EXCEPT !.owl = FALSE] /\ Opened(f) \in Tables
      BY <2>1, <3>2, OpenSaveDoes
    <3>4. Fits(Opened(f) \in Files, s, saves, setting.crashesEarly)
      BY <3>3, ReadFits
    <3> HIDE DEF s
    <3>5. CASE Sent(OwlSectors(f), <<>>, Image(Zeros, 2))
      <4>1. \A p \in OwlSectors(f) : Will(p, 1)'.save = Zeros
        BY <2>3, <3>5, SentOwl
      <4>2. QED BY <3>3, <4>1 DEF SpentInv, OwlSectors, Zeros
    <3>6. CASE ~(s.owl /\ ~s.crash) /\ Sent({}, <<>>, <<>>)
      <4>1. ctx'.whole = s.whole /\ ctx'.crash = s.crash
        BY <3>3 DEF SaveRecs
      <4>2. ctx'.whole => ctx'.crash
        BY <3>4, <3>6, <4>1 DEF Fits
      <4>3. \A p \in OwlSectors(f) : Will(p, 1)' = flash'[p]
        BY <3>6, SentOwl
      <4>4. QED BY <1>0, <2>1, <3>3, <4>2, <4>3, SpentIf
    <3>7. QED BY <3>3, <3>5, <3>6
  <2>5. CASE NewCycle
    <3>1. Sent(OwlSectors(fileNum) \cup {MainStart(fileNum)}, Buffer(ctx'), Image(Zeros, 2))
          /\ fileNum' = fileNum
      BY <2>1, <2>5, NewCycleDoes
    <3>2. \A p \in OwlSectors(fileNum) : Will(p, 1)'.save = Zeros
      BY <1>0, <2>3, <3>1, SentOwl
    <3>3. QED BY <3>1, <3>2 DEF SpentInv, OwlSectors, Zeros
  <2>6. CASE NewDay
    <3>1. PICK x : Sent(OwlSectors(fileNum) \cup {MainStart(fileNum)}, x, Image(Zeros, 2))
      BY <2>1, <2>6, NewDayDoes
    <3>2. \A p \in OwlSectors(fileNum) : Will(p, 1)'.save = Zeros
      BY <1>0, <2>3, <3>1, SentOwl
    <3>3. fileNum' = fileNum
      BY <2>1, <2>6, NewDayDoes
    <3>4. QED BY <3>2, <3>3 DEF SpentInv, OwlSectors, Zeros
  <2>7. CASE EnterClockTown
    <3>1. /\ Sent({MainStart(fileNum)}, Twice(ctx'), <<>>) /\ fileNum' = fileNum
          /\ ctx'.whole = FALSE
      BY <2>1, <2>7, EnterClockTownDoes DEF Creates
    <3>2. \A p \in OwlSectors(fileNum) : Will(p, 1)' = flash'[p]
      BY <1>0, <3>1, SentOwl, Below
    <3>3. QED BY <1>0, <2>1, <3>1, <3>2, SpentIf
  <2>8. CASE MoonCrash
    <3>1. Sent({}, <<>>, <<>>) /\ fileNum' = fileNum /\ ctx' = Loaded(fileNum)[1].save
      BY <2>1, <2>8, MoonCrashDoes
    <3>2. fileNum \in Tables /\ (fileNum \in Files) = TRUE
      BY <1>0, Map
    <3>3. ~ctx'.whole
      BY <3>1, <3>2, ReadFits DEF Fits
    <3>4. \A p \in OwlSectors(fileNum) : Will(p, 1)' = flash'[p]
      BY <1>0, <3>1, SentOwl
    <3>5. QED BY <1>0, <2>1, <3>1, <3>3, <3>4, SpentIf
  <2>9. ~OwlSave /\ ~Crash
    BY DEF OwlSave, Crash
  <2>10. QED BY <1>3, <2>2, <2>4, <2>5, <2>6, <2>7, <2>8, <2>9 DEF Play
<1>4. CASE UNCHANGED vars
  <2>1. phase = "play" /\ fileNum' = fileNum /\ ctx' = ctx /\ todo' = todo /\ flash' = flash
    BY <1>4 DEF vars, game
  <2>2. \A p : Will(p, 1)' = Will(p, 1)
    BY <2>1 DEF Will, Writes
  <2>3. QED BY <2>1, <2>2 DEF SpentInv
<1>5. QED BY <1>1, <1>2, <1>3, <1>4 DEF Next

\* While an owl save is played no copy of it is left to be loaded, whatever the device does
\* (OwlIsSpent).
THEOREM OwlIsAlwaysSpent == Spec => []OwlIsSpent
<1>1. Init => SpentInv /\ ErasedInv
  BY DEF Init, SpentInv, ErasedInv
<1>2. Sound /\ SpentInv => OwlIsSpent
  <2> SUFFICES ASSUME Sound, SpentInv, phase = "play", todo = <<>>,
                      NEW units \in {Main(Owl(fileNum)), Backup(Owl(fileNum))},
                      Valid(Owl(fileNum), units), ~units[1].save.crash
               PROVE  units[1].save.stamp # ctx.stamp
    BY DEF OwlIsSpent
  <2>1. fileNum \in Files /\ Owl(fileNum) \in Tables /\ Owl(fileNum) \notin Files
    BY Map DEF Sound, GameTypes
  <2>2. \A p, k : Will(p, k) = flash[p + k - 1]
    BY Settled
  <2>3. /\ Main(Owl(fileNum))[1] = flash[MainStart(Owl(fileNum))]
        /\ Backup(Owl(fileNum))[1] = flash[BackupStart(Owl(fileNum))]
    BY <2>1, LoadedIs DEF Sound
  <2>4. PICK p \in {MainStart(Owl(fileNum)), BackupStart(Owl(fileNum))} : units[1] = flash[p]
    BY <2>3
  <2>5. p \in Nat /\ p + 1 - 1 = p
    BY <2>1, <2>4, Below, Sectors
  <2>6. Will(p, 1) = units[1]
    BY <2>2, <2>4, <2>5
  <2>7. units[1].save.stamp > 0
    BY DEF Valid, HasNewf
  <2>8. QED BY <2>4, <2>6, <2>7 DEF SpentInv
<1>3. QED BY <1>1, <1>2, SoundAlways, KindAlways, SpentNext, ErasedNext, PTL DEF Spec

\* When a cycle save is good, and an owl save.
LEMMA GoodCycle ==
  ASSUME NEW f \in Files, NEW u \in [1..1 -> Cells]
  PROVE  Valid(f, u) <=> u[1].save.stamp > 0 /\ u[1].part = 1 /\ ~u[1].save.whole
                        /\ u[1].save.sum
<1>1. Count(f) = 1 /\ f \in Files
  BY Map
<1>2. u[1] \in Cells /\ u[1].save.whole \in BOOLEAN
  BY DEF Cells, SaveRecs
<1>3. Image(u[1].save, 1) = [k \in 1..1 |-> [save |-> u[1].save, part |-> 1]]
  BY DEF Image
<1>4. u = Image(u[1].save, 1) <=> u[1] = [save |-> u[1].save, part |-> 1]
  BY <1>3
<1>5. u[1] = [save |-> u[1].save, part |-> 1] <=> u[1].part = 1
  BY <1>2 DEF Cells
<1>6. QED BY <1>1, <1>2, <1>4, <1>5 DEF Valid, HasNewf

\* When an owl save is good.
LEMMA GoodOwl ==
  ASSUME NEW f \in Files, NEW u \in [1..2 -> Cells]
  PROVE  Valid(Owl(f), u) <=> /\ u[1].save.stamp > 0 /\ u[1].part = 1 /\ u[2].part = 2
                              /\ u[1].save.whole /\ u[1].save.sum /\ u[2].save = u[1].save
<1>1. Count(Owl(f)) = 2 /\ Owl(f) \notin Files
  BY Map
<1>2. u[1] \in Cells /\ u[2] \in Cells /\ u[1].save.whole \in BOOLEAN
  BY DEF Cells, SaveRecs
<1>3. Image(u[1].save, 2) = [k \in 1..2 |-> [save |-> u[1].save, part |-> k]]
  BY DEF Image
<1>4. u = Image(u[1].save, 2) <=> /\ u[1] = [save |-> u[1].save, part |-> 1]
                                   /\ u[2] = [save |-> u[1].save, part |-> 2]
  <2>1. u = Image(u[1].save, 2) <=> \A k \in 1..2 : u[k] = [save |-> u[1].save, part |-> k]
    BY <1>3
  <2>2. 1..2 = {1, 2}
    OBVIOUS
  <2>3. QED BY <2>1, <2>2
<1>5. u[1] = [save |-> u[1].save, part |-> 1] <=> u[1].part = 1
  BY <1>2 DEF Cells
<1>6. u[2] = [save |-> u[1].save, part |-> 2] <=> u[2].part = 2 /\ u[2].save = u[1].save
  BY <1>2 DEF Cells
<1>7. QED BY <1>1, <1>2, <1>4, <1>5, <1>6 DEF Valid, HasNewf

\* What a step leaves of the saves, of one file at most.
Leaves(f, m, o) ==
  \A i \in Tables : WillMain(i)' = IF i = f THEN m ELSE IF i = Owl(f) THEN o ELSE WillMain(i)

\* What is left of the saves by writes to the sectors of one file.
LEMMA SentLeaves ==
  ASSUME Sound, NEW f \in Files, NEW S, NEW x, NEW y, Sent(S, x, y),
         S \subseteq OwlSectors(f) \cup {MainStart(f)}
  PROVE  /\ Leaves(f, IF MainStart(f) \in S THEN [k \in 1..1 |-> x[k]] ELSE Main(f),
                      IF MainStart(Owl(f)) \in S THEN [k \in 1..2 |-> y[k]] ELSE Main(Owl(f)))
         /\ \A i \in Tables : WillMain(i) = Main(i)
         /\ left' = left /\ setting' = setting
<1>1. todo = <<>> /\ left' = left /\ setting' = setting
  BY DEF Sent
<1>2. \A i \in Tables : WillMain(i) = Main(i)
  BY <1>1, Settled
<1>3. f \in Tables /\ Owl(f) \in Tables /\ Owl(f) \notin Files
  BY Map
<1>4. ASSUME NEW i \in Tables, i # f, i # Owl(f)
      PROVE  WillMain(i)' = Main(i)
  <2>1. MainStart(i) # MainStart(f) /\ MainStart(i) # MainStart(Owl(f))
        /\ MainStart(i) # BackupStart(Owl(f))
    BY <1>3, <1>4, Apart
  <2>2. MainStart(i) \notin S
    BY <2>1 DEF OwlSectors
  <2>3. QED BY <2>2, WillSent
<1>5. WillMain(f)' = IF MainStart(f) \in S THEN [k \in 1..1 |-> x[k]] ELSE Main(f)
  BY <1>3, WillSent
<1>6. WillMain(Owl(f))' = IF MainStart(Owl(f)) \in S THEN [k \in 1..2 |-> y[k]] ELSE Main(Owl(f))
  BY <1>3, WillSent
<1>7. QED BY <1>1, <1>2, <1>4, <1>5, <1>6 DEF Leaves

\* The same, by whether the cycle save and the owl save are among them.
LEMMA SentParts ==
  ASSUME Sound, NEW f \in Files, NEW S, NEW x, NEW y, Sent(S, x, y),
         S \subseteq OwlSectors(f) \cup {MainStart(f)}
  PROVE  /\ MainStart(f) \notin S /\ MainStart(Owl(f)) \notin S =>
              Leaves(f, Main(f), Main(Owl(f)))
         /\ MainStart(f) \notin S /\ MainStart(Owl(f)) \in S =>
              Leaves(f, Main(f), [k \in 1..2 |-> y[k]])
         /\ MainStart(f) \in S /\ MainStart(Owl(f)) \notin S =>
              Leaves(f, [k \in 1..1 |-> x[k]], Main(Owl(f)))
         /\ MainStart(f) \in S /\ MainStart(Owl(f)) \in S =>
              Leaves(f, [k \in 1..1 |-> x[k]], [k \in 1..2 |-> y[k]])
         /\ \A i \in Tables : WillMain(i) = Main(i)
<1>1. /\ Leaves(f, IF MainStart(f) \in S THEN [k \in 1..1 |-> x[k]] ELSE Main(f),
                   IF MainStart(Owl(f)) \in S THEN [k \in 1..2 |-> y[k]] ELSE Main(Owl(f)))
      /\ \A i \in Tables : WillMain(i) = Main(i)
  BY SentLeaves
<1>2. ASSUME MainStart(f) \notin S, MainStart(Owl(f)) \notin S
      PROVE  Leaves(f, Main(f), Main(Owl(f)))
  BY <1>1, <1>2
<1>3. ASSUME MainStart(f) \notin S, MainStart(Owl(f)) \in S
      PROVE  Leaves(f, Main(f), [k \in 1..2 |-> y[k]])
  BY <1>1, <1>3
<1>4. ASSUME MainStart(f) \in S, MainStart(Owl(f)) \notin S
      PROVE  Leaves(f, [k \in 1..1 |-> x[k]], Main(Owl(f)))
  BY <1>1, <1>4
<1>5. ASSUME MainStart(f) \in S, MainStart(Owl(f)) \in S
      PROVE  Leaves(f, [k \in 1..1 |-> x[k]], [k \in 1..2 |-> y[k]])
  BY <1>1, <1>5
<1>6. QED BY <1>1, <1>2, <1>3, <1>4, <1>5

\* The cells of a save.
LEMMA MainIs ==
  ASSUME Sound, NEW f \in Files
  PROVE  /\ Main(f) \in [1..1 -> Cells] /\ Main(Owl(f)) \in [1..2 -> Cells]
         /\ Main(f)[1].save \in SaveRecs /\ Main(Owl(f))[1].save \in SaveRecs
         /\ Main(f)[1].save.config \in {0, 1}
<1>1. Main(f) \in [1..1 -> Cells] /\ Main(Owl(f)) \in [1..2 -> Cells]
  BY ReadIs, Map DEF Sound
<1>2. 1 \in 1..1 /\ 1 \in 1..2
  OBVIOUS
<1>3. Main(f)[1] \in Cells /\ Main(Owl(f))[1] \in Cells
  BY <1>1, <1>2
<1>4. QED BY <1>1, <1>3 DEF Cells, SaveRecs

\* A fresh cycle save and an owl save that is invalidated, or written whole.
FreshCycle(s) == [k \in 1..1 |-> [save |-> s, part |-> 1]]
FreshOwl(s) == [k \in 1..2 |-> [save |-> s, part |-> k]]

\* It is good as a cycle save or as an owl save.
LEMMA FreshIs ==
  ASSUME NEW f \in Files, NEW s \in SaveRecs
  PROVE  /\ FreshCycle(s)[1].save = s /\ (Valid(f, FreshCycle(s)) <=> s.stamp > 0 /\ ~s.whole /\ s.sum)
         /\ FreshOwl(s)[1].save = s /\ (Valid(Owl(f), FreshOwl(s)) <=> s.stamp > 0 /\ s.whole /\ s.sum)
<1>1. /\ FreshCycle(s) \in [1..1 -> Cells] /\ FreshCycle(s)[1] = [save |-> s, part |-> 1]
      /\ FreshOwl(s) \in [1..2 -> Cells] /\ FreshOwl(s)[1] = [save |-> s, part |-> 1]
      /\ FreshOwl(s)[2] = [save |-> s, part |-> 2]
  BY DEF Cells, FreshCycle, FreshOwl
<1>2. s.whole \in BOOLEAN
  BY DEF SaveRecs
<1>3. Valid(f, FreshCycle(s)) <=> s.stamp > 0 /\ ~s.whole /\ s.sum
  BY <1>1, GoodCycle
<1>4. Valid(Owl(f), FreshOwl(s)) <=> s.stamp > 0 /\ s.whole /\ s.sum
  BY <1>1, <1>2, GoodOwl
<1>5. FreshCycle(s)[1].save = s /\ FreshOwl(s)[1].save = s
  BY <1>1
<1>6. QED BY <1>3, <1>4, <1>5

\* What the menu leaves.
LEMMA InitSaveLeaves ==
  ASSUME Sound, GameStep, NEW f \in Files, InitSave(f)
  PROVE  Leaves(f, FreshCycle(ctx'), Main(Owl(f))) /\ \A i \in Tables : WillMain(i) = Main(i)
<1>1. Sent({MainStart(f)}, Twice(ctx'), <<>>) /\ ctx' \in SaveRecs
  BY InitSaveDoes DEF GameTypes
<1>2. MainStart(Owl(f)) \notin {MainStart(f)}
  BY Map, Apart
<1>3. /\ Leaves(f, [k \in 1..1 |-> Twice(ctx')[k]], Main(Owl(f)))
      /\ \A i \in Tables : WillMain(i) = Main(i)
  BY <1>1, <1>2, SentLeaves
<1>4. \A k \in 1..2 : Twice(ctx')[k] = [save |-> ctx', part |-> 1]
  BY <1>1, TwiceIs
<1>5. [k \in 1..1 |-> Twice(ctx')[k]] = FreshCycle(ctx')
  BY <1>4 DEF FreshCycle
<1>6. QED BY <1>3, <1>5

\* Erasing a file.
LEMMA EraseSaveLeaves ==
  ASSUME Sound, GameStep, NEW f \in Files, EraseSave(f)
  PROVE  /\ Leaves(f, FreshCycle(Zeros), IF info[Owl(f)].owl THEN FreshOwl(Zeros) ELSE Main(Owl(f)))
         /\ \A i \in Tables : WillMain(i) = Main(i)
<1> DEFINE S == (IF info[Owl(f)].owl THEN OwlSectors(f) ELSE {}) \cup {MainStart(f)}
<1>1. Sent(S, Twice(Zeros), Image(Zeros, 2))
  BY EraseSaveDoes
<1>2. /\ MainStart(f) \in S /\ S \subseteq OwlSectors(f) \cup {MainStart(f)}
      /\ MainStart(Owl(f)) \in S <=> info[Owl(f)].owl
  BY Map, Apart DEF OwlSectors
<1> HIDE DEF S
<1>3. /\ Leaves(f, [k \in 1..1 |-> Twice(Zeros)[k]],
                IF MainStart(Owl(f)) \in S THEN [k \in 1..2 |-> Image(Zeros, 2)[k]] ELSE Main(Owl(f)))
      /\ \A i \in Tables : WillMain(i) = Main(i)
  BY <1>1, <1>2, SentLeaves
<1>4. \A k \in 1..2 : Twice(Zeros)[k] = [save |-> Zeros, part |-> 1]
  BY Blank, TwiceIs
<1>5. [k \in 1..1 |-> Twice(Zeros)[k]] = FreshCycle(Zeros)
  BY <1>4 DEF FreshCycle
<1>6. [k \in 1..2 |-> Image(Zeros, 2)[k]] = FreshOwl(Zeros)
  BY DEF FreshOwl, Image
<1>7. QED BY <1>2, <1>3, <1>5, <1>6

\* Copying a file.
LEMMA CopySaveLeaves ==
  ASSUME Sound, GameStep, NEW src \in Files, NEW dst \in Files, CopySave(src, dst)
  PROVE  /\ Leaves(dst, Main(src), IF info[Owl(src)].owl THEN Main(Owl(src)) ELSE Main(Owl(dst)))
         /\ \A i \in Tables : WillMain(i) = Main(i)
<1> DEFINE S == (IF info[Owl(src)].owl THEN OwlSectors(dst) ELSE {}) \cup {MainStart(dst)}
           x == Main(src) \o Backup(src)
           y == Main(Owl(src))
<1>1. Sent(S, x, y) /\ x[1] = Main(src)[1]
  BY CopySaveDoes
<1>2. /\ MainStart(dst) \in S /\ S \subseteq OwlSectors(dst) \cup {MainStart(dst)}
      /\ MainStart(Owl(dst)) \in S <=> info[Owl(src)].owl
  BY Map, Apart DEF OwlSectors
<1>3. Main(src) \in [1..1 -> Cells] /\ y \in [1..2 -> Cells]
  BY MainIs
<1> HIDE DEF S, x, y
<1>4. /\ Leaves(dst, [k \in 1..1 |-> x[k]],
                IF MainStart(Owl(dst)) \in S THEN [k \in 1..2 |-> y[k]] ELSE Main(Owl(dst)))
      /\ \A i \in Tables : WillMain(i) = Main(i)
  BY <1>1, <1>2, SentLeaves
<1>5. [k \in 1..1 |-> x[k]] = Main(src)
  BY <1>1, <1>3
<1>6. [k \in 1..2 |-> y[k]] = y
  BY <1>3
<1>7. QED BY <1>2, <1>4, <1>5, <1>6 DEF y

\* Changing the configuration of a file.
LEMMA ConfigLeaves ==
  ASSUME Sound, GameStep, NEW f \in Files, NEW c \in {0, 1}, SaveChaosConfig(f, c)
  PROVE  /\ Leaves(f, WithConfig(Main(f), c),
                   IF info[Owl(f)].owl THEN WithConfig(Main(Owl(f)), c) ELSE Main(Owl(f)))
         /\ \A i \in Tables : WillMain(i) = Main(i)
<1> DEFINE S == (IF info[Owl(f)].owl THEN {MainStart(Owl(f))} ELSE {}) \cup {MainStart(f)}
           y == WithConfig(Main(Owl(f)), c)
<1>1. PICK x : Configured(f, c, x) /\ Sent(S, x, y)
  BY SaveChaosConfigDoes
<1>2. /\ MainStart(f) \in S /\ S \subseteq OwlSectors(f) \cup {MainStart(f)}
      /\ MainStart(Owl(f)) \in S <=> info[Owl(f)].owl
  BY Map, Apart DEF OwlSectors
<1>3. Main(f) \in [1..1 -> Cells] /\ Main(Owl(f)) \in [1..2 -> Cells]
  BY MainIs
<1>4. /\ WithConfig(Main(f), c) = [k \in 1..1 |-> WithConfig(Main(f), c)[k]]
      /\ y = [k \in 1..2 |-> y[k]]
  BY <1>3 DEF WithConfig
<1> HIDE DEF S, y
<1>5. /\ Leaves(f, [k \in 1..1 |-> x[k]],
                IF MainStart(Owl(f)) \in S THEN [k \in 1..2 |-> y[k]] ELSE Main(Owl(f)))
      /\ \A i \in Tables : WillMain(i) = Main(i)
  BY <1>1, <1>2, SentLeaves
<1>6. [k \in 1..1 |-> x[k]] = WithConfig(Main(f), c)
  BY <1>1, <1>4 DEF Configured
<1>7. QED BY <1>2, <1>4, <1>5, <1>6 DEF y

\* A save whose configuration is changed.
LEMMA ConfigGood ==
  ASSUME Sound, NEW f \in Files, NEW c \in {0, 1}
  PROVE  /\ WithConfig(Main(f), c)[1].save = [Main(f)[1].save EXCEPT !.config = c, !.sum = TRUE]
         /\ Valid(f, Main(f)) => Valid(f, WithConfig(Main(f), c))
         /\ WithConfig(Main(Owl(f)), c)[1].save = [Main(Owl(f))[1].save EXCEPT !.config = c, !.sum = TRUE]
         /\ Valid(Owl(f), Main(Owl(f))) => Valid(Owl(f), WithConfig(Main(Owl(f)), c))
<1> DEFINE m == Main(f)
           o == Main(Owl(f))
           m2 == WithConfig(m, c)
           o2 == WithConfig(o, c)
<1>1. m \in [1..1 -> Cells] /\ o \in [1..2 -> Cells]
  BY MainIs
<1> HIDE DEF m, o
<1>2. /\ m2 = [k \in 1..1 |-> [m[k] EXCEPT !.save.config = c, !.save.sum = TRUE]]
      /\ o2 = [k \in 1..2 |-> [o[k] EXCEPT !.save.config = c, !.save.sum = TRUE]]
  BY <1>1 DEF WithConfig
<1> HIDE DEF m2, o2
<1>3. \A k \in 1..2 : 1 \in 1..1 /\ 1 \in 1..2 /\ 2 \in 1..2
  OBVIOUS
<1>4. m[1] \in Cells /\ o[1] \in Cells /\ o[2] \in Cells
  BY <1>1, <1>3
<1>5. /\ m2[1] = [m[1] EXCEPT !.save.config = c, !.save.sum = TRUE]
      /\ o2[1] = [o[1] EXCEPT !.save.config = c, !.save.sum = TRUE]
      /\ o2[2] = [o[2] EXCEPT !.save.config = c, !.save.sum = TRUE]
  BY <1>2, <1>3
<1>6. ASSUME NEW u \in Cells, NEW v, v = [u EXCEPT !.save.config = c, !.save.sum = TRUE]
      PROVE  /\ v \in Cells /\ v.part = u.part /\ v.save = [u.save EXCEPT !.config = c, !.sum = TRUE]
             /\ v.save.stamp = u.save.stamp /\ v.save.whole = u.save.whole /\ v.save.sum
  BY <1>6 DEF Cells, SaveRecs
<1>7. /\ m2[1] \in Cells /\ m2[1].part = m[1].part /\ m2[1].save = [m[1].save EXCEPT !.config = c, !.sum = TRUE]
      /\ m2[1].save.stamp = m[1].save.stamp /\ m2[1].save.whole = m[1].save.whole /\ m2[1].save.sum
  BY <1>4, <1>5, <1>6
<1>8. /\ o2[1] \in Cells /\ o2[1].part = o[1].part /\ o2[1].save = [o[1].save EXCEPT !.config = c, !.sum = TRUE]
      /\ o2[1].save.stamp = o[1].save.stamp /\ o2[1].save.whole = o[1].save.whole /\ o2[1].save.sum
  BY <1>4, <1>5, <1>6
<1>9. /\ o2[2] \in Cells /\ o2[2].part = o[2].part /\ o2[2].save = [o[2].save EXCEPT !.config = c, !.sum = TRUE]
  BY <1>4, <1>5, <1>6
<1>10. m2 \in [1..1 -> Cells]
  BY <1>2, <1>7
<1>11. o2 \in [1..2 -> Cells]
  <2>1. o2 = [k \in 1..2 |-> o2[k]] /\ \A k \in 1..2 : o2[k] \in Cells
    <3>1. \A k \in 1..2 : k = 1 \/ k = 2
      OBVIOUS
    <3>2. QED BY <1>2, <1>8, <1>9, <3>1
  <2>2. QED BY <2>1
<1>12. Valid(f, m) => Valid(f, m2)
  BY <1>1, <1>7, <1>10, GoodCycle
<1>13. Valid(Owl(f), o) => Valid(Owl(f), o2)
  <2> SUFFICES ASSUME Valid(Owl(f), o) PROVE Valid(Owl(f), o2)
    OBVIOUS
  <2>1. /\ o[1].save.stamp > 0 /\ o[1].part = 1 /\ o[2].part = 2
        /\ o[1].save.whole /\ o[2].save = o[1].save
    BY <1>1, GoodOwl
  <2>2. /\ o2[1].save.stamp > 0 /\ o2[1].part = 1 /\ o2[2].part = 2 /\ o2[2].save = o2[1].save
    BY <1>8, <1>9, <2>1
  <2>3. o2[1].save.whole /\ o2[1].save.sum
    BY <1>8, <2>1
  <2>4. QED BY <1>11, <2>2, <2>3, GoodOwl
<1>14. QED BY <1>7, <1>8, <1>12, <1>13 DEF m, o, m2, o2

\* Writing nothing.
LEMMA SentNothing ==
  ASSUME Sound, NEW f \in Files, Sent({}, <<>>, <<>>)
  PROVE  Leaves(f, Main(f), Main(Owl(f))) /\ \A i \in Tables : WillMain(i) = Main(i)
<1>1. todo = <<>> /\ f \in Tables /\ Owl(f) \in Tables
  BY Map DEF Sent
<1>2. \A i \in Tables : WillMain(i)' = Main(i)
  BY WillSent
<1>3. \A i \in Tables : WillMain(i) = Main(i)
  BY <1>1, Settled
<1>4. QED BY <1>1, <1>2, <1>3 DEF Leaves

\* What opening a file leaves: f is the file.
LEMMA OpenSaveLeaves ==
  ASSUME Sound, GameStep, NEW f \in Files, OpenSave(f)
  PROVE  LET s == Loaded(Opened(f))[1].save IN
         /\ Leaves(f, Main(f), IF s.owl /\ ~s.crash THEN FreshOwl(Zeros) ELSE Main(Owl(f)))
         /\ latest' = IF s.owl /\ ~s.crash THEN [latest EXCEPT ![f].owl = 0] ELSE latest
         /\ \A i \in Tables : WillMain(i) = Main(i)
<1> DEFINE s == Loaded(Opened(f))[1].save
<1>1. \/ /\ s.owl /\ ~s.crash /\ Sent(OwlSectors(f), <<>>, Image(Zeros, 2))
         /\ latest' = [latest EXCEPT ![f].owl = 0]
      \/ ~(s.owl /\ ~s.crash) /\ Sent({}, <<>>, <<>>) /\ latest' = latest
  BY OpenSaveDoes
<1> HIDE DEF s
<1>2. /\ MainStart(f) \notin OwlSectors(f) /\ MainStart(Owl(f)) \in OwlSectors(f)
      /\ MainStart(f) \notin {} /\ MainStart(Owl(f)) \notin {}
  BY Below DEF OwlSectors
<1>3. [k \in 1..2 |-> Image(Zeros, 2)[k]] = FreshOwl(Zeros)
  BY DEF FreshOwl, Image
<1>4. CASE /\ s.owl /\ ~s.crash /\ Sent(OwlSectors(f), <<>>, Image(Zeros, 2))
           /\ latest' = [latest EXCEPT ![f].owl = 0]
  <2>1. /\ Leaves(f, Main(f), [k \in 1..2 |-> Image(Zeros, 2)[k]])
        /\ \A i \in Tables : WillMain(i) = Main(i)
    BY <1>2, <1>4, SentParts
  <2>2. QED BY <1>3, <1>4, <2>1 DEF s
<1>5. CASE ~(s.owl /\ ~s.crash) /\ Sent({}, <<>>, <<>>) /\ latest' = latest
  <2>1. Leaves(f, Main(f), Main(Owl(f))) /\ \A i \in Tables : WillMain(i) = Main(i)
    BY <1>5, SentNothing
  <2>2. QED BY <1>5, <2>1 DEF s
<1>6. QED BY <1>1, <1>4, <1>5

\* What the game leaves: a new cycle save, which ends the owl save or has none before it; an
\* owl save; or nothing new.
LEMMA PlayLeaves ==
  ASSUME Sound, GameStep
  PROVE  /\ NewCycle \/ NewDay => Leaves(fileNum, FreshCycle(ctx'), FreshOwl(Zeros))
         /\ EnterClockTown => Leaves(fileNum, FreshCycle(ctx'), Main(Owl(fileNum)))
         /\ OwlSave \/ Crash => Leaves(fileNum, Main(fileNum), FreshOwl(ctx'))
         /\ MoonCrash => Leaves(fileNum, Main(fileNum), Main(Owl(fileNum)))
         /\ Play => \A i \in Tables : WillMain(i) = Main(i)
<1> DEFINE f == fileNum
<1>0. f \in Files
  BY DEF Sound, GameTypes
<1> HIDE DEF f
<1>1. /\ MainStart(f) \notin OwlSectors(f) /\ MainStart(Owl(f)) \in OwlSectors(f)
      /\ MainStart(f) \notin {} /\ MainStart(Owl(f)) \notin {} /\ MainStart(Owl(f)) # MainStart(f)
  BY <1>0, Below DEF OwlSectors
<1>2. [k \in 1..2 |-> Image(Zeros, 2)[k]] = FreshOwl(Zeros)
  BY DEF FreshOwl, Image
<1>3. ASSUME NEW x, x[1] = [save |-> ctx', part |-> 1]
      PROVE  [k \in 1..1 |-> x[k]] = FreshCycle(ctx')
  BY <1>3 DEF FreshCycle
<1>4. ASSUME NewCycle \/ NewDay
      PROVE  Leaves(f, FreshCycle(ctx'), FreshOwl(Zeros)) /\ \A i \in Tables : WillMain(i) = Main(i)
  <2>1. PICK x : /\ x[1] = [save |-> ctx', part |-> 1]
                 /\ Sent(OwlSectors(f) \cup {MainStart(f)}, x, Image(Zeros, 2))
    <3>1. CASE NewCycle
      <4>1. /\ Sent(OwlSectors(f) \cup {MainStart(f)}, Buffer(ctx'), Image(Zeros, 2))
            /\ ctx' \in SaveRecs
        BY <3>1, NewCycleDoes DEF f, GameTypes
      <4>2. QED BY <4>1, BufferIs
    <3>2. CASE NewDay
      BY <3>2, NewDayDoes DEF f
    <3>3. QED BY <1>4, <3>1, <3>2
  <2>2. /\ Leaves(f, [k \in 1..1 |-> x[k]], [k \in 1..2 |-> Image(Zeros, 2)[k]])
        /\ \A i \in Tables : WillMain(i) = Main(i)
    BY <1>0, <1>1, <2>1, SentParts
  <2>3. QED BY <1>2, <1>3, <2>1, <2>2
<1>5. ASSUME EnterClockTown
      PROVE  Leaves(f, FreshCycle(ctx'), Main(Owl(f))) /\ \A i \in Tables : WillMain(i) = Main(i)
  <2>1. Sent({MainStart(f)}, Twice(ctx'), <<>>) /\ ctx' \in SaveRecs
    BY <1>5, EnterClockTownDoes DEF f, GameTypes
  <2>2. 1 \in 1..2
    OBVIOUS
  <2>3. Twice(ctx')[1] = [save |-> ctx', part |-> 1]
    BY <2>1, <2>2, TwiceIs
  <2>4. /\ Leaves(f, [k \in 1..1 |-> Twice(ctx')[k]], Main(Owl(f)))
        /\ \A i \in Tables : WillMain(i) = Main(i)
    BY <1>0, <1>1, <2>1, SentParts
  <2>5. QED BY <1>3, <2>3, <2>4
<1>6. ASSUME OwlSave \/ Crash
      PROVE  /\ Leaves(f, Main(f), FreshOwl(ctx'))
             /\ \A i \in Tables : WillMain(i) = Main(i)
  <2>1. /\ ctx' \in SaveRecs
        /\ \E S : Sent(S, <<>>, Buffer(ctx')) /\ S \subseteq OwlSectors(f) /\ MainStart(Owl(f)) \in S
    BY <1>1, <1>6, OwlSaveDoes, CrashDoes DEF f, GameTypes, OwlSectors
  <2>2. PICK S : Sent(S, <<>>, Buffer(ctx')) /\ S \subseteq OwlSectors(f) /\ MainStart(Owl(f)) \in S
    BY <2>1
  <2>3. /\ Leaves(f, Main(f), [k \in 1..2 |-> Buffer(ctx')[k]])
        /\ \A i \in Tables : WillMain(i) = Main(i)
    <3>1. MainStart(f) \notin S /\ S \subseteq OwlSectors(f) \cup {MainStart(f)}
      BY <1>1, <2>2
    <3>2. QED BY <1>0, <2>2, <3>1, SentParts
  <2>4. ctx'.owl \/ ctx'.crash
    BY <1>6, OwlSaveDoes, CrashDoes DEF Creates
  <2>5. Buffer(ctx') = Image(ctx', 2)
    BY <2>1, <2>4, BufferIs
  <2>6. [k \in 1..2 |-> Buffer(ctx')[k]] = FreshOwl(ctx')
    BY <2>5 DEF Image, FreshOwl
  <2>7. QED BY <2>3, <2>6
<1>7. ASSUME MoonCrash
      PROVE  Leaves(f, Main(f), Main(Owl(f))) /\ \A i \in Tables : WillMain(i) = Main(i)
  <2>1. Sent({}, <<>>, <<>>)
    BY <1>7, MoonCrashDoes
  <2>2. QED BY <1>0, <2>1, SentNothing
<1>8. QED BY <1>4, <1>5, <1>6, <1>7 DEF Play, f

\* The two files and their owl saves are told apart.
LEMMA Others ==
  ASSUME NEW f \in Files, NEW g \in Files
  PROVE  /\ Owl(g) # f /\ (Owl(g) = Owl(f) <=> g = f) /\ g \in Tables /\ Owl(g) \in Tables
BY DEF Owl, Files, Tables

\* One file changes, or none.
LEMMA LatestStep ==
  ASSUME LatestInv, NEW f \in Files, NEW m, NEW o, Leaves(f, m, o), left' = left, setting' = setting,
         \A g \in Files : g # f => latest'[g] = latest[g],
         Undisturbed => LatestIs(f, m, o, latest'[f]),
         Undisturbed /\ phase' = "play" => fileNum' = f /\ PlaysLatest(ctx', m, latest'[f])
  PROVE  LatestInv'
<1> SUFFICES ASSUME Undisturbed
             PROVE  /\ left'.cuts = 0
                    /\ \A g \in Files :
                         /\ LatestIs(g, WillMain(g)', WillMain(Owl(g))', latest'[g])
                         /\ phase' = "play" /\ fileNum' = g =>
                              PlaysLatest(ctx', WillMain(g)', latest'[g])
  BY DEF LatestInv, Undisturbed, LatestIs, PlaysLatest, Valid, HasNewf
<1>1. /\ left.cuts = 0
      /\ \A g \in Files : LatestIs(g, WillMain(g), WillMain(Owl(g)), latest[g])
  BY DEF LatestInv
<1>2. WillMain(f)' = m /\ WillMain(Owl(f))' = o
  BY Others DEF Leaves
<1>3. ASSUME NEW g \in Files
      PROVE  LatestIs(g, WillMain(g)', WillMain(Owl(g))', latest'[g])
  <2>1. CASE g = f
    BY <1>2, <2>1
  <2>2. CASE g # f
    <3>1. WillMain(g)' = WillMain(g) /\ WillMain(Owl(g))' = WillMain(Owl(g)) /\ latest'[g] = latest[g]
      BY <2>2, Others DEF Leaves
    <3>2. LatestIs(g, WillMain(g), WillMain(Owl(g)), latest[g])
      BY <1>1
    <3>3. QED BY <3>1, <3>2
  <2>3. QED BY <2>1, <2>2
<1>4. ASSUME NEW g \in Files, phase' = "play", fileNum' = g
      PROVE  PlaysLatest(ctx', WillMain(g)', latest'[g])
  <2>1. fileNum' = f /\ PlaysLatest(ctx', m, latest'[f])
    BY <1>4
  <2>2. QED BY <1>2, <1>4, <2>1
<1>5. QED BY <1>1, <1>3, <1>4

\* What is played and what is known of the files.
LEMMA LatestHere ==
  ASSUME Sound, LatestInv, Undisturbed, \A i \in Tables : WillMain(i) = Main(i), NEW f \in Files
  PROVE  /\ LatestIs(f, Main(f), Main(Owl(f)), latest[f])
         /\ phase = "play" => PlaysLatest(ctx, Main(fileNum), latest[fileNum])
         /\ fileNum \in Files
         /\ latest[f] \in [cycle : Nat, owl : Nat, config : {0, 1}]
<1>1. fileNum \in Files /\ latest[f] \in [cycle : Nat, owl : Nat, config : {0, 1}]
  BY DEF Sound, GameTypes
<1>2. \A g \in Files : WillMain(g) = Main(g) /\ WillMain(Owl(g)) = Main(Owl(g))
  BY Others
<1>3. LatestIs(f, WillMain(f), WillMain(Owl(f)), latest[f])
  BY DEF LatestInv
<1>4. phase = "play" => PlaysLatest(ctx, WillMain(fileNum), latest[fileNum])
  BY <1>1 DEF LatestInv
<1>5. QED BY <1>1, <1>2, <1>3, <1>4

\* What the file select screen knows of a file.
LEMMA InfoHere ==
  ASSUME InfoInv, \A i \in Tables : WillMain(i) = Main(i), phase = "select", NEW f \in Files
  PROVE  /\ info[f].used <=> Valid(f, Main(f))
         /\ FlagsRight /\ info[Owl(f)].owl => Valid(Owl(f), Main(Owl(f)))
         /\ FlagsSet /\ Valid(Owl(f), Main(Owl(f))) => info[Owl(f)].owl
<1>1. f \in Tables /\ Owl(f) \in Tables /\ Owl(f) \notin Files
  BY Map
<1>2. TellsRight(f, Main(f), Tells(f)) /\ TellsRight(Owl(f), Main(Owl(f)), Tells(Owl(f)))
  BY <1>1 DEF InfoInv, Known
<1>3. QED BY <1>1, <1>2 DEF TellsRight, Tells

\* Where the latest save is promised the flags of the owl saves are right.
LEMMA FlagsThen == Undisturbed /\ Sound => FlagsRight /\ FlagsSet
BY SettingsAssumption DEF Undisturbed, FlagsRight, FlagsSet, Sound, FlashTypes

\* A new file has no owl save yet, since an erased one has none.
LEMMA LatestInitSave ==
  ASSUME Sound, GameStep, InfoInv, LatestInv, NEW f \in Files, InitSave(f)
  PROVE  LatestInv'
<1> DEFINE m == FreshCycle(ctx')
           o == Main(Owl(f))
<1>1. Leaves(f, m, o) /\ \A i \in Tables : WillMain(i) = Main(i)
  BY InitSaveLeaves
<1>2. /\ phase = "select" /\ phase' = "select" /\ ~info[f].used
      /\ Creates(f, FALSE, ctx.crash, 0, FALSE, FALSE) /\ left' = left /\ setting' = setting
  BY InitSaveDoes DEF GameStep
<1>3. /\ ctx' \in SaveRecs /\ ctx'.stamp = saves + 1 /\ ctx'.whole = FALSE /\ ctx'.config = 0
      /\ ctx'.sum
      /\ latest'[f] = [cycle |-> saves + 1, owl |-> 0, config |-> 0]
      /\ \A g \in Files : g # f => latest'[g] = latest[g]
      /\ saves \in Nat
  BY <1>2 DEF Creates, Sound, GameTypes
<1>4. m[1].save = ctx' /\ Valid(f, m)
  <2>1. ctx'.stamp > 0 /\ ~ctx'.whole /\ ctx'.sum
    BY <1>3
  <2>2. QED BY <1>3, <2>1, FreshIs
<1>5. ASSUME Undisturbed PROVE LatestIs(f, m, o, latest'[f])
  <2>1. ~Valid(f, Main(f)) /\ LatestIs(f, Main(f), Main(Owl(f)), latest[f])
    BY <1>1, <1>2, <1>5, InfoHere, LatestHere
  <2>2. ~Valid(Owl(f), o)
    BY <2>1 DEF LatestIs, None
  <2> HIDE DEF m, o
  <2>3. QED BY <1>3, <1>4, <2>2 DEF LatestIs
<1> HIDE DEF m, o
<1>6. QED BY <1>1, <1>2, <1>3, <1>5, LatestStep

\* An erased file has neither save.
LEMMA LatestEraseSave ==
  ASSUME Sound, GameStep, InfoInv, LatestInv, NEW f \in Files, EraseSave(f)
  PROVE  LatestInv'
<1> DEFINE m == FreshCycle(Zeros)
           o == IF info[Owl(f)].owl THEN FreshOwl(Zeros) ELSE Main(Owl(f))
<1>1. Leaves(f, m, o) /\ \A i \in Tables : WillMain(i) = Main(i)
  BY EraseSaveLeaves
<1>2. /\ phase = "select" /\ phase' = "select" /\ left' = left /\ setting' = setting
      /\ latest' = [latest EXCEPT ![f] = None] /\ f \in DOMAIN latest
  BY EraseSaveDoes DEF GameStep, Sound, GameTypes
<1>3. Zeros \in SaveRecs /\ Zeros.stamp = 0 /\ ~Zeros.whole
  BY Blank DEF Zeros
<1>4. m[1].save = Zeros /\ ~Valid(Owl(f), FreshOwl(Zeros))
  <2>1. ~(Zeros.stamp > 0)
    BY <1>3
  <2>2. QED BY <1>3, <2>1, FreshIs
<1>5. ASSUME Undisturbed PROVE LatestIs(f, m, o, latest'[f])
  <2>1. FlagsSet /\ Valid(Owl(f), Main(Owl(f))) => info[Owl(f)].owl
    BY <1>1, <1>2, InfoHere
  <2>2. ~Valid(Owl(f), o)
    BY <1>4, <1>5, <2>1, FlagsThen
  <2>3. latest'[f] = None /\ None.cycle = 0 /\ None.owl = 0
    BY <1>2 DEF None
  <2> HIDE DEF m, o
  <2>4. QED BY <1>3, <1>4, <2>2, <2>3 DEF LatestIs
<1> HIDE DEF m, o
<1>6. QED BY <1>1, <1>2, <1>5, LatestStep

\* A copy is of a file without an owl save, and to a place without one.
LEMMA LatestCopySave ==
  ASSUME Sound, GameStep, InfoInv, LatestInv, NEW src \in Files, NEW dst \in Files, CopySave(src, dst)
  PROVE  LatestInv'
<1> DEFINE m == Main(src)
           o == IF info[Owl(src)].owl THEN Main(Owl(src)) ELSE Main(Owl(dst))
<1>1. Leaves(dst, m, o) /\ \A i \in Tables : WillMain(i) = Main(i)
  BY CopySaveLeaves
<1>2. /\ phase = "select" /\ phase' = "select" /\ left' = left /\ setting' = setting
      /\ latest' = [latest EXCEPT ![dst] = latest[src]] /\ dst \in DOMAIN latest
      /\ info[src].used /\ ~info[dst].used /\ (info[Owl(src)].owl => setting.copies = "owl")
  BY CopySaveDoes DEF GameStep, Sound, GameTypes
<1>3. ASSUME Undisturbed PROVE LatestIs(dst, m, o, latest'[dst])
  <2>1. FlagsRight /\ FlagsSet /\ ~info[Owl(src)].owl
    BY <1>2, <1>3, FlagsThen DEF Undisturbed
  <2>2. Valid(src, Main(src)) /\ ~Valid(Owl(src), Main(Owl(src))) /\ ~Valid(dst, Main(dst))
    BY <1>1, <1>2, <2>1, InfoHere
  <2>3. /\ LatestIs(src, Main(src), Main(Owl(src)), latest[src])
        /\ LatestIs(dst, Main(dst), Main(Owl(dst)), latest[dst])
    BY <1>1, <1>3, LatestHere
  <2>4. latest[src].owl = 0 /\ latest[src].cycle # 0
    <3>1. Main(src)[1].save.stamp > 0 /\ Main(src)[1].save.stamp \in Int
      BY <2>2, MainIs DEF Valid, HasNewf, SaveRecs
    <3>2. ~(Main(src)[1].save.stamp <= 0)
      BY <3>1
    <3>3. QED BY <2>2, <2>3, <3>2 DEF LatestIs
  <2>5. ~Valid(Owl(dst), o)
    BY <2>1, <2>2, <2>3 DEF LatestIs, None
  <2>6. Valid(dst, m)
    BY <2>2, MainIs, GoodCycle
  <2>7. latest'[dst] = latest[src]
    BY <1>2
  <2>8. QED BY <2>3, <2>4, <2>5, <2>6, <2>7 DEF LatestIs
<1> HIDE DEF m, o
<1>4. QED BY <1>1, <1>2, <1>3, LatestStep

\* Both saves of a file get the configuration.
LEMMA LatestSaveChaosConfig ==
  ASSUME Sound, GameStep, InfoInv, LatestInv, NEW f \in Files, NEW c \in {0, 1}, SaveChaosConfig(f, c)
  PROVE  LatestInv'
<1> DEFINE m == WithConfig(Main(f), c)
           o == IF info[Owl(f)].owl THEN WithConfig(Main(Owl(f)), c) ELSE Main(Owl(f))
           l == latest[f]
<1>1. Leaves(f, m, o) /\ \A i \in Tables : WillMain(i) = Main(i)
  BY ConfigLeaves
<1>2. /\ phase = "select" /\ phase' = "select" /\ left' = left /\ setting' = setting
      /\ latest' = [latest EXCEPT ![f].config = c] /\ f \in DOMAIN latest /\ info[f].used
      /\ l \in [cycle : Nat, owl : Nat, config : {0, 1}]
  BY SaveChaosConfigDoes DEF GameStep, Sound, GameTypes
<1>3. ASSUME Undisturbed PROVE LatestIs(f, m, o, latest'[f])
  <2>1. /\ Valid(f, Main(f)) /\ (Valid(Owl(f), Main(Owl(f))) <=> info[Owl(f)].owl)
        /\ LatestIs(f, Main(f), Main(Owl(f)), l)
    BY <1>1, <1>2, <1>3, InfoHere, LatestHere, FlagsThen
  <2>2. latest'[f] = [l EXCEPT !.config = c]
    BY <1>2
  <2>3. latest'[f].cycle = l.cycle /\ latest'[f].owl = l.owl /\ latest'[f].config = c
    BY <1>2, <2>2
  <2>4. /\ Main(f)[1].save \in SaveRecs /\ Main(Owl(f))[1].save \in SaveRecs
        /\ m[1].save = [Main(f)[1].save EXCEPT !.config = c, !.sum = TRUE]
        /\ Valid(f, m)
        /\ WithConfig(Main(Owl(f)), c)[1].save = [Main(Owl(f))[1].save EXCEPT !.config = c, !.sum = TRUE]
        /\ Valid(Owl(f), Main(Owl(f))) => Valid(Owl(f), WithConfig(Main(Owl(f)), c))
    BY <2>1, MainIs, ConfigGood
  <2>5. /\ m[1].save.stamp = Main(f)[1].save.stamp /\ m[1].save.cycling = Main(f)[1].save.cycling
        /\ m[1].save.config = c
        /\ WithConfig(Main(Owl(f)), c)[1].save.stamp = Main(Owl(f))[1].save.stamp
        /\ WithConfig(Main(Owl(f)), c)[1].save.config = c
    BY <2>4 DEF SaveRecs
  <2>6. l.cycle # 0
    <3>1. Main(f)[1].save.stamp > 0 /\ Main(f)[1].save.stamp \in Int
      BY <2>1, MainIs DEF Valid, HasNewf, SaveRecs
    <3>2. ~(Main(f)[1].save.stamp <= 0)
      BY <3>1
    <3>3. QED BY <2>1, <3>2 DEF LatestIs
  <2>7. CASE l.owl = 0
    <3>1. ~Valid(Owl(f), Main(Owl(f))) /\ o = Main(Owl(f))
      BY <2>1, <2>7 DEF LatestIs
    <3>2. QED BY <2>1, <2>3, <2>4, <2>5, <2>6, <2>7, <3>1 DEF LatestIs
  <2>8. CASE l.owl # 0
    <3>1. /\ Valid(Owl(f), Main(Owl(f))) /\ o = WithConfig(Main(Owl(f)), c)
          /\ Main(Owl(f))[1].save.stamp = l.owl
      BY <2>1, <2>8 DEF LatestIs
    <3>2. QED BY <2>1, <2>3, <2>4, <2>5, <2>6, <2>8, <3>1 DEF LatestIs
  <2>9. QED BY <2>7, <2>8
<1> HIDE DEF m, o, l
<1>4. QED BY <1>1, <1>2, <1>3, LatestStep

\* The first save of a valid save is a number.
LEMMA LatestGood ==
  ASSUME Sound, NEW f \in Files, NEW l, LatestIs(f, Main(f), Main(Owl(f)), l)
  PROVE  /\ Valid(f, Main(f)) => l.cycle # 0
         /\ Valid(Owl(f), Main(Owl(f))) <=> l.owl # 0
<1>1. ASSUME Valid(f, Main(f)) PROVE l.cycle # 0
  <2>1. Main(f)[1].save.stamp > 0 /\ Main(f)[1].save.stamp \in Int
    BY <1>1, MainIs DEF Valid, HasNewf, SaveRecs
  <2>2. ~(Main(f)[1].save.stamp <= 0)
    BY <2>1
  <2>3. QED BY <2>2 DEF LatestIs
<1>2. QED BY <1>1 DEF LatestIs

\* An owl save that is good is of a later cycle, unless the game crashed before.
LEMMA OwlKind ==
  ASSUME Sound, KindInv, NEW f \in Files
  PROVE  /\ Valid(Owl(f), Main(Owl(f))) =>
              /\ Main(Owl(f))[1].save.whole
              /\ Main(Owl(f))[1].save.owl \/ Main(Owl(f))[1].save.crash
              /\ ~setting.crashesEarly => Main(Owl(f))[1].save.cycling
         /\ ~Main(f)[1].save.whole /\ ~Main(f)[1].save.owl
         /\ ~setting.crashesEarly => ~Main(f)[1].save.crash
<1>1. /\ f \in Tables /\ Owl(f) \in Tables /\ (f \in Files) = TRUE /\ (Owl(f) \in Files) = FALSE
      /\ 1 \in DOMAIN Main(f) /\ 1 \in DOMAIN Main(Owl(f))
  BY Map, MainIs
<1>2. /\ Fits(TRUE, Main(f)[1].save, saves, setting.crashesEarly)
      /\ Fits(FALSE, Main(Owl(f))[1].save, saves, setting.crashesEarly)
  BY <1>1, ReadFits
<1>3. QED BY <1>1, <1>2 DEF Fits, Valid, HasNewf

\* A file opens with its latest save.
LEMMA LatestOpenSave ==
  ASSUME Sound, KindInv, GameStep, InfoInv, LatestInv, NEW f \in Files, OpenSave(f)
  PROVE  LatestInv'
<1> DEFINE s == Loaded(Opened(f))[1].save
           spent == s.owl /\ ~s.crash
           m == Main(f)
           o == IF spent THEN FreshOwl(Zeros) ELSE Main(Owl(f))
           l == latest[f]
<1>1. /\ Leaves(f, m, o) /\ \A i \in Tables : WillMain(i) = Main(i)
      /\ latest' = IF spent THEN [latest EXCEPT ![f].owl = 0] ELSE latest
  BY OpenSaveLeaves
<1>2. /\ phase = "select" /\ phase' = "play" /\ fileNum' = f /\ info[f].used
      /\ s \in SaveRecs /\ ctx' = [s EXCEPT !.owl = FALSE]
      /\ left' = left /\ setting' = setting /\ f \in DOMAIN latest
      /\ l \in [cycle : Nat, owl : Nat, config : {0, 1}]
  BY OpenSaveDoes DEF GameStep, Sound, GameTypes
<1> HIDE DEF s
<1>3. ctx'.config = s.config /\ ctx'.cycling = s.cycling
  BY <1>2 DEF SaveRecs
<1>4. /\ \A g \in Files : g # f => latest'[g] = latest[g]
      /\ latest'[f].cycle = l.cycle /\ latest'[f].config = l.config
      /\ latest'[f].owl = IF spent THEN 0 ELSE l.owl
      /\ ~spent => latest'[f] = l
  BY <1>1, <1>2
<1>5. ASSUME Undisturbed
      PROVE  LatestIs(f, m, o, latest'[f]) /\ PlaysLatest(ctx', m, latest'[f])
  <2>1. /\ Valid(f, Main(f)) /\ (Valid(Owl(f), Main(Owl(f))) <=> info[Owl(f)].owl)
        /\ LatestIs(f, Main(f), Main(Owl(f)), l) /\ l.cycle # 0 /\ l.cycle > 0
        /\ Valid(Owl(f), Main(Owl(f))) <=> l.owl # 0
    <3>1. /\ Valid(f, Main(f)) /\ (Valid(Owl(f), Main(Owl(f))) <=> info[Owl(f)].owl)
          /\ LatestIs(f, Main(f), Main(Owl(f)), l)
      BY <1>1, <1>2, <1>5, InfoHere, LatestHere, FlagsThen
    <3>2. l.cycle # 0 /\ (Valid(Owl(f), Main(Owl(f))) <=> l.owl # 0)
      BY <3>1, LatestGood
    <3>3. QED BY <1>2, <3>1, <3>2
  <2>2. /\ m[1].save.stamp = l.cycle /\ m[1].save.config = l.config /\ Valid(f, m)
        /\ ~m[1].save.cycling => l.owl = 0
    BY <2>1 DEF LatestIs
  <2>3. ~setting.crashesEarly
    BY <1>5 DEF Undisturbed
  <2>4. CASE info[Owl(f)].owl
    <3>1. s = Main(Owl(f))[1].save
      <4>1. Opened(f) = Owl(f) /\ HasNewf(Main(Owl(f)))
        BY <2>1, <2>4 DEF Opened, Valid
      <4>2. QED BY <4>1 DEF s, Loaded
    <3>2. s.cycling /\ s.whole /\ s.config = l.config /\ m[1].save.cycling
      BY <2>1, <2>2, <2>3, <2>4, <3>1, OwlKind DEF LatestIs
    <3>3. PlaysLatest(ctx', m, latest'[f])
      BY <1>3, <1>4, <2>1, <3>2 DEF PlaysLatest
    <3>4. CASE ~spent
      BY <1>4, <2>1, <3>3, <3>4
    <3>5. CASE spent
      <4>1. Zeros \in SaveRecs /\ ~(Zeros.stamp > 0)
        BY Blank DEF Zeros
      <4>2. ~Valid(Owl(f), FreshOwl(Zeros))
        BY <4>1, FreshIs
      <4>3. QED BY <1>4, <2>1, <2>2, <3>3, <3>5, <4>2 DEF LatestIs
    <3>6. QED BY <3>4, <3>5
  <2>5. CASE ~info[Owl(f)].owl
    <3>1. s = m[1].save
      <4>1. Opened(f) = f /\ HasNewf(Main(f))
        BY <2>1, <2>5 DEF Opened, Valid
      <4>2. QED BY <4>1 DEF s, Loaded
    <3>2. ~spent
      BY <3>1, OwlKind
    <3>3. PlaysLatest(ctx', m, latest'[f])
      BY <1>3, <1>4, <2>1, <2>2, <3>1, <3>2 DEF PlaysLatest
    <3>4. QED BY <1>4, <2>1, <3>2, <3>3
  <2>6. QED BY <2>4, <2>5
<1> HIDE DEF m, o, spent, l
<1>6. QED BY <1>1, <1>2, <1>4, <1>5, LatestStep

\* A new cycle save, after which there is no owl save.
LEMMA LatestCycle ==
  ASSUME Sound, Sound', LatestInv, NEW f \in Files, NEW o, NEW owl, NEW crash, NEW cycling,
         Leaves(f, FreshCycle(ctx'), o), fileNum' = f,
         Creates(f, owl, crash, ctx.config, cycling, FALSE),
         left' = left, setting' = setting, Undisturbed => ~Valid(Owl(f), o)
  PROVE  LatestInv'
<1>1. /\ ctx' \in SaveRecs /\ ctx'.stamp = saves + 1 /\ ctx'.whole = FALSE /\ ctx'.config = ctx.config
      /\ ctx'.sum
      /\ latest'[f] = [cycle |-> saves + 1, owl |-> 0, config |-> ctx.config]
      /\ \A g \in Files : g # f => latest'[g] = latest[g]
      /\ saves \in Nat
  BY DEF Creates, Sound, GameTypes
<1>2. FreshCycle(ctx')[1].save = ctx' /\ Valid(f, FreshCycle(ctx'))
  <2>1. ctx'.stamp > 0 /\ ~ctx'.whole /\ ctx'.sum
    BY <1>1
  <2>2. QED BY <1>1, <2>1, FreshIs
<1>3. ASSUME Undisturbed PROVE LatestIs(f, FreshCycle(ctx'), o, latest'[f])
  BY <1>1, <1>2, <1>3 DEF LatestIs
<1>4. PlaysLatest(ctx', FreshCycle(ctx'), latest'[f])
  BY <1>1, <1>2 DEF PlaysLatest
<1>5. QED BY <1>1, <1>3, <1>4, LatestStep

\* A new owl save, in front of the cycle save.
LEMMA LatestOwl ==
  ASSUME Sound, Sound', LatestInv, NEW f \in Files, f = fileNum, phase = "play", phase' # "play",
         NEW owl, NEW crash,
         Leaves(f, Main(f), FreshOwl(ctx')), Creates(f, owl, crash, ctx.config, ctx.cycling, TRUE),
         left' = left, setting' = setting, Undisturbed => ctx.cycling,
         \A i \in Tables : WillMain(i) = Main(i)
  PROVE  LatestInv'
<1>1. /\ ctx' \in SaveRecs /\ ctx'.stamp = saves + 1 /\ ctx'.whole = TRUE /\ ctx'.config = ctx.config
      /\ ctx'.sum
      /\ latest'[f] = [cycle |-> latest[f].cycle, owl |-> saves + 1, config |-> ctx.config]
      /\ \A g \in Files : g # f => latest'[g] = latest[g]
      /\ saves \in Nat
  BY DEF Creates, Sound, GameTypes
<1>2. FreshOwl(ctx')[1].save = ctx' /\ Valid(Owl(f), FreshOwl(ctx'))
  <2>1. ctx'.stamp > 0 /\ ctx'.whole /\ ctx'.sum
    BY <1>1
  <2>2. QED BY <1>1, <2>1, FreshIs
<1>3. ASSUME Undisturbed PROVE LatestIs(f, Main(f), FreshOwl(ctx'), latest'[f])
  <2>1. LatestIs(f, Main(f), Main(Owl(f)), latest[f]) /\ PlaysLatest(ctx, Main(f), latest[f])
    BY <1>3, LatestHere
  <2>2. /\ latest[f].cycle > 0 /\ latest[f].cycle # 0 /\ ctx.config = latest[f].config
        /\ Main(f)[1].save.cycling
    BY <1>3, <2>1, LatestHere DEF PlaysLatest
  <2>3. /\ Valid(f, Main(f)) /\ Main(f)[1].save.stamp = latest[f].cycle
        /\ Main(f)[1].save.config = latest[f].config
    BY <2>1, <2>2 DEF LatestIs
  <2>4. saves + 1 # 0
    BY <1>1
  <2>5. QED BY <1>1, <1>2, <2>2, <2>3, <2>4 DEF LatestIs
<1>4. QED BY <1>1, <1>3, LatestStep

\* What the game makes is the latest save.
LEMMA LatestPlay ==
  ASSUME Sound, Sound', KindInv, GameStep, LatestInv, Play
  PROVE  LatestInv'
<1> DEFINE f == fileNum
<1>0. f \in Files /\ left' = left /\ setting' = setting
  BY DEF Sound, GameTypes, GameStep
<1> HIDE DEF f
<1>1. \A i \in Tables : WillMain(i) = Main(i)
  BY PlayLeaves
<1>2. ~Valid(Owl(f), FreshOwl(Zeros))
  <2>1. Zeros \in SaveRecs /\ ~(Zeros.stamp > 0)
    BY Blank DEF Zeros
  <2>2. QED BY <1>0, <2>1, FreshIs
<1>3. CASE NewCycle
  <2>1. Leaves(f, FreshCycle(ctx'), FreshOwl(Zeros))
    BY <1>3, PlayLeaves DEF f
  <2>2. fileNum' = f /\ Creates(f, FALSE, FALSE, ctx.config, ctx.cycling, FALSE)
    BY <1>3, NewCycleDoes DEF f
  <2>3. QED BY <1>0, <1>2, <2>1, <2>2, LatestCycle
<1>4. CASE NewDay
  <2>1. Leaves(f, FreshCycle(ctx'), FreshOwl(Zeros))
    BY <1>4, PlayLeaves DEF f
  <2>2. fileNum' = f /\ Creates(f, ctx.owl, FALSE, ctx.config, ctx.cycling, ctx.owl) /\ phase = "play"
    BY <1>4, NewDayDoes DEF f
  <2>3. ctx.owl = FALSE
    BY <2>2 DEF KindInv, CtxInv, Sound, GameTypes, SaveRecs
  <2>4. Creates(f, FALSE, FALSE, ctx.config, ctx.cycling, FALSE)
    BY <2>2, <2>3
  <2>5. QED BY <1>0, <1>2, <2>1, <2>2, <2>4, LatestCycle
<1>5. CASE EnterClockTown
  <2>1. Leaves(f, FreshCycle(ctx'), Main(Owl(f)))
    BY <1>5, PlayLeaves DEF f
  <2>2. /\ fileNum' = f /\ Creates(f, FALSE, ctx.crash, ctx.config, TRUE, FALSE)
        /\ phase = "play" /\ ~ctx.cycling
    BY <1>5, EnterClockTownDoes DEF f
  <2>3. ASSUME Undisturbed PROVE ~Valid(Owl(f), Main(Owl(f)))
    <3>1. LatestIs(f, Main(f), Main(Owl(f)), latest[f]) /\ PlaysLatest(ctx, Main(f), latest[f])
      BY <1>0, <1>1, <2>2, <2>3, LatestHere DEF f
    <3>2. QED BY <2>2, <3>1 DEF LatestIs, PlaysLatest
  <2>4. QED BY <1>0, <2>1, <2>2, <2>3, LatestCycle
<1>6. CASE OwlSave
  <2>1. Leaves(f, Main(f), FreshOwl(ctx'))
    BY <1>6, PlayLeaves DEF f
  <2>2. /\ Creates(f, TRUE, FALSE, ctx.config, ctx.cycling, TRUE)
        /\ phase = "play" /\ phase' # "play" /\ ctx.cycling
    BY <1>6, OwlSaveDoes DEF f
  <2>3. f = fileNum
    BY DEF f
  <2>4. QED BY <1>0, <1>1, <2>1, <2>2, <2>3, LatestOwl
<1>7. CASE Crash
  <2>1. Leaves(f, Main(f), FreshOwl(ctx'))
    BY <1>7, PlayLeaves DEF f
  <2>2. /\ Creates(f, FALSE, TRUE, ctx.config, ctx.cycling, TRUE)
        /\ phase = "play" /\ phase' # "play" /\ (Undisturbed => ctx.cycling)
    BY <1>7, CrashDoes DEF f, Undisturbed
  <2>3. f = fileNum
    BY DEF f
  <2>4. QED BY <1>0, <1>1, <2>1, <2>2, <2>3, LatestOwl
<1>8. CASE MoonCrash
  <2>1. Leaves(f, Main(f), Main(Owl(f)))
    BY <1>8, PlayLeaves DEF f
  <2>2. /\ phase = "play" /\ fileNum' = f /\ latest' = latest /\ ctx.cycling
        /\ ctx' = Loaded(f)[1].save
    BY <1>8, MoonCrashDoes DEF f
  <2>3. ASSUME Undisturbed
        PROVE  /\ LatestIs(f, Main(f), Main(Owl(f)), latest'[f])
               /\ PlaysLatest(ctx', Main(f), latest'[f])
    <3>1. /\ LatestIs(f, Main(f), Main(Owl(f)), latest[f]) /\ PlaysLatest(ctx, Main(f), latest[f])
          /\ latest[f].cycle \in Nat
      BY <1>0, <1>1, <2>2, <2>3, LatestHere DEF f
    <3>2. latest[f].cycle > 0 /\ latest[f].cycle # 0 /\ Main(f)[1].save.cycling
      BY <2>2, <3>1 DEF PlaysLatest
    <3>3. Valid(f, Main(f)) /\ Main(f)[1].save.config = latest[f].config
      BY <3>1, <3>2 DEF LatestIs
    <3>4. ctx' = Main(f)[1].save
      BY <2>2, <3>3 DEF Loaded, Valid
    <3>5. QED BY <2>2, <3>1, <3>2, <3>3, <3>4 DEF PlaysLatest
  <2>4. QED BY <1>0, <2>1, <2>2, <2>3, LatestStep
<1>9. QED BY <1>3, <1>4, <1>5, <1>6, <1>7, <1>8 DEF Play

\* Steps that change no save and open none.
LEMMA LatestQuiet ==
  ASSUME Sound, LatestInv, \A i \in Tables : WillMain(i)' = WillMain(i), phase' # "play",
         latest' = latest, setting' = setting, left' = left
  PROVE  LatestInv'
<1>1. 0 \in Files
  BY DEF Files
<1>2. PICK f : f = 0
  OBVIOUS
<1>3. Leaves(f, WillMain(f), WillMain(Owl(f))) /\ f \in Files
  BY <1>1, <1>2 DEF Leaves
<1>4. Undisturbed => LatestIs(f, WillMain(f), WillMain(Owl(f)), latest'[f])
  BY <1>3 DEF LatestInv
<1>5. QED BY <1>3, <1>4, LatestStep

\* Steps that touch neither a save nor the game.
LEMMA LatestKept ==
  ASSUME LatestInv, \A i \in Tables : WillMain(i)' = WillMain(i), left'.cuts = left.cuts,
         UNCHANGED <<setting, phase, ctx, fileNum, latest>>
  PROVE  LatestInv'
<1>1. \A f \in Files : WillMain(f)' = WillMain(f) /\ WillMain(Owl(f))' = WillMain(Owl(f))
  BY Others
<1> SUFFICES ASSUME Undisturbed, NEW f \in Files
             PROVE  /\ left.cuts = 0
                    /\ LatestIs(f, WillMain(f), WillMain(Owl(f)), latest[f])
                    /\ phase = "play" /\ fileNum = f => PlaysLatest(ctx, WillMain(f), latest[f])
  BY <1>1 DEF LatestInv, Undisturbed, LatestIs, PlaysLatest, Valid, HasNewf
<1>2. QED BY DEF LatestInv

\* The flash thread makes no save.
LEMMA LatestFlash ==
  ASSUME Sound, ~GivenUp, LatestInv, FlashThread
  PROVE  LatestInv'
<1>1. /\ \A i \in Tables : WillMain(i)' = WillMain(i)
      /\ setting' = setting /\ UNCHANGED <<phase, ctx, fileNum, latest>> /\ left'.cuts = left.cuts
  BY WillFlash, AttemptKept DEF FlashThread, game, Sound
<1>2. QED BY <1>1, LatestKept

\* The menu changes one file at most.
LEMMA InfoStep ==
  ASSUME InfoInv, NEW f \in Files, NEW m, NEW o, Leaves(f, m, o), setting' = setting,
         phase = "select", phase' = "select",
         \A i \in Tables : i # f /\ i # Owl(f) => Tells(i)' = Tells(i),
         info'[f].used <=> Valid(f, m),
         FlagsRight /\ info'[Owl(f)].owl => Valid(Owl(f), o),
         FlagsSet /\ Valid(Owl(f), o) => info'[Owl(f)].owl
  PROVE  InfoInv'
<1>1. ASSUME NEW i \in Tables PROVE TellsRight(i, WillMain(i)', Tells(i)')
  <2>1. CASE i = f
    BY <2>1, Map DEF Leaves, TellsRight, Tells
  <2>2. CASE i = Owl(f) /\ i # f
    BY <2>2, Map DEF Leaves, TellsRight, Tells
  <2>3. CASE i # f /\ i # Owl(f)
    <3>1. WillMain(i)' = WillMain(i) /\ Tells(i)' = Tells(i)
      BY <2>3 DEF Leaves
    <3>2. TellsRight(i, WillMain(i), Tells(i))
      BY DEF InfoInv, Known
    <3>3. QED BY <3>1, <3>2
  <2>4. QED BY <2>1, <2>2, <2>3
<1>2. ASSUME NEW i \in Tables PROVE TellsRight(i, WillMain(i), Tells(i))'
  BY <1>1 DEF TellsRight, FlagsRight, FlagsSet, Valid, HasNewf
<1>3. QED BY <1>2 DEF InfoInv

\* A new file is shown.
LEMMA InfoInitSave ==
  ASSUME Sound, GameStep, InfoInv, NEW f \in Files, InitSave(f)
  PROVE  InfoInv'
<1>1. Leaves(f, FreshCycle(ctx'), Main(Owl(f))) /\ \A i \in Tables : WillMain(i) = Main(i)
  BY InitSaveLeaves
<1>2. /\ phase = "select" /\ phase' = "select" /\ ~info[f].used
      /\ info' = [info EXCEPT ![f].used = TRUE] /\ setting' = setting
      /\ Creates(f, FALSE, ctx.crash, 0, FALSE, FALSE)
  BY InitSaveDoes DEF GameStep
<1>3. Valid(f, FreshCycle(ctx'))
  <2>1. ctx' \in SaveRecs /\ ctx'.stamp > 0 /\ ~ctx'.whole /\ ctx'.sum
    BY <1>2 DEF Creates, Sound, GameTypes
  <2>2. QED BY <2>1, FreshIs
<1>4. info \in [Tables -> [used : BOOLEAN, owl : BOOLEAN]] /\ f \in Tables
  BY Map DEF Sound, GameTypes
<1>5. \A i \in Tables : /\ info'[i].owl = info[i].owl
                        /\ info'[i].used = IF i = f THEN TRUE ELSE info[i].used
  BY <1>2, <1>4
<1>6. \A i \in Tables : i # f => Tells(i)' = Tells(i)
  BY <1>5 DEF Tells
<1>7. info'[f].used /\ info'[Owl(f)].owl = info[Owl(f)].owl
  BY <1>4, <1>5, Others
<1>8. QED BY <1>1, <1>2, <1>3, <1>6, <1>7, InfoHere, InfoStep

\* An erased file is not shown, nor its owl save.
LEMMA InfoEraseSave ==
  ASSUME Sound, GameStep, InfoInv, NEW f \in Files, EraseSave(f)
  PROVE  InfoInv'
<1> DEFINE o == IF info[Owl(f)].owl THEN FreshOwl(Zeros) ELSE Main(Owl(f))
<1>1. Leaves(f, FreshCycle(Zeros), o) /\ \A i \in Tables : WillMain(i) = Main(i)
  BY EraseSaveLeaves
<1>2. /\ phase = "select" /\ phase' = "select" /\ setting' = setting
      /\ info' = [info EXCEPT ![f].used = FALSE, ![Owl(f)].owl = FALSE]
  BY EraseSaveDoes DEF GameStep
<1>3. ~Valid(f, FreshCycle(Zeros)) /\ ~Valid(Owl(f), FreshOwl(Zeros))
  <2>1. Zeros \in SaveRecs /\ ~(Zeros.stamp > 0)
    BY Blank DEF Zeros
  <2>2. QED BY <2>1, FreshIs
<1>4. /\ info'[f].used = FALSE /\ info'[Owl(f)].owl = FALSE
      /\ \A i \in Tables : /\ i # f => info'[i].used = info[i].used
                           /\ i # Owl(f) => info'[i].owl = info[i].owl
  <2>1. PICK no \in BOOLEAN : no = FALSE
    OBVIOUS
  <2>2. info' = [info EXCEPT ![f].used = no, ![Owl(f)].owl = no]
    BY <1>2, <2>1
  <2>3. GameTypes /\ f \in Tables /\ Owl(f) \in Tables
    BY Others DEF Sound
  <2>4. /\ info' \in [Tables -> [used : BOOLEAN, owl : BOOLEAN]]
        /\ (info'[f].used <=> no) /\ (info'[Owl(f)].owl <=> no)
        /\ \A i \in Tables : /\ i # f => info'[i].used = info[i].used
                             /\ i # Owl(f) => info'[i].owl = info[i].owl
    BY <2>2, <2>3, TwoFlags
  <2>5. QED BY <2>1, <2>3, <2>4
<1>5. \A i \in Tables : i # f /\ i # Owl(f) => Tells(i)' = Tells(i)
  <2>1. \A i \in Tables : /\ i # f => info'[i].used = info[i].used
                          /\ i # Owl(f) => info'[i].owl = info[i].owl
    BY <1>4, Zenon
  <2>2. QED BY <2>1 DEF Tells
<1>6. info'[f].used = FALSE /\ info'[Owl(f)].owl = FALSE
  BY <1>4
<1>7. FlagsSet => ~Valid(Owl(f), o)
  BY <1>1, <1>2, <1>3, InfoHere
<1> HIDE DEF o
<1>8. QED BY <1>1, <1>2, <1>3, <1>5, <1>6, <1>7, InfoStep

\* A copy is shown, without an owl save.
LEMMA InfoCopySave ==
  ASSUME Sound, KindInv, GameStep, InfoInv, LatestInv,
         NEW src \in Files, NEW dst \in Files, CopySave(src, dst)
  PROVE  InfoInv'
<1> DEFINE o == IF info[Owl(src)].owl THEN Main(Owl(src)) ELSE Main(Owl(dst))
           b == HasNewf(Main(src))
           c == Occupied(Main(src)).owl
<1>1. Leaves(dst, Main(src), o) /\ \A i \in Tables : WillMain(i) = Main(i)
  BY CopySaveLeaves
<1>2. /\ phase = "select" /\ phase' = "select" /\ setting' = setting
      /\ info' = [info EXCEPT ![dst].used = b, ![Owl(dst)].owl = c]
      /\ info[src].used /\ ~info[dst].used /\ (info[Owl(src)].owl => setting.copies = "owl")
      /\ setting.copies # "none"
  BY CopySaveDoes DEF GameStep
<1>3. /\ c = (Main(src)[1].save.owl \/ Main(src)[1].save.crash)
      /\ Main(src)[1].save \in SaveRecs
  BY MainIs DEF Occupied
<1>4. b \in BOOLEAN /\ c \in BOOLEAN
  BY <1>3 DEF SaveRecs, HasNewf
<1>5. Valid(src, Main(src)) /\ b /\ Valid(dst, Main(src)) /\ ~Valid(dst, Main(dst))
  <2>1. Valid(src, Main(src)) /\ ~Valid(dst, Main(dst))
    BY <1>1, <1>2, InfoHere
  <2>2. Valid(dst, Main(src))
    BY <2>1, MainIs, GoodCycle
  <2>3. QED BY <2>1, <2>2 DEF Valid
<1>6. FlagsRight => ~c
  <2>1. FlagsRight => ~setting.crashesEarly
    BY <1>2 DEF FlagsRight
  <2>2. QED BY <1>3, <2>1, OwlKind
<1>7. FlagsSet => ~Valid(Owl(dst), o)
  <2> SUFFICES ASSUME FlagsSet PROVE ~Valid(Owl(dst), o)
    OBVIOUS
  <2>1. setting.copies = "cycle" /\ ~setting.crashesEarly /\ setting.cuts = 0
    BY <1>2 DEF FlagsSet, FlagsRight
  <2>2. Undisturbed /\ ~info[Owl(src)].owl
    BY <1>2, <2>1 DEF Undisturbed
  <2>3. LatestIs(dst, Main(dst), Main(Owl(dst)), latest[dst])
    BY <1>1, <2>2, LatestHere
  <2>4. ~Valid(Owl(dst), Main(Owl(dst)))
    BY <1>5, <2>3 DEF LatestIs, None
  <2>5. QED BY <2>2, <2>4
<1> HIDE DEF o, b, c
<1>8. /\ (info'[dst].used <=> b) /\ (info'[Owl(dst)].owl <=> c)
      /\ \A i \in Tables : /\ i # dst => info'[i].used = info[i].used
                           /\ i # Owl(dst) => info'[i].owl = info[i].owl
  <2>1. PICK d \in BOOLEAN, e \in BOOLEAN : d = b /\ e = c
    BY <1>4
  <2>2. info' = [info EXCEPT ![dst].used = d, ![Owl(dst)].owl = e]
    BY <1>2, <2>1
  <2>3. GameTypes /\ dst \in Tables /\ Owl(dst) \in Tables
    BY Others DEF Sound
  <2>4. /\ (info'[dst].used <=> d) /\ (info'[Owl(dst)].owl <=> e)
        /\ \A i \in Tables : /\ i # dst => info'[i].used = info[i].used
                             /\ i # Owl(dst) => info'[i].owl = info[i].owl
    BY <2>2, <2>3, TwoFlags
  <2>5. QED BY <2>1, <2>4
<1>9. \A i \in Tables : i # dst /\ i # Owl(dst) => Tells(i)' = Tells(i)
  <2>1. \A i \in Tables : /\ i # dst => info'[i].used = info[i].used
                          /\ i # Owl(dst) => info'[i].owl = info[i].owl
    BY <1>8, Zenon
  <2>2. QED BY <2>1 DEF Tells
<1>10. QED BY <1>1, <1>2, <1>5, <1>6, <1>7, <1>8, <1>9, InfoStep

\* A save stays good when its configuration is changed.
LEMMA InfoSaveChaosConfig ==
  ASSUME Sound, GameStep, InfoInv, NEW f \in Files, NEW c \in {0, 1}, SaveChaosConfig(f, c)
  PROVE  InfoInv'
<1> DEFINE m == WithConfig(Main(f), c)
           o == IF info[Owl(f)].owl THEN WithConfig(Main(Owl(f)), c) ELSE Main(Owl(f))
<1>1. Leaves(f, m, o) /\ \A i \in Tables : WillMain(i) = Main(i)
  BY ConfigLeaves
<1>2. /\ phase = "select" /\ phase' = "select" /\ setting' = setting /\ info' = info
      /\ info[f].used
  BY SaveChaosConfigDoes DEF GameStep
<1>3. /\ Valid(f, Main(f)) => Valid(f, m)
      /\ Valid(Owl(f), Main(Owl(f))) => Valid(Owl(f), WithConfig(Main(Owl(f)), c))
  BY ConfigGood
<1>4. /\ info[f].used <=> Valid(f, Main(f))
      /\ FlagsRight /\ info[Owl(f)].owl => Valid(Owl(f), Main(Owl(f)))
      /\ FlagsSet /\ Valid(Owl(f), Main(Owl(f))) => info[Owl(f)].owl
  BY <1>1, <1>2, InfoHere
<1>5. /\ FlagsRight /\ info[Owl(f)].owl => Valid(Owl(f), o)
      /\ FlagsSet /\ Valid(Owl(f), o) => info[Owl(f)].owl
  BY <1>3, <1>4
<1>6. \A i \in Tables : Tells(i)' = Tells(i)
  BY <1>2 DEF Tells
<1> HIDE DEF m, o
<1>7. QED BY <1>1, <1>2, <1>3, <1>4, <1>5, <1>6, InfoStep

\* A step that changes no save, in the menu or while booting.
LEMMA InfoKept ==
  ASSUME InfoInv, \A i \in Tables : WillMain(i)' = WillMain(i), setting' = setting, info' = info,
         phase' = "select" \/ phase' = "boot" => phase' = phase /\ file' = file
  PROVE  InfoInv'
<1>1. ASSUME NEW i \in Tables, Known(i)' PROVE TellsRight(i, WillMain(i), Tells(i))'
  <2>1. Known(i)
    BY <1>1 DEF Known
  <2>2. TellsRight(i, WillMain(i), Tells(i))
    BY <2>1 DEF InfoInv
  <2>3. WillMain(i)' = WillMain(i)
    OBVIOUS
  <2>4. QED BY <2>2, <2>3 DEF TellsRight, Tells, FlagsRight, FlagsSet, Valid, HasNewf
<1>2. phase' = "boot" => \A i \in Tables : i >= file' => info'[i] = NoInfo
  BY DEF InfoInv
<1>3. QED BY <1>1, <1>2 DEF InfoInv

\* The checks of the start, of one save after the other.
LEMMA InfoCheckGood ==
  ASSUME Sound, KindInv, GameStep, InfoInv, CheckFile, CheckGood
  PROVE  InfoInv'
<1>1. /\ file \in Tables /\ file' = file + 1 /\ phase = "boot" /\ phase' = "boot" /\ todo = <<>>
      /\ info' = [info EXCEPT ![file] = Occupied(Main(file))] /\ setting' = setting
      /\ Valid(file, Main(file))
  BY CheckGoodDoes DEF CheckGood, Flash, GameStep
<1>2. \A i \in Tables : WillMain(i)' = Main(i) /\ WillMain(i) = Main(i)
  BY <1>1, Repaired, Settled
<1>3. info \in [Tables -> [used : BOOLEAN, owl : BOOLEAN]] /\ file \in Nat
  BY <1>1 DEF Sound, GameTypes, Tables
<1>4. \A i \in Tables : info'[i] = IF i = file THEN Occupied(Main(file)) ELSE info[i]
  BY <1>1, <1>3
<1>5. \A i \in Tables : /\ i < file' => i < file \/ i = file
                        /\ i >= file' => i >= file /\ i # file
  BY <1>1, <1>3 DEF Tables
<1>6. ASSUME NEW i \in Tables, i = file PROVE TellsRight(i, Main(i), Tells(i)')
  <2>1. CASE i \in Files
    <3>1. Tells(i)'
      BY <1>4, <1>6, <2>1 DEF Tells, Occupied
    <3>2. QED BY <1>1, <1>6, <2>1, <3>1 DEF TellsRight
  <2>2. CASE i \notin Files
    <3>1. PICK f \in Files : i = Owl(f)
      BY <2>2, Map
    <3>2. Main(i)[1].save.owl \/ Main(i)[1].save.crash
      BY <1>1, <1>6, <3>1, OwlKind
    <3>3. info'[i] = [used |-> TRUE, owl |-> Main(i)[1].save.owl \/ Main(i)[1].save.crash]
      BY <1>4, <1>6 DEF Occupied
    <3>4. Tells(i)'
      <4>1. info'[i].owl = (Main(i)[1].save.owl \/ Main(i)[1].save.crash)
        BY <3>3
      <4>2. info'[i].owl
        BY <3>2, <4>1
      <4>3. QED BY <2>2, <4>2 DEF Tells
    <3>5. QED BY <1>1, <1>6, <2>2, <3>4 DEF TellsRight
  <2>3. QED BY <2>1, <2>2
<1>7. ASSUME NEW i \in Tables, i < file' PROVE TellsRight(i, WillMain(i), Tells(i))'
  <2>1. TellsRight(i, WillMain(i)', Tells(i)')
    <3>1. CASE i = file
      BY <1>2, <1>6, <3>1
    <3>2. CASE i # file
      <4>1. TellsRight(i, WillMain(i), Tells(i))
        BY <1>1, <1>5, <1>7, <3>2 DEF InfoInv, Known
      <4>2. Tells(i)' = Tells(i) /\ WillMain(i)' = WillMain(i)
        BY <1>2, <1>4, <3>2 DEF Tells
      <4>3. QED BY <4>1, <4>2
    <3>3. QED BY <3>1, <3>2
  <2>2. QED BY <1>1, <2>1 DEF TellsRight, FlagsRight, FlagsSet, Valid, HasNewf
<1>8. \A i \in Tables : i >= file' => info'[i] = NoInfo
  BY <1>1, <1>4, <1>5 DEF InfoInv
<1>9. QED BY <1>1, <1>7, <1>8 DEF InfoInv, Known

\* A bad save is not shown.
LEMMA InfoCheckBad ==
  ASSUME Sound, GameStep, InfoInv, CheckFile, CheckEmpty \/ CheckBackup
  PROVE  InfoInv'
<1>1. /\ Sent({}, <<>>, <<>>) /\ file \in Tables /\ phase = "boot" /\ info' = info /\ setting' = setting
      /\ ~Valid(file, Main(file)) /\ \/ file' = file + 1 /\ phase' = "boot"
                                     \/ phase' = "hung"
  BY CheckBadDoes DEF GameStep
<1>2. todo = <<>>
  BY <1>1 DEF Sent
<1>3. \A i \in Tables : WillMain(i)' = Main(i) /\ WillMain(i) = Main(i)
  BY <1>1, <1>2, Settled, WillSent
<1>4. CASE phase' = "hung"
  BY <1>4 DEF InfoInv, Known
<1>5. CASE file' = file + 1 /\ phase' = "boot"
  <2>1. file \in Nat /\ info[file] = NoInfo
    BY <1>1 DEF InfoInv, Tables
  <2>2. \A i \in Tables : /\ i < file' => i < file \/ i = file
                          /\ i >= file' => i >= file
    BY <1>5, <2>1 DEF Tables
  <2>3. ASSUME NEW i \in Tables, i < file' PROVE TellsRight(i, WillMain(i), Tells(i))'
    <3>1. Tells(i)' = Tells(i) /\ WillMain(i)' = WillMain(i)
      BY <1>1, <1>3 DEF Tells
    <3>2. TellsRight(i, WillMain(i), Tells(i))
      <4>1. CASE i = file
        BY <1>1, <1>3, <2>1, <4>1 DEF TellsRight, Tells, NoInfo
      <4>2. CASE i # file
        BY <1>1, <2>2, <2>3, <4>2 DEF InfoInv, Known
      <4>3. QED BY <4>1, <4>2
    <3>3. QED BY <1>1, <3>1, <3>2 DEF TellsRight, FlagsRight, FlagsSet, Valid, HasNewf
  <2>4. \A i \in Tables : i >= file' => info'[i] = NoInfo
    BY <1>1, <2>2 DEF InfoInv
  <2>5. QED BY <1>5, <2>3, <2>4 DEF InfoInv, Known
<1>6. QED BY <1>1, <1>4, <1>5

\* When the console is switched on nothing is known.
LEMMA InfoBoot == ASSUME Boot PROVE InfoInv'
<1>1. phase' = "boot" /\ file' = 0 /\ info' = [i \in Tables |-> NoInfo]
  BY DEF Boot
<1>2. \A i \in Tables : ~(i < 0)
  BY DEF Tables
<1>3. QED BY <1>1, <1>2 DEF InfoInv, Known

\* When all is checked all is known.
LEMMA InfoFilesChecked ==
  ASSUME Sound, GameStep, InfoInv, FilesChecked
  PROVE  InfoInv'
<1>1. /\ Sent({}, <<>>, <<>>) /\ phase = "boot" /\ phase' = "select" /\ file = 4 /\ info' = info
      /\ setting' = setting
  BY FilesCheckedDoes DEF GameStep
<1>2. todo = <<>>
  BY <1>1 DEF Sent
<1>3. \A i \in Tables : WillMain(i)' = WillMain(i) /\ i < file
  BY <1>1, <1>2, Settled, WillSent DEF Tables
<1>4. ASSUME NEW i \in Tables PROVE TellsRight(i, WillMain(i), Tells(i))'
  <2>1. TellsRight(i, WillMain(i), Tells(i))
    BY <1>1, <1>3 DEF InfoInv, Known
  <2>2. QED BY <1>1, <1>3, <2>1 DEF TellsRight, Tells, FlagsRight, FlagsSet, Valid, HasNewf
<1>5. QED BY <1>1, <1>4 DEF InfoInv

\* What the file select screen knows and what is the latest, together.
TablesInv == Sound /\ KindInv /\ InfoInv /\ LatestInv

\* The file select screen.
LEMMA MenuKeeps ==
  ASSUME TablesInv, Sound', GameStep, NEW f \in Files,
         \/ InitSave(f) \/ EraseSave(f) \/ OpenSave(f)
         \/ (\E g \in Files : CopySave(f, g))
         \/ (\E c \in {0, 1} : SaveChaosConfig(f, c))
  PROVE  InfoInv' /\ LatestInv'
<1>1. Sound /\ KindInv /\ InfoInv /\ LatestInv
  BY DEF TablesInv
<1>2. CASE InitSave(f)
  BY <1>1, <1>2, InfoInitSave, LatestInitSave
<1>3. CASE EraseSave(f)
  BY <1>1, <1>3, InfoEraseSave, LatestEraseSave
<1>4. CASE OpenSave(f)
  <2>1. phase' = "play"
    BY <1>4, OpenSaveDoes
  <2>2. InfoInv'
    BY <2>1 DEF InfoInv, Known
  <2>3. QED BY <1>1, <1>4, <2>2, LatestOpenSave
<1>5. CASE \E g \in Files : CopySave(f, g)
  BY <1>1, <1>5, InfoCopySave, LatestCopySave
<1>6. CASE \E c \in {0, 1} : SaveChaosConfig(f, c)
  BY <1>1, <1>6, InfoSaveChaosConfig, LatestSaveChaosConfig
<1>7. QED BY <1>2, <1>3, <1>4, <1>5, <1>6

\* The start, and switching off.
LEMMA BootingKeeps ==
  ASSUME TablesInv, GameStep, Booting \/ SwitchOff
  PROVE  InfoInv' /\ LatestInv'
<1>1. Sound /\ KindInv /\ InfoInv /\ LatestInv
  BY DEF TablesInv
<1>2. left' = left /\ setting' = setting
  BY DEF GameStep
<1>3. ASSUME CheckFile, CheckGood PROVE InfoInv' /\ LatestInv'
  <2>1. phase' = "boot" /\ latest' = latest /\ todo = <<>>
    BY <1>3, CheckGoodDoes DEF CheckGood, Flash
  <2>2. \A i \in Tables : WillMain(i)' = WillMain(i)
    BY <1>1, <1>3, <2>1, Repaired, Settled
  <2>3. QED BY <1>1, <1>2, <1>3, <2>1, <2>2, InfoCheckGood, LatestQuiet
<1>4. ASSUME Sent({}, <<>>, <<>>), phase' # "play", latest' = latest PROVE LatestInv'
  <2>1. todo = <<>>
    BY <1>4 DEF Sent
  <2>2. \A i \in Tables : WillMain(i)' = WillMain(i)
    BY <1>1, <1>4, <2>1, Settled, WillSent
  <2>3. QED BY <1>1, <1>2, <1>4, <2>2, LatestQuiet
<1>5. ASSUME CheckFile, CheckEmpty \/ CheckBackup PROVE InfoInv' /\ LatestInv'
  BY <1>1, <1>4, <1>5, InfoCheckBad, CheckBadDoes
<1>6. ASSUME FilesChecked PROVE InfoInv' /\ LatestInv'
  BY <1>1, <1>4, <1>6, InfoFilesChecked, FilesCheckedDoes
<1>7. ASSUME SwitchOff PROVE InfoInv' /\ LatestInv'
  <2>1. Sent({}, <<>>, <<>>) /\ Boot
    BY <1>7, SwitchOffDoes
  <2>2. QED BY <1>4, <2>1, InfoBoot DEF Boot
<1>8. QED BY <1>3, <1>5, <1>6, <1>7 DEF Booting, CheckFile

\* Every step keeps both.
LEMMA TablesNext == TablesInv /\ [Next]_vars /\ [~GivenUp]_vars => TablesInv'
<1> SUFFICES ASSUME TablesInv, [Next]_vars, [~GivenUp]_vars
             PROVE  InfoInv' /\ LatestInv'
  BY SoundNext, KindNext DEF TablesInv
<1>1. Sound /\ KindInv /\ InfoInv /\ LatestInv /\ Sound' /\ ~GivenUp
  BY SoundNext, NotOnStuttering DEF TablesInv, Sound
<1>2. CASE FlashThread
  <2>1. \A i \in Tables : WillMain(i)' = WillMain(i)
    BY <1>1, <1>2, WillFlash
  <2>2. setting' = setting /\ info' = info /\ phase' = phase /\ file' = file
    BY <1>2 DEF FlashThread, game
  <2>3. QED BY <1>1, <1>2, <2>1, <2>2, InfoKept, LatestFlash
<1>3. CASE PowerCut
  <2>1. Boot /\ setting' = setting /\ left.cuts > 0
    BY <1>1, <1>3, PowerCutDoes DEF Sound
  <2>2. InfoInv'
    BY <2>1, InfoBoot
  <2>3. ~Undisturbed
    BY <1>1, <2>1 DEF LatestInv
  <2>4. ~(Undisturbed')
    BY <2>1, <2>3 DEF Undisturbed
  <2>5. QED BY <2>2, <2>4 DEF LatestInv
<1>4. CASE (Booting \/ Menu \/ Play \/ SwitchOff) /\ UNCHANGED <<left, setting>>
  <2>1. GameStep
    BY <1>1, <1>4 DEF GameStep, Sound
  <2>2. CASE Booting \/ SwitchOff
    BY <2>1, <2>2, BootingKeeps
  <2>3. CASE Menu
    BY <1>1, <2>1, <2>3, MenuKeeps DEF Menu
  <2>4. CASE Play
    <3>1. phase' # "select" /\ phase' # "boot"
      BY <2>4 DEF Play, NewCycle, NewDay, EnterClockTown, OwlSave, Crash, MoonCrash
    <3>2. InfoInv'
      BY <3>1 DEF InfoInv, Known
    <3>3. QED BY <1>1, <2>1, <2>4, <3>2, LatestPlay
  <2>5. QED BY <1>4, <2>2, <2>3, <2>4
<1>5. CASE UNCHANGED vars
  <2>1. /\ flash' = flash /\ todo' = todo /\ setting' = setting /\ info' = info /\ phase' = phase
        /\ file' = file /\ ctx' = ctx /\ fileNum' = fileNum /\ latest' = latest /\ left' = left
    BY <1>5 DEF vars, game
  <2>2. \A i \in Tables : WillMain(i)' = WillMain(i)
    BY <2>1 DEF WillMain, Will, Writes
  <2>3. InfoInv'
    BY <1>1, <2>1, <2>2, InfoKept
  <2>4. LatestInv'
    BY <1>1, <2>1, <2>2, LatestKept
  <2>5. QED BY <2>3, <2>4
<1>6. QED BY <1>2, <1>3, <1>4, <1>5 DEF Next

\* At the start no save is known, and none is there.
LEMMA TablesInit == Init => TablesInv
<1> SUFFICES ASSUME Init PROVE InfoInv /\ LatestInv
  BY SoundInit, KindInit DEF TablesInv
<1>1. InfoInv
  BY DEF Init, InfoInv, Known, Tables
<1>2. Sound /\ todo = <<>>
  BY SoundInit DEF Init
<1>3. \A f \in Files : WillMain(f) = Main(f) /\ WillMain(Owl(f)) = Main(Owl(f))
  BY <1>2, Settled, Others
<1>4. ASSUME Undisturbed, NEW f \in Files
      PROVE  LatestIs(f, Main(f), Main(Owl(f)), latest[f])
  <2>1. /\ Main(f)[1] = flash[MainStart(f)] /\ Main(Owl(f))[1] = flash[MainStart(Owl(f))]
        /\ MainStart(f) \in Units /\ MainStart(Owl(f)) \in Units
    BY <1>2, LoadedIs, Others, Map, Sectors DEF Sound
  <2>2. Main(f)[1].save = Torn /\ Main(Owl(f))[1].save = Torn
    BY <2>1 DEF Init
  <2>3. Torn.stamp = -1 /\ ~(Torn.stamp > 0) /\ Torn.stamp <= 0
    BY Blank
  <2>4. ~Valid(Owl(f), Main(Owl(f)))
    BY <2>2, <2>3 DEF Valid, HasNewf
  <2>5. latest[f] = None
    BY DEF Init
  <2>6. QED BY <2>2, <2>3, <2>4, <2>5 DEF LatestIs, None
<1>5. Undisturbed => left.cuts = 0
  BY DEF Init, Undisturbed
<1>6. phase # "play"
  BY DEF Init
<1>7. QED BY <1>1, <1>3, <1>4, <1>5, <1>6 DEF LatestInv

\* What is shown is there, and what is latest is what opens.
LEMMA TablesAlways == Spec /\ NeverGivesUp => []TablesInv
BY TablesInit, TablesNext, PTL DEF Spec, NeverGivesUp

\* What the file select screen believes is what the flash holds, if no write is given up
\* (InfoTrue).
THEOREM InfoIsAlwaysTrue == Spec /\ NeverGivesUp => []InfoTrue
<1>1. TablesInv => InfoTrue
  <2> SUFFICES ASSUME TablesInv, phase = "select", todo = <<>>, NEW f \in Files
               PROVE  LET owl == Valid(Owl(f), Main(Owl(f))) IN
                      /\ info[f].used <=> Valid(f, Main(f))
                      /\ FlagsRight /\ info[Owl(f)].owl => owl
                      /\ FlagsSet /\ owl => info[Owl(f)].owl
    BY DEF InfoTrue
  <2>1. \A i \in Tables : WillMain(i) = Main(i)
    BY Settled DEF TablesInv
  <2>2. QED BY <2>1, InfoHere DEF TablesInv
<1>2. QED BY <1>1, TablesAlways, PTL

\* Which file is opened when the game begins.
LEMMA OpensFile ==
  ASSUME Sound, [Next]_vars, phase = "select", phase' = "play"
  PROVE  GameStep /\ \E f \in Files : OpenSave(f) /\ fileNum' = f
<1>1. (Booting \/ Menu \/ Play \/ SwitchOff) /\ UNCHANGED <<left, setting>>
  BY DEF Next, FlashThread, PowerCut, Boot, game, vars
<1>2. GameStep
  BY <1>1 DEF GameStep, Sound
<1>3. ~Booting /\ ~SwitchOff /\ ~Play
  BY DEF Booting, CheckFile, FilesChecked, SwitchOff, Boot, Play,
         NewCycle, NewDay, EnterClockTown, OwlSave, Crash, MoonCrash
<1>4. PICK f \in Files : \/ InitSave(f) \/ EraseSave(f) \/ OpenSave(f)
                         \/ (\E g \in Files : CopySave(f, g))
                         \/ (\E c \in {0, 1} : SaveChaosConfig(f, c))
  BY <1>1, <1>3 DEF Menu
<1>5. OpenSave(f)
  BY <1>4 DEF InitSave, EraseSave, CopySave, SaveChaosConfig
<1>6. QED BY <1>2, <1>5 DEF OpenSave

\* What is opened is whole.
LEMMA OpensWhole ==
  ASSUME TablesInv, NEW f \in Files, GameStep, OpenSave(f)
  PROVE  /\ \A i \in Tables : WillMain(i) = Main(i)
         /\ phase = "select" /\ Valid(f, Main(f))
         /\ FlagsRight => Valid(Opened(f), Main(Opened(f))) /\ Loaded(Opened(f)) = Main(Opened(f))
<1>1. /\ \A i \in Tables : WillMain(i) = Main(i)
      /\ phase = "select" /\ info[f].used
  BY OpenSaveLeaves, OpenSaveDoes DEF TablesInv
<1>2. Valid(f, Main(f)) /\ (FlagsRight /\ info[Owl(f)].owl => Valid(Owl(f), Main(Owl(f))))
  BY <1>1, InfoHere DEF TablesInv
<1>3. FlagsRight => Valid(Opened(f), Main(Opened(f)))
  BY <1>2 DEF Opened
<1>4. FlagsRight => Loaded(Opened(f)) = Main(Opened(f))
  BY <1>3 DEF Loaded, Valid
<1>5. QED BY <1>1, <1>2, <1>3, <1>4

\* What is loaded is never a save that was cut off, if no write is given up (LoadsWhole).
THEOREM LoadsAlwaysWhole == Spec /\ NeverGivesUp => LoadsWhole
<1>1. TablesInv /\ [Next]_vars =>
        (phase = "select" /\ phase' = "play" /\ FlagsRight =>
           Valid(Opened(fileNum'), Loaded(Opened(fileNum'))))
  <2> SUFFICES ASSUME TablesInv, [Next]_vars, phase = "select", phase' = "play", FlagsRight
               PROVE  Valid(Opened(fileNum'), Loaded(Opened(fileNum')))
    OBVIOUS
  <2>1. GameStep /\ \E f \in Files : OpenSave(f) /\ fileNum' = f
    BY OpensFile DEF TablesInv
  <2>2. PICK f \in Files : OpenSave(f) /\ fileNum' = f
    BY <2>1
  <2>3. Valid(Opened(f), Loaded(Opened(f)))
    BY <2>1, <2>2, OpensWhole
  <2>4. QED BY <2>2, <2>3
<1>2. QED BY <1>1, TablesAlways, PTL DEF Spec, LoadsWhole

\* Without power cuts the newest save is opened, if no write is given up (OpensLatest).
THEOREM AlwaysOpensLatest == Spec /\ NeverGivesUp => OpensLatest
<1>1. TablesInv /\ [Next]_vars =>
        ((/\ phase = "select" /\ phase' = "play"
          /\ setting.cuts = 0 /\ setting.copies # "owl" /\ ~setting.crashesEarly)
         => LET newest == latest[fileNum'] IN
            /\ ctx'.stamp = IF newest.owl > 0 THEN newest.owl ELSE newest.cycle
            /\ ctx'.config = newest.config)
  <2> SUFFICES ASSUME TablesInv, [Next]_vars, phase = "select", phase' = "play", Undisturbed
               PROVE  LET newest == latest[fileNum'] IN
                      /\ ctx'.stamp = IF newest.owl > 0 THEN newest.owl ELSE newest.cycle
                      /\ ctx'.config = newest.config
    BY DEF Undisturbed
  <2>1. GameStep /\ \E f \in Files : OpenSave(f) /\ fileNum' = f
    BY OpensFile DEF TablesInv
  <2>2. PICK f \in Files : OpenSave(f) /\ fileNum' = f
    BY <2>1
  <2> DEFINE l == latest[f]
             s == Loaded(Opened(f))[1].save
  <2>3. /\ s \in SaveRecs /\ ctx' = [s EXCEPT !.owl = FALSE]
        /\ l \in [cycle : Nat, owl : Nat, config : {0, 1}]
    BY <2>1, <2>2, OpenSaveDoes DEF TablesInv, Sound, GameTypes
  <2>4. ctx'.stamp = s.stamp /\ ctx'.config = s.config
    BY <2>3 DEF SaveRecs
  <2>5. /\ \A i \in Tables : WillMain(i) = Main(i)
        /\ Valid(f, Main(f)) /\ FlagsRight /\ FlagsSet
        /\ s = Main(Opened(f))[1].save
    BY <2>1, <2>2, OpensWhole, FlagsThen DEF TablesInv
  <2> HIDE DEF s
  <2>6. /\ LatestIs(f, Main(f), Main(Owl(f)), l)
        /\ Valid(Owl(f), Main(Owl(f))) <=> info[Owl(f)].owl
    BY <2>5, LatestHere, InfoHere DEF TablesInv
  <2>7. l.cycle # 0 /\ (Valid(Owl(f), Main(Owl(f))) <=> l.owl # 0)
    BY <2>5, <2>6, LatestGood DEF TablesInv
  <2>8. CASE info[Owl(f)].owl
    <3>1. Opened(f) = Owl(f) /\ l.owl > 0
      BY <2>3, <2>6, <2>7, <2>8 DEF Opened
    <3>2. QED BY <2>2, <2>4, <2>5, <2>6, <2>7, <2>8, <3>1 DEF LatestIs
  <2>9. CASE ~info[Owl(f)].owl
    <3>1. Opened(f) = f /\ ~(l.owl > 0)
      BY <2>3, <2>6, <2>7, <2>9 DEF Opened
    <3>2. QED BY <2>2, <2>4, <2>5, <2>6, <2>7, <3>1 DEF LatestIs
  <2>10. QED BY <2>8, <2>9
<1>2. QED BY <1>1, TablesAlways, PTL DEF Spec, OpensLatest

\* No more saves are made, and no more power cuts come, than the setting says.
Bounded(l, n) == l.cycle <= n /\ l.owl <= n
BoundsInv ==
  /\ saves <= setting.saves /\ left.cuts <= setting.cuts
  /\ \A f \in Files : Bounded(latest[f], saves)

\* A save that is made is the last one so far.
LEMMA BoundsMade ==
  ASSUME Sound, BoundsInv, Sound', setting' = setting, left' = left, fileNum' \in Files, NEW s, Made(s)
  PROVE  BoundsInv'
<1>1. /\ saves \in Nat /\ saves' = saves + 1 /\ setting.saves \in Nat /\ saves < setting.saves
      /\ latest \in [Files -> [cycle : Nat, owl : Nat, config : {0, 1}]]
      /\ latest' = [latest EXCEPT ![fileNum'] =
                      [cycle |-> IF s.whole THEN @.cycle ELSE saves + 1,
                       owl |-> IF s.whole THEN saves + 1 ELSE 0, config |-> s.config]]
  BY SettingsAssumption DEF Sound, GameTypes, FlashTypes, Made
<1>2. ASSUME NEW f \in Files PROVE Bounded(latest'[f], saves')
  <2>1. latest[f].cycle \in Nat /\ latest[f].owl \in Nat /\ Bounded(latest[f], saves)
    BY <1>1 DEF BoundsInv
  <2>2. CASE f = fileNum'
    <3>1. latest'[f] = [cycle |-> IF s.whole THEN latest[f].cycle ELSE saves + 1,
                        owl |-> IF s.whole THEN saves + 1 ELSE 0, config |-> s.config]
      BY <1>1, <2>2
    <3>2. latest'[f].cycle \in {latest[f].cycle, saves + 1} /\ latest'[f].owl \in {saves + 1, 0}
      BY <3>1
    <3>3. QED BY <1>1, <2>1, <3>2 DEF Bounded
  <2>3. CASE f # fileNum'
    <3>1. latest'[f] = latest[f]
      BY <1>1, <2>3
    <3>2. QED BY <1>1, <2>1, <3>1 DEF Bounded
  <2>4. QED BY <2>2, <2>3
<1>3. saves' <= setting.saves
  BY <1>1
<1>4. QED BY <1>2, <1>3 DEF BoundsInv, Bounded

\* Every other step makes no save, and takes what it notes as latest from what is noted.
LEMMA BoundsOld ==
  ASSUME Sound, BoundsInv, setting' = setting, left'.cuts <= left.cuts, left'.cuts \in Nat,
         saves' = saves,
         \A f \in Files : /\ latest'[f].cycle \in {0} \cup {latest[g].cycle : g \in Files}
                          /\ latest'[f].owl \in {0} \cup {latest[g].owl : g \in Files}
  PROVE  BoundsInv'
<1>1. /\ saves \in Nat /\ setting.cuts \in Nat /\ left.cuts \in Nat
      /\ \A g \in Files : latest[g].cycle \in Nat /\ latest[g].owl \in Nat
  BY SettingsAssumption DEF Sound, GameTypes, FlashTypes
<1>2. \A f \in Files : Bounded(latest'[f], saves')
  BY <1>1 DEF BoundsInv, Bounded
<1>3. left'.cuts <= setting.cuts
  BY <1>1 DEF BoundsInv
<1>4. QED BY <1>2, <1>3 DEF BoundsInv, Bounded

\* Every step keeps the bounds.
LEMMA BoundsNext == Sound /\ BoundsInv /\ [Next]_vars => BoundsInv'
<1> SUFFICES ASSUME Sound, BoundsInv, [Next]_vars PROVE BoundsInv'
  OBVIOUS
<1>0. Sound' /\ fileNum' \in Files /\ left'.cuts \in Nat /\ left.cuts \in Nat
  BY SoundNext DEF Sound, GameTypes, FlashTypes
<1>1. /\ latest \in [Files -> [cycle : Nat, owl : Nat, config : {0, 1}]]
  BY DEF Sound, GameTypes
<1>2. ASSUME latest' = latest
      PROVE  \A f \in Files : /\ latest'[f].cycle \in {0} \cup {latest[g].cycle : g \in Files}
                              /\ latest'[f].owl \in {0} \cup {latest[g].owl : g \in Files}
  BY <1>2
<1>3. CASE FlashThread
  <2>1. left'.cuts = left.cuts /\ setting' = setting /\ saves' = saves /\ latest' = latest
    BY <1>3, AttemptKept DEF FlashThread, game, Sound
  <2>2. QED BY <1>0, <1>2, <2>1, BoundsOld
<1>4. CASE PowerCut
  <2>1. left'.cuts = left.cuts - 1 /\ setting' = setting /\ saves' = saves /\ latest' = latest
    BY <1>4 DEF PowerCut, Boot, Sound, FlashTypes
  <2>2. left'.cuts <= left.cuts
    BY <1>0, <2>1
  <2>3. QED BY <1>0, <1>2, <2>1, <2>2, BoundsOld
<1>5. CASE UNCHANGED vars
  <2>1. left'.cuts = left.cuts /\ setting' = setting /\ saves' = saves /\ latest' = latest
    BY <1>5 DEF vars, game
  <2>2. QED BY <1>0, <1>2, <2>1, BoundsOld
<1>6. CASE (Booting \/ Menu \/ Play \/ SwitchOff) /\ UNCHANGED <<left, setting>>
  <2>1. left' = left /\ setting' = setting /\ left'.cuts <= left.cuts
    BY <1>0, <1>6
  <2>2. CASE (Booting \/ SwitchOff \/ MoonCrash)
    <3>1. saves' = saves /\ latest' = latest
      BY <2>2 DEF Booting, CheckFile, FilesChecked, SwitchOff, Boot, MoonCrash
    <3>2. QED BY <1>0, <1>2, <2>1, <3>1, BoundsOld
  <2>3. ASSUME NEW s, Made(s) PROVE BoundsInv'
    BY <1>0, <2>1, <2>3, BoundsMade
  <2>4. CASE NewCycle \/ NewDay \/ EnterClockTown \/ OwlSave \/ Crash
    BY <2>3, <2>4 DEF NewCycle, NewDay, EnterClockTown, OwlSave, Crash
  <2>5. CASE Menu
    <3>1. PICK f \in Files : \/ InitSave(f) \/ EraseSave(f) \/ OpenSave(f)
                             \/ (\E g \in Files : CopySave(f, g))
                             \/ (\E c \in {0, 1} : SaveChaosConfig(f, c))
      BY <2>5 DEF Menu
    <3>2. CASE InitSave(f)
      BY <2>3, <3>2 DEF InitSave
    <3>3. ASSUME saves' = saves, NEW h \in Files, NEW l, latest' = [latest EXCEPT ![h] = l],
                 l.cycle \in {0} \cup {latest[g].cycle : g \in Files},
                 l.owl \in {0} \cup {latest[g].owl : g \in Files}
          PROVE  BoundsInv'
      <4>1. \A k \in Files : latest'[k] = IF k = h THEN l ELSE latest[k]
        BY <1>1, <3>3
      <4>2. \A k \in Files : /\ latest'[k].cycle \in {0} \cup {latest[g].cycle : g \in Files}
                             /\ latest'[k].owl \in {0} \cup {latest[g].owl : g \in Files}
        BY <3>3, <4>1
      <4>3. QED BY <1>0, <2>1, <3>3, <4>2, BoundsOld
    <3>4. CASE EraseSave(f)
      <4>1. saves' = saves /\ latest' = [latest EXCEPT ![f] = None] /\ None.cycle = 0 /\ None.owl = 0
        BY <3>4 DEF EraseSave, None
      <4>2. QED BY <3>3, <4>1
    <3>5. CASE OpenSave(f)
      <4>1. saves' = saves /\ (latest' = latest \/ latest' = [latest EXCEPT ![f].owl = 0])
        BY <3>5 DEF OpenSave
      <4>2. CASE latest' = latest
        BY <1>0, <1>2, <2>1, <4>1, <4>2, BoundsOld
      <4>3. CASE latest' = [latest EXCEPT ![f].owl = 0]
        <5>1. PICK l : l = [latest[f] EXCEPT !.owl = 0]
          OBVIOUS
        <5>2. latest' = [latest EXCEPT ![f] = l] /\ l.cycle = latest[f].cycle /\ l.owl = 0
          BY <1>1, <4>3, <5>1
        <5>3. /\ l.cycle \in {0} \cup {latest[g].cycle : g \in Files}
              /\ l.owl \in {0} \cup {latest[g].owl : g \in Files}
          BY <5>2
        <5>4. QED BY <3>3, <4>1, <5>2, <5>3
      <4>4. QED BY <4>1, <4>2, <4>3
    <3>6. CASE \E g \in Files : CopySave(f, g)
      <4>1. PICK g \in Files : saves' = saves /\ latest' = [latest EXCEPT ![g] = latest[f]]
        BY <3>6 DEF CopySave
      <4>2. QED BY <3>3, <4>1
    <3>7. CASE \E c \in {0, 1} : SaveChaosConfig(f, c)
      <4>1. PICK c \in {0, 1} : saves' = saves /\ latest' = [latest EXCEPT ![f].config = c]
        BY <3>7 DEF SaveChaosConfig
      <4>2. PICK l : l = [latest[f] EXCEPT !.config = c]
        OBVIOUS
      <4>3. /\ latest' = [latest EXCEPT ![f] = l]
            /\ l.cycle = latest[f].cycle /\ l.owl = latest[f].owl
        BY <1>1, <4>1, <4>2
      <4>4. /\ l.cycle \in {0} \cup {latest[g].cycle : g \in Files}
            /\ l.owl \in {0} \cup {latest[g].owl : g \in Files}
        BY <4>3
      <4>5. QED BY <3>3, <4>1, <4>3, <4>4
    <3>8. QED BY <3>1, <3>2, <3>4, <3>5, <3>6, <3>7
  <2>6. QED BY <1>6, <2>2, <2>4, <2>5 DEF Play
<1>7. QED BY <1>3, <1>4, <1>5, <1>6 DEF Next

\* The types, with the bounds of the setting (TypeOK).
THEOREM TypesAlwaysCorrect == Spec => []TypeOK
<1>1. Init => BoundsInv
  <2> SUFFICES ASSUME Init PROVE BoundsInv
    OBVIOUS
  <2>1. setting.saves \in Nat /\ setting.cuts \in Nat
    BY SettingsAssumption DEF Init
  <2>2. saves = 0 /\ left.cuts = setting.cuts /\ \A f \in Files : latest[f] = None
    BY DEF Init
  <2>3. QED BY <2>1, <2>2 DEF BoundsInv, Bounded, None
<1>2. Sound /\ KindInv /\ BoundsInv => TypeOK
  <2> SUFFICES ASSUME Sound, KindInv, BoundsInv PROVE TypeOK
    OBVIOUS
  <2>1. /\ saves \in Nat /\ setting.saves \in Nat /\ setting.errors \in Nat /\ setting.cuts \in Nat
        /\ saves <= setting.saves /\ left.cuts <= setting.cuts
        /\ setting \in [saves : Nat, errors : Nat, cuts : Nat,
                        copies : {"none", "cycle", "owl"}, crashesEarly : BOOLEAN]
        /\ left \in [errors : Nat, cuts : Nat] /\ attempt.tries + left.errors <= setting.errors
        /\ attempt \in [unit : 0..2, tries : 0..MaxRetries]
    BY SettingsAssumption DEF Sound, GameTypes, FlashTypes, AttemptInv, BoundsInv
  <2>2. ASSUME NEW s \in SaveRecs, -1 <= s.stamp, s.stamp <= saves PROVE s \in Saves
    BY <2>1, <2>2 DEF SaveRecs, Saves
  <2>3. ASSUME NEW u \in Units PROVE flash[u].save \in Saves /\ flash[u].part \in {1, 2}
    <3>1. flash[u] \in Cells
      BY DEF Sound, FlashTypes
    <3>2. \E p \in Starts, k \in 1..2 : u = p + k - 1
      <4>1. u \in {0, 1, 2, 3, 4, 5, 6, 7, 8, 9, 10, 11}
        BY DEF Units
      <4>2. /\ 1 \in 1..2 /\ 2 \in 1..2
            /\ \A p \in {0, 2, 4, 6, 8, 10} : p + 1 - 1 = p /\ p + 2 - 1 = p + 1
        OBVIOUS
      <4>3. u \in {0, 2, 4, 6, 8, 10} \/ u - 1 \in {0, 2, 4, 6, 8, 10}
        BY <4>1
      <4>4. \/ u \in Starts /\ u = u + 1 - 1
            \/ u - 1 \in Starts /\ u = (u - 1) + 2 - 1
        BY <4>1, <4>3 DEF Starts
      <4>5. QED BY <4>2, <4>4
    <3>3. -1 <= flash[u].save.stamp /\ flash[u].save.stamp <= saves
      BY <3>2 DEF KindInv, CellsInv, Fits
    <3>4. QED BY <2>2, <3>1, <3>3 DEF Cells
  <2>4. ASSUME NEW n \in DOMAIN todo
        PROVE  /\ todo[n].start \in Units /\ todo[n].start % 2 = 0
               /\ todo[n].start + Len(todo[n].units) - 1 \in Units
    <3>1. todo[n] \in Requests
      BY TodoIs DEF Sound
    <3>2. PICK l \in 1..2 : l = Len(todo[n].units)
      BY <3>1, RequestIs
    <3>3. todo[n].start \in Starts
      BY <3>1, RequestIs
    <3>4. \A p \in Starts : p \in Units /\ p % 2 = 0 /\ \A k \in 1..2 : p + k - 1 \in Units
      BY DEF Starts, Units
    <3>5. QED BY <3>2, <3>3, <3>4
  <2>5. ctx \in Saves
    BY <2>2 DEF Sound, GameTypes, KindInv, CtxInv
  <2>6. latest \in [Files -> [cycle : 0..setting.saves, owl : 0..setting.saves, config : {0, 1}]]
    <3>1. /\ latest \in [Files -> [cycle : Nat, owl : Nat, config : {0, 1}]]
          /\ \A f \in Files : latest[f].cycle <= saves /\ latest[f].owl <= saves
      BY DEF Sound, GameTypes, BoundsInv, Bounded
    <3>2. ASSUME NEW f \in Files
          PROVE  latest[f] \in [cycle : 0..setting.saves, owl : 0..setting.saves, config : {0, 1}]
      <4>1. latest[f] \in [cycle : Nat, owl : Nat, config : {0, 1}]
        BY <3>1
      <4>2. latest[f].cycle \in 0..setting.saves /\ latest[f].owl \in 0..setting.saves
        BY <2>1, <3>1, <4>1
      <4>3. QED BY <4>1, <4>2
    <3>3. QED BY <3>1, <3>2
  <2>7. left \in [errors : 0..setting.errors, cuts : 0..setting.cuts]
    <3>1. attempt.tries \in Nat /\ left.errors \in Nat /\ left.cuts \in Nat
      BY <2>1
    <3>2. left.errors \in 0..setting.errors /\ left.cuts \in 0..setting.cuts
      BY <2>1, <3>1
    <3>3. QED BY <2>1, <3>2
  <2>8. saves \in 0..setting.saves
    BY <2>1
  <2>9. QED BY <2>1, <2>3, <2>4, <2>5, <2>6, <2>7, <2>8 DEF TypeOK, Sound, GameTypes, FlashTypes
<1>3. QED BY <1>1, <1>2, SoundAlways, KindAlways, BoundsNext, PTL DEF Spec

=============================================================================
