--------------------------- MODULE ConfigFilesProofs ---------------------------
(***************************************************************************)
(* What is proved of ConfigFiles for every set of devices, all contents of *)
(* the files and any number of changes: between two reloads the devices    *)
(* are as the contents say that were loaded last, and authentication is    *)
(* disabled for a reason.                                                  *)
(***************************************************************************)
EXTENDS ConfigFiles, TLAPS

-----------------------------------------------------------------------------
(* The contents of the files, and the tasks of the reloads. *)

TaskOf(f) ==
    [file : {f}, new : Content(f), old : Content(f), pc : {"resume", "fail", "apply"},
     todo : SUBSET Mac, gone : SUBSET Mac]

LEMMA Tasks ==
    /\ None \notin Task
    /\ \A t \in Task : t.file \in File /\ t \in TaskOf(t.file)
    /\ \A f \in File : TaskOf(f) \subseteq Task
<1>1. Task = UNION {TaskOf(f) : f \in File}
  BY DEF Task, TaskOf
<1>2. \A f \in File : \A t \in TaskOf(f) : t.file = f
  BY DEF TaskOf
<1>3. None \notin Task
  BY ConfigAssumption
<1> QED BY <1>1, <1>2, <1>3

\* What a content says of a device.
LEMMA ContentIs ==
    ASSUME NEW f \in File, NEW c \in Content(f), NEW m \in MacsOf(c)
    PROVE  /\ m \in Mac
           /\ f = "placements" => c.macs[m] \in Place
           /\ f = "behaviors" => c.macs[m] \in Entry
<1>1. c \in Readable(f) /\ m \in DOMAIN c.macs
  BY DEF Content, MacsOf
<1>2. CASE f = "placements"
  <2>1. c.macs \in PlacementFiles
    BY <1>1, <1>2 DEF Readable
  <2>2. PICK macs \in SUBSET Mac : c.macs \in [macs -> Place]
    BY <2>1, ConfigAssumption
  <2> QED BY <1>1, <1>2, <2>2
<1>3. CASE f = "behaviors"
  <2>1. c.macs \in BehaviorFiles
    BY <1>1, <1>3 DEF Readable
  <2>2. PICK macs \in SUBSET Mac : c.macs \in [macs -> Entry]
    BY <2>1, ConfigAssumption
  <2> QED BY <1>1, <1>3, <2>2
<1> QED BY <1>2, <1>3 DEF File

LEMMA MacsOfContent ==
    /\ \A f \in File : \A c \in Content(f) : MacsOf(c) \subseteq Mac
    /\ \A c \in Unreadable : MacsOf(c) = {}
    /\ \A f \in File : Unreadable \subseteq Content(f)
<1>1. \A f \in File : \A c \in Content(f) : MacsOf(c) \subseteq Mac
  BY ContentIs
<1> QED BY <1>1 DEF MacsOf, Content

\* The task a callback starts with.
BegunTask(t, f, new, old) ==
    /\ t \in TaskOf(f) /\ t # None /\ t.file = f /\ t.new = new /\ t.old = old
    /\ t.pc = "fail" <=> new \in Unreadable
    /\ t.pc = "resume" => f = "behaviors"
    /\ t.pc = "apply" => f = "placements"
    /\ t.todo = MacsOf(new)
    /\ new \notin Unreadable => t.gone = MacsOf(old)
    /\ new \in Unreadable => t.gone = {m \in Mac : f = "behaviors" /\ statics[m] # None}

LEMMA Begun ==
    ASSUME NEW f \in File, NEW new \in Content(f), NEW old \in Content(f)
    PROVE  BegunTask(Begin(f, new, old), f, new, old)
<1> PICK t : t = Begin(f, new, old)
  OBVIOUS
<1>1. /\ t.file = f /\ t.new = new /\ t.old = old
      /\ t.pc = IF new \in Unreadable THEN "fail" ELSE IF f = "behaviors" THEN "resume" ELSE "apply"
      /\ t.todo = MacsOf(new)
      /\ t.gone = IF new \in Unreadable THEN {m \in Mac : f = "behaviors" /\ statics[m] # None} ELSE MacsOf(old)
  BY DEF Begin
<1>2. t.todo \in SUBSET Mac /\ t.gone \in SUBSET Mac /\ t.pc \in {"resume", "fail", "apply"}
  BY <1>1, MacsOfContent
<1>3. t = [file |-> t.file, new |-> t.new, old |-> t.old, pc |-> t.pc, todo |-> t.todo, gone |-> t.gone]
  BY DEF Begin
<1>4. t \in TaskOf(f)
  BY <1>1, <1>2, <1>3 DEF TaskOf
<1>5. t # None
  BY <1>4, Tasks
<1>6. BegunTask(t, f, new, old)
  BY <1>1, <1>4, <1>5 DEF BegunTask, File
<1> QED BY <1>6

-----------------------------------------------------------------------------
(* The inductive invariant. *)

WatcherTypes ==
    /\ DOMAIN file = File /\ DOMAIN stored = File /\ DOMAIN loaded = File
    /\ \A f \in File : file[f] \in Content(f) /\ stored[f] \in Content(f) /\ loaded[f] \in Content(f)
    /\ raced \subseteq File /\ pending \subseteq File /\ changes \in 0 .. MaxChanges
    /\ phase \in Phase

DeviceTypes ==
    /\ placements \in [Mac -> Place \cup {None}]
    /\ statics \in [Mac -> Segment \cup {None}]
    /\ timers \subseteq Mac

AuthTypes == dynamics \in [Mac -> Segment \cup {None}] /\ results \in [Mac -> Segment \cup {None}]

FlagTypes ==
    /\ errors \subseteq File \cup {"tail_acl", "segments_vlans"}
    /\ ignoreStatic \in BOOLEAN
    /\ ignoreAuth \in BOOLEAN

\* A reload goes on in some phases only; what it still has to do is about its two contents.
TaskIs(t, where, noStatics) ==
    /\ t \in TaskOf(t.file) /\ t.file \in File
    /\ where \in {"load placements", "load behaviors", "watching"}
    /\ where # "watching" => t.file = FileOf(where)
    /\ t.file = "behaviors" => noStatics = FALSE
    /\ t.pc = "fail" <=> t.new \in Unreadable
    /\ t.pc = "resume" => t.file = "behaviors"
    /\ t.todo \subseteq MacsOf(t.new)
    /\ t.gone \cap MacsOf(t.new) \subseteq t.todo

TaskOK == task # None => TaskIs(task, phase, ignoreStatic)

Missing == [kind |-> "missing"]
RegisterPhase(f) == IF f = "placements" THEN "register placements" ELSE "register behaviors"

\* The content a reload starts from is the one that was loaded last.
FilesFollow ==
    /\ \A f \in File \ raced : stored[f] = loaded[f] \/ phase = RegisterPhase(f)
    /\ phase \in {"configure", "orchestrate", "load placements"} => loaded["placements"] = Missing
    /\ phase \in {"configure", "orchestrate", "load placements", "register placements", "load behaviors"} =>
           loaded["behaviors"] = Missing
    /\ task # None /\ task.file \notin raced => task.old = loaded[task.file]

Reloading(f) == task # None /\ task.file = f

StaticIs(content, m) ==
    IF m \in MacsOf(content) THEN content.macs[m].segment \in {statics[m], None} ELSE statics[m] = None

\* A device that a reload has nothing left to do with is as the new content says.
StaticsFollow ==
    "behaviors" \notin raced =>
        /\ ~Reloading("behaviors") => \A m \in Mac : StaticIs(loaded["behaviors"], m)
        /\ Reloading("behaviors") =>
               /\ \A m \in Mac : m \notin task.todo /\ m \notin task.gone => StaticIs(task.new, m)
               /\ \A m \in task.todo \cap task.gone : m \in MacsOf(task.old) /\ StaticIs(task.old, m)

PlacedIs(content, m) == placements[m] = IF m \in MacsOf(content) THEN content.macs[m] ELSE None

PlacesFollow ==
    "placements" \notin raced /\ phase # "ended" =>
        /\ ~Reloading("placements") => \A m \in Mac : PlacedIs(loaded["placements"], m)
        /\ Reloading("placements") /\ task.pc # "fail" =>
               \A m \in Mac : m \notin task.todo /\ m \notin task.gone => PlacedIs(task.new, m)

FlagsFollow ==
    /\ ignoreStatic => ignoreAuth
    /\ errors \ File # {} => ignoreStatic
    /\ "behaviors" \in errors => ignoreAuth
    /\ ignoreAuth /\ ~ignoreStatic => errors # {}
    /\ ~ignoreStatic /\ phase \in {"register behaviors", "start", "watching"} /\ ~Reloading("behaviors") =>
           ("behaviors" \in errors <=> loaded["behaviors"] \in Unreadable)
    /\ Reloading("behaviors") /\ task.pc = "apply" => "behaviors" \notin errors

FilesInvariant ==
    /\ WatcherTypes /\ DeviceTypes /\ AuthTypes /\ FlagTypes
    /\ TaskOK /\ FilesFollow /\ StaticsFollow /\ PlacesFollow /\ FlagsFollow

\* What a step leaves alone keeps its part of the invariant.
LEMMA Untouched ==
    ASSUME FilesInvariant
    PROVE  /\ UNCHANGED watcher => WatcherTypes'
           /\ UNCHANGED devices => DeviceTypes'
           /\ UNCHANGED auth => AuthTypes'
           /\ UNCHANGED flags => FlagTypes'
           /\ UNCHANGED <<phase, task, ignoreStatic>> => TaskOK'
           /\ UNCHANGED <<stored, loaded, raced, phase, task>> => FilesFollow'
           /\ UNCHANGED <<loaded, raced, task, statics>> => StaticsFollow'
           /\ UNCHANGED <<loaded, raced, task, phase, placements>> => PlacesFollow'
           /\ UNCHANGED <<flags, phase, task, loaded>> => FlagsFollow'
<1>1. UNCHANGED watcher => WatcherTypes'
  BY DEF FilesInvariant, WatcherTypes, watcher
<1>2. UNCHANGED devices => DeviceTypes'
  BY DEF FilesInvariant, DeviceTypes, devices
<1>3. UNCHANGED auth => AuthTypes'
  BY DEF FilesInvariant, AuthTypes, auth
<1>4. UNCHANGED flags => FlagTypes'
  BY DEF FilesInvariant, FlagTypes, flags
<1>5. UNCHANGED <<phase, task, ignoreStatic>> => TaskOK'
  BY DEF FilesInvariant, TaskOK
<1>6. UNCHANGED <<stored, loaded, raced, phase, task>> => FilesFollow'
  BY DEF FilesInvariant, FilesFollow
<1>7. UNCHANGED <<loaded, raced, task, statics>> => StaticsFollow'
  BY DEF FilesInvariant, StaticsFollow, StaticIs, Reloading
<1>8. UNCHANGED <<loaded, raced, task, phase, placements>> => PlacesFollow'
  BY DEF FilesInvariant, PlacesFollow, PlacedIs, Reloading
<1>9. UNCHANGED <<flags, phase, task, loaded>> => FlagsFollow'
  <2> SUFFICES ASSUME UNCHANGED <<flags, phase, task, loaded>> PROVE FlagsFollow'
    OBVIOUS
  <2>1. /\ errors' = errors /\ ignoreStatic' = ignoreStatic /\ ignoreAuth' = ignoreAuth
        /\ phase' = phase /\ task' = task /\ loaded' = loaded
    BY DEF flags
  <2> QED BY <2>1, Zenon DEF FilesInvariant, FlagsFollow, Reloading
<1> QED BY <1>1, <1>2, <1>3, <1>4, <1>5, <1>6, <1>7, <1>8, <1>9

LEMMA InitFiles == Init => FilesInvariant
<1> SUFFICES ASSUME Init PROVE FilesInvariant
  OBVIOUS
<1>0. Missing \in Unreadable /\ \A f \in File : Missing \in Content(f)
  BY MacsOfContent DEF Missing, Unreadable
<1>1. \A f \in File : stored[f] = Missing /\ loaded[f] = Missing
  BY DEF Init, Missing
<1>2. WatcherTypes
  BY <1>0, <1>1, ConfigAssumption DEF Init, WatcherTypes, Phase
<1>3. DeviceTypes /\ AuthTypes
  BY DEF Init, NoDevices, DeviceTypes, AuthTypes
<1>4. FlagTypes
  BY DEF Init, ForchInit, FlagTypes
<1>5. TaskOK /\ FilesFollow
  BY <1>1 DEF Init, TaskOK, FilesFollow, File
<1>6. StaticsFollow
  BY <1>0, <1>1, MacsOfContent DEF Init, NoDevices, StaticsFollow, StaticIs, Reloading, File
<1>7. PlacesFollow
  BY <1>0, <1>1, MacsOfContent DEF Init, NoDevices, PlacesFollow, PlacedIs, Reloading, File
<1>8. FlagsFollow
  BY DEF Init, ForchInit, FlagsFollow, Reloading
<1> QED BY <1>2, <1>3, <1>4, <1>5, <1>6, <1>7, <1>8 DEF FilesInvariant

-----------------------------------------------------------------------------
(* The environment. *)

LEMMA ChangeKeeps ==
    ASSUME FilesInvariant, NEW f \in File, NEW content \in Content(f), Change(f, content)
    PROVE  FilesInvariant'
<1>1. /\ changes < MaxChanges
      /\ file' = [file EXCEPT ![f] = content]
      /\ changes' = changes + 1
      /\ pending' \in {pending, pending \cup {f}}
      /\ UNCHANGED <<stored, loaded, raced, phase, task, devices, auth, flags>>
  BY DEF Change
<1>2. WatcherTypes'
  BY <1>1, ConfigAssumption DEF FilesInvariant, WatcherTypes
<1>3. UNCHANGED <<statics, placements, ignoreStatic>>
  BY <1>1 DEF devices, flags
<1> QED BY <1>1, <1>2, <1>3, Untouched DEF FilesInvariant

LEMMA HandleAuthResultKeeps ==
    ASSUME FilesInvariant, NEW m \in Mac, NEW segment \in Segment \cup {None}, HandleAuthResult(m, segment)
    PROVE  FilesInvariant'
<1>1. /\ results' = [results EXCEPT ![m] = segment]
      /\ dynamics' \in {dynamics, [dynamics EXCEPT ![m] = segment]}
      /\ UNCHANGED <<watcher, devices, flags>>
  BY DEF HandleAuthResult
<1>2. AuthTypes'
  BY <1>1 DEF FilesInvariant, AuthTypes
<1>3. UNCHANGED <<stored, loaded, raced, phase, task, statics, placements, ignoreStatic>>
  BY <1>1 DEF watcher, devices, flags
<1> QED BY <1>1, <1>2, <1>3, Untouched DEF FilesInvariant

LEMMA TimerFiresKeeps ==
    ASSUME FilesInvariant, NEW m \in Mac, TimerFires(m)
    PROVE  FilesInvariant'
<1>1. timers' = timers \ {m} /\ UNCHANGED <<watcher, placements, statics, auth, flags>>
  BY DEF TimerFires
<1>2. DeviceTypes'
  BY <1>1 DEF FilesInvariant, DeviceTypes
<1>3. UNCHANGED <<stored, loaded, raced, phase, task, ignoreStatic>>
  BY <1>1 DEF watcher, flags
<1> QED BY <1>1, <1>2, <1>3, Untouched DEF FilesInvariant

-----------------------------------------------------------------------------
(* The steps of a reload. *)

\* The callback is left by an exception: nothing is promised of the placements any more.
LEMMA RaiseKeeps ==
    ASSUME FilesInvariant, Raise, UNCHANGED <<statics, timers, auth, flags>>,
           DeviceTypes', task # None => task.file = "placements",
           phase \in {"load placements", "load behaviors", "watching"}
    PROVE  FilesInvariant'
<1>1. phase' = "ended" /\ task' = None /\ UNCHANGED <<file, stored, loaded, raced, pending, changes>>
  BY DEF Raise
<1>2. WatcherTypes'
  BY <1>1 DEF FilesInvariant, WatcherTypes, Phase
<1>3. TaskOK' /\ PlacesFollow'
  BY <1>1 DEF TaskOK, PlacesFollow
<1>4. FilesFollow'
  <2>1. ASSUME NEW f \in File \ raced PROVE stored[f] = loaded[f]
    BY DEF FilesInvariant, FilesFollow, RegisterPhase
  <2> QED BY <1>1, <2>1 DEF FilesFollow
<1>5. StaticsFollow'
  <2>1. ~Reloading("behaviors") /\ ~Reloading("behaviors")'
    BY <1>1 DEF Reloading
  <2>2. "behaviors" \notin raced => \A m \in Mac : StaticIs(loaded["behaviors"], m)
    BY <2>1, Zenon DEF FilesInvariant, StaticsFollow
  <2> QED BY <1>1, <2>1, <2>2 DEF StaticsFollow, StaticIs
<1>6. FlagsFollow'
  <2>1. ~Reloading("behaviors")'
    BY <1>1 DEF Reloading
  <2>2. errors' = errors /\ ignoreStatic' = ignoreStatic /\ ignoreAuth' = ignoreAuth
    BY DEF flags
  <2>3. phase' \notin {"register behaviors", "start", "watching"}
    BY <1>1
  <2> QED BY <2>1, <2>2, <2>3, Zenon DEF FilesInvariant, FlagsFollow
<1> QED BY <1>1, <1>2, <1>3, <1>4, <1>5, <1>6, Untouched DEF FilesInvariant

LEMMA RaisesKeep ==
    ASSUME FilesInvariant, OtherCallbackRaises \/ PlacementsRaise \/ \E m \in Mac : ClearPlacements(m)
    PROVE  FilesInvariant'
<1>0. task # None => phase \in {"load placements", "load behaviors", "watching"}
  BY DEF FilesInvariant, TaskOK, TaskIs
<1>1. CASE OtherCallbackRaises
  <2>1. task = None /\ phase = "watching" /\ Raise /\ UNCHANGED <<devices, auth, flags>>
    BY <1>1 DEF OtherCallbackRaises
  <2> QED BY <2>1, RaiseKeeps, Untouched DEF devices
<1>2. CASE PlacementsRaise
  <2>1. task # None /\ task.file = "placements" /\ Raise /\ UNCHANGED <<devices, auth, flags>>
    BY <1>2 DEF PlacementsRaise
  <2> QED BY <1>0, <2>1, RaiseKeeps, Untouched DEF devices
<1>3. ASSUME NEW m \in Mac, ClearPlacements(m) PROVE FilesInvariant'
  <2>1. /\ task # None /\ task.file = "placements" /\ Raise /\ UNCHANGED <<statics, timers, auth, flags>>
        /\ placements' = [placements EXCEPT ![m] = None]
    BY <1>3 DEF ClearPlacements
  <2>2. DeviceTypes'
    BY <2>1 DEF FilesInvariant, DeviceTypes
  <2> QED BY <1>0, <2>1, <2>2, RaiseKeeps
<1> QED BY <1>1, <1>2, <1>3

\* A step inside a reload moves its task on: one of a content that can be read.
LEMMA TaskMoves ==
    ASSUME FilesInvariant, task # None, NEW t, task' = t, t # None, t \in TaskOf(task.file),
           t.file = task.file, t.new = task.new, t.old = task.old, t.pc = "fail" <=> task.pc = "fail",
           t.pc = "resume" => t.file = "behaviors",
           t.todo \subseteq task.todo,
           t.gone \cap MacsOf(t.new) \subseteq t.todo,
           UNCHANGED <<file, stored, loaded, raced, pending, changes, phase, ignoreStatic>>
    PROVE  WatcherTypes' /\ TaskOK' /\ FilesFollow'
<1>0. TaskIs(task, phase, ignoreStatic)
  BY DEF FilesInvariant, TaskOK
<1>1. WatcherTypes'
  BY DEF FilesInvariant, WatcherTypes
<1>2. TaskIs(t, phase, ignoreStatic)
  BY <1>0 DEF TaskIs
<1>3. TaskOK'
  BY <1>2 DEF TaskOK
<1>4. FilesFollow'
  BY DEF FilesInvariant, FilesFollow
<1> QED BY <1>1, <1>3, <1>4

LEMMA ResumeKeeps == ASSUME FilesInvariant, Resume PROVE FilesInvariant'
<1>1. /\ task # None /\ task.pc = "resume"
      /\ errors' = errors \ {"behaviors"} /\ ignoreAuth' = FALSE
      /\ task' = [task EXCEPT !.pc = "apply"]
      /\ UNCHANGED <<file, stored, loaded, raced, pending, changes, phase, devices, auth, ignoreStatic>>
  BY DEF Resume
<1> PICK t : t = [task EXCEPT !.pc = "apply"]
  OBVIOUS
<1>2. task \in TaskOf(task.file) /\ TaskIs(task, phase, ignoreStatic) /\ task.file = "behaviors"
  BY <1>1 DEF FilesInvariant, TaskOK, TaskIs
<1>3. /\ t \in TaskOf(task.file) /\ t.file = task.file /\ t.new = task.new /\ t.old = task.old /\ t.pc = "apply"
      /\ t.todo = task.todo /\ t.gone = task.gone
  BY <1>2 DEF TaskOf
<1>4. t # None
  BY <1>2, <1>3, Tasks DEF TaskIs
<1>5. WatcherTypes' /\ TaskOK' /\ FilesFollow'
  <2>1. task.gone \cap MacsOf(task.new) \subseteq task.todo
    BY <1>2 DEF TaskIs
  <2> QED BY <1>1, <1>3, <1>4, <2>1, TaskMoves
<1>6. Reloading("behaviors") /\ Reloading("behaviors")' /\ ~Reloading("placements") /\ ~Reloading("placements")'
  BY <1>1, <1>2, <1>3, <1>4 DEF Reloading
<1>7. UNCHANGED <<statics, placements>>
  BY <1>1 DEF devices
<1>8. StaticsFollow'
  BY <1>1, <1>3, <1>6, <1>7 DEF FilesInvariant, StaticsFollow, StaticIs
<1>9. PlacesFollow'
  BY <1>1, <1>6, <1>7 DEF FilesInvariant, PlacesFollow, PlacedIs
<1>10. FlagTypes'
  BY <1>1 DEF FilesInvariant, FlagTypes
<1>11. FlagsFollow'
  <2>1. ignoreStatic' = FALSE
    BY <1>1, <1>2 DEF TaskIs
  <2>2. errors' \ File = {}
    BY <1>1, <1>2 DEF FilesInvariant, FlagsFollow, TaskIs
  <2>3. "behaviors" \notin errors' /\ ignoreAuth' = FALSE
    BY <1>1
  <2> QED BY <1>6, <2>1, <2>2, <2>3 DEF FlagsFollow
<1> QED BY <1>1, <1>5, <1>8, <1>9, <1>10, <1>11, Untouched DEF FilesInvariant

LEMMA FlagsStay ==
    ASSUME FilesInvariant, task # None, task' # None, task'.file = task.file, task'.pc = task.pc,
           UNCHANGED <<flags, phase, loaded>>
    PROVE  FlagsFollow'
<1>1. Reloading("behaviors")' <=> Reloading("behaviors")
  BY DEF Reloading
<1>2. errors' = errors /\ ignoreStatic' = ignoreStatic /\ ignoreAuth' = ignoreAuth /\ phase' = phase /\ loaded' = loaded
  BY DEF flags
<1>3. ignoreStatic' => ignoreAuth'
  BY <1>2, Zenon DEF FilesInvariant, FlagsFollow
<1>4. errors' \ File # {} => ignoreStatic'
  BY <1>2, Zenon DEF FilesInvariant, FlagsFollow
<1>5. "behaviors" \in errors' => ignoreAuth'
  BY <1>2, Zenon DEF FilesInvariant, FlagsFollow
<1>6. ignoreAuth' /\ ~ignoreStatic' => errors' # {}
  BY <1>2, Zenon DEF FilesInvariant, FlagsFollow
<1>7. ~ignoreStatic' /\ phase' \in {"register behaviors", "start", "watching"} /\ ~Reloading("behaviors")' =>
          ("behaviors" \in errors' <=> loaded'["behaviors"] \in Unreadable)
  BY <1>1, <1>2, Zenon DEF FilesInvariant, FlagsFollow
<1>8. Reloading("behaviors")' /\ task'.pc = "apply" => "behaviors" \notin errors'
  BY <1>1, <1>2, Zenon DEF FilesInvariant, FlagsFollow
<1> QED BY <1>3, <1>4, <1>5, <1>6, <1>7, <1>8 DEF FlagsFollow

LEMMA ApplyPlacementKeeps ==
    ASSUME FilesInvariant, NEW m \in Mac, ApplyPlacement(m)
    PROVE  FilesInvariant'
<1>1. /\ task # None /\ task.file = "placements" /\ task.pc = "apply" /\ m \in task.todo \ task.gone
      /\ placements' = [placements EXCEPT ![m] = task.new.macs[m]]
      /\ task' = [task EXCEPT !.todo = @ \ {m}]
      /\ UNCHANGED <<file, stored, loaded, raced, pending, changes, phase, statics, timers, auth, flags>>
  BY DEF ApplyPlacement, ProcessDevicePlacement
<1> PICK t : t = [task EXCEPT !.todo = @ \ {m}]
  OBVIOUS
<1>2. task \in TaskOf("placements") /\ TaskIs(task, phase, ignoreStatic) /\ "placements" \in File
  BY <1>1 DEF FilesInvariant, TaskOK, TaskIs
<1>3. /\ t \in TaskOf(task.file) /\ t.file = task.file /\ t.new = task.new /\ t.old = task.old /\ t.pc = task.pc
      /\ t.todo = task.todo \ {m} /\ t.gone = task.gone
  BY <1>1, <1>2 DEF TaskOf
<1>4. t # None
  BY <1>1, <1>2, <1>3, Tasks
<1>5. m \in MacsOf(task.new) /\ task.new.macs[m] \in Place
  <2>1. m \in MacsOf(task.new)
    BY <1>1, <1>2 DEF TaskIs
  <2>2. task.new \in Content("placements")
    BY <1>2 DEF TaskOf
  <2> QED BY <1>2, <2>1, <2>2, ContentIs
<1>6. WatcherTypes' /\ TaskOK' /\ FilesFollow'
  <2>1. t.gone \cap MacsOf(t.new) \subseteq t.todo
    BY <1>1, <1>2, <1>3 DEF TaskIs
  <2>2. ignoreStatic' = ignoreStatic
    BY <1>1 DEF flags
  <2> QED BY <1>1, <1>3, <1>4, <2>1, <2>2, TaskMoves
<1>7. DeviceTypes'
  BY <1>1, <1>5 DEF FilesInvariant, DeviceTypes
<1>8. ~Reloading("behaviors") /\ ~Reloading("behaviors")' /\ Reloading("placements") /\ Reloading("placements")'
  BY <1>1, <1>3, <1>4 DEF Reloading
<1>9. StaticsFollow'
  BY <1>1, <1>8 DEF FilesInvariant, StaticsFollow, StaticIs
<1>10. PlacesFollow'
  <2> SUFFICES ASSUME "placements" \notin raced, phase # "ended", NEW n \in Mac, n \notin t.todo, n \notin t.gone
               PROVE  placements'[n] = IF n \in MacsOf(t.new) THEN t.new.macs[n] ELSE None
    BY <1>1, <1>8 DEF PlacesFollow, PlacedIs
  <2>1. CASE n = m
    BY <1>1, <1>3, <1>5, <2>1 DEF FilesInvariant, DeviceTypes
  <2>2. CASE n # m
    <3>1. PlacedIs(task.new, n)
      BY <1>1, <1>3, <1>8, <2>2 DEF FilesInvariant, PlacesFollow
    <3>2. placements'[n] = placements[n]
      BY <1>1, <2>2 DEF FilesInvariant, DeviceTypes
    <3> QED BY <1>3, <3>1, <3>2 DEF PlacedIs
  <2> QED BY <2>1, <2>2
<1>11. FlagsFollow'
  BY <1>1, <1>3, <1>4, FlagsStay
<1> QED BY <1>1, <1>6, <1>7, <1>9, <1>10, <1>11, Untouched DEF FilesInvariant

LEMMA ReloadBehaviorKeeps ==
    ASSUME FilesInvariant, NEW m \in Mac, ReloadBehavior(m)
    PROVE  FilesInvariant'
<1>1. /\ task # None /\ task.file = "behaviors" /\ task.pc = "apply" /\ m \in task.todo
      /\ task' = [task EXCEPT !.todo = @ \ {m}, !.gone = @ \ {m}]
      /\ IF m \in task.gone /\ task.old.macs[m] = task.new.macs[m]
         THEN UNCHANGED <<statics, timers>>
         ELSE ApplyBehavior(m, task.new.macs[m])
      /\ UNCHANGED <<file, stored, loaded, raced, pending, changes, phase, placements, auth, flags>>
  BY DEF ReloadBehavior
<1> PICK t : t = [task EXCEPT !.todo = @ \ {m}, !.gone = @ \ {m}]
  OBVIOUS
<1>2. task \in TaskOf("behaviors") /\ TaskIs(task, phase, ignoreStatic) /\ "behaviors" \in File
  BY <1>1 DEF FilesInvariant, TaskOK, TaskIs
<1>3. /\ t \in TaskOf(task.file) /\ t.file = task.file /\ t.new = task.new /\ t.old = task.old /\ t.pc = task.pc
      /\ t.todo = task.todo \ {m} /\ t.gone = task.gone \ {m}
  BY <1>1, <1>2 DEF TaskOf
<1>4. t # None
  BY <1>1, <1>2, <1>3, Tasks
<1> PICK entry : entry = task.new.macs[m]
  OBVIOUS
<1>5. m \in MacsOf(task.new) /\ entry \in Entry
  <2>1. m \in MacsOf(task.new)
    BY <1>1, <1>2 DEF TaskIs
  <2>2. task.new \in Content("behaviors")
    BY <1>2 DEF TaskOf
  <2> QED BY <1>2, <2>1, <2>2, ContentIs
<1>6. WatcherTypes' /\ TaskOK' /\ FilesFollow'
  <2>1. t.gone \cap MacsOf(t.new) \subseteq t.todo
    BY <1>1, <1>2, <1>3 DEF TaskIs
  <2>2. ignoreStatic' = ignoreStatic
    BY <1>1 DEF flags
  <2> QED BY <1>1, <1>3, <1>4, <2>1, <2>2, TaskMoves
<1>7. /\ statics' \in {statics, [statics EXCEPT ![m] = entry.segment]}
      /\ timers' \in {timers, timers \cup {m}, timers \ {m}}
      /\ ~(m \in task.gone /\ task.old.macs[m] = entry) =>
            statics' = IF entry.segment = None THEN statics ELSE [statics EXCEPT ![m] = entry.segment]
      /\ m \in task.gone /\ task.old.macs[m] = entry => statics' = statics
  BY <1>1 DEF ApplyBehavior
<1>8. DeviceTypes'
  BY <1>1, <1>5, <1>7 DEF FilesInvariant, DeviceTypes, Entry
<1>9. \A n \in Mac : n # m => statics'[n] = statics[n]
  BY <1>7 DEF FilesInvariant, DeviceTypes
<1>10. Reloading("behaviors") /\ Reloading("behaviors")' /\ ~Reloading("placements") /\ ~Reloading("placements")'
  BY <1>1, <1>3, <1>4 DEF Reloading
<1>11. StaticsFollow'
  <2> SUFFICES ASSUME "behaviors" \notin raced
               PROVE  /\ \A n \in Mac : n \notin t.todo /\ n \notin t.gone => StaticIs(t.new, n)'
                      /\ \A n \in t.todo \cap t.gone : n \in MacsOf(t.old) /\ StaticIs(t.old, n)'
    BY <1>1, <1>10 DEF StaticsFollow, StaticIs
  <2>1. /\ \A n \in Mac : n \notin task.todo /\ n \notin task.gone => StaticIs(task.new, n)
        /\ \A n \in task.todo \cap task.gone : n \in MacsOf(task.old) /\ StaticIs(task.old, n)
    BY <1>10 DEF FilesInvariant, StaticsFollow
  <2>2. ASSUME NEW n \in Mac, n # m, NEW c, StaticIs(c, n) PROVE IF n \in MacsOf(c)
                 THEN c.macs[n].segment \in {statics'[n], None} ELSE statics'[n] = None
    BY <1>9, <2>2 DEF StaticIs
  <2>3. entry.segment \in {statics'[m], None}
    <3>1. CASE m \in task.gone /\ task.old.macs[m] = entry
      BY <1>1, <1>7, <2>1, <3>1 DEF StaticIs
    <3>2. CASE ~(m \in task.gone /\ task.old.macs[m] = entry)
      BY <1>7, <3>2 DEF FilesInvariant, DeviceTypes
    <3> QED BY <3>1, <3>2
  <2>4. ASSUME NEW n \in Mac, n \notin t.todo, n \notin t.gone PROVE StaticIs(t.new, n)'
    <3>1. CASE n = m
      BY <1>1, <1>3, <1>5, <2>3, <3>1 DEF StaticIs, MacsOf
    <3>2. CASE n # m
      <4>1. StaticIs(t.new, n)
        BY <1>3, <2>1, <2>4, <3>2
      <4> QED BY <1>1, <2>2, <3>2, <4>1 DEF StaticIs, MacsOf
    <3> QED BY <3>1, <3>2
  <2>5. ASSUME NEW n \in t.todo \cap t.gone PROVE n \in MacsOf(t.old) /\ StaticIs(t.old, n)'
    <3>1. n \in Mac /\ n # m /\ n \in MacsOf(t.old) /\ StaticIs(t.old, n)
      BY <1>2, <1>3, <2>1 DEF TaskOf
    <3> QED BY <1>1, <2>2, <3>1 DEF StaticIs, MacsOf
  <2> QED BY <2>4, <2>5
<1>12. PlacesFollow'
  BY <1>1, <1>10 DEF FilesInvariant, PlacesFollow, PlacedIs
<1>13. FlagsFollow'
  BY <1>1, <1>3, <1>4, FlagsStay
<1> QED BY <1>1, <1>6, <1>8, <1>11, <1>12, <1>13, Untouched DEF FilesInvariant

LEMMA RemoveDeviceKeeps ==
    ASSUME FilesInvariant, NEW m \in Mac, RemoveDevice(m)
    PROVE  FilesInvariant'
<1>1. /\ task # None /\ m \in task.gone
      /\ (task.pc = "apply" /\ task.todo = {}) \/ (task.pc = "fail" /\ task.file = "behaviors")
      /\ task' = [task EXCEPT !.gone = @ \ {m}]
      /\ UNCHANGED <<file, stored, loaded, raced, pending, changes, phase, timers, auth, flags>>
  BY DEF RemoveDevice
<1> PICK t : t = [task EXCEPT !.gone = @ \ {m}]
  OBVIOUS
<1>2. task \in TaskOf(task.file) /\ TaskIs(task, phase, ignoreStatic) /\ task.file \in File
  BY <1>1 DEF FilesInvariant, TaskOK, TaskIs
<1>3. /\ t \in TaskOf(task.file) /\ t.file = task.file /\ t.new = task.new /\ t.old = task.old /\ t.pc = task.pc
      /\ t.todo = task.todo /\ t.gone = task.gone \ {m}
  BY <1>1, <1>2 DEF TaskOf
<1>4. t # None
  BY <1>1, <1>2, <1>3, Tasks
<1>5. t.todo = {} /\ m \notin MacsOf(t.new)
  <2>1. CASE task.pc = "fail"
    BY <1>2, <1>3, <2>1, MacsOfContent DEF TaskIs
  <2>2. CASE task.pc = "apply" /\ task.todo = {}
    BY <1>1, <1>2, <1>3, <2>2 DEF TaskIs
  <2> QED BY <1>1, <2>1, <2>2
<1>6. WatcherTypes' /\ TaskOK' /\ FilesFollow'
  <2>1. t.gone \cap MacsOf(t.new) \subseteq t.todo
    BY <1>1, <1>2, <1>3 DEF TaskIs
  <2>2. ignoreStatic' = ignoreStatic
    BY <1>1 DEF flags
  <2> QED BY <1>1, <1>2, <1>3, <1>4, <2>1, <2>2, TaskMoves DEF TaskIs
<1>7. FlagsFollow'
  BY <1>1, <1>3, <1>4, FlagsStay
<1>8. CASE task.file = "behaviors"
  <2>1. statics' = [statics EXCEPT ![m] = None] /\ placements' = placements
    BY <1>8 DEF RemoveDevice, Remove
  <2>2. DeviceTypes'
    BY <1>1, <2>1 DEF FilesInvariant, DeviceTypes
  <2>3. Reloading("behaviors") /\ Reloading("behaviors")' /\ ~Reloading("placements") /\ ~Reloading("placements")'
    BY <1>1, <1>3, <1>4, <1>8 DEF Reloading
  <2>4. StaticsFollow'
    <3> SUFFICES ASSUME "behaviors" \notin raced, NEW n \in Mac, n \notin t.todo, n \notin t.gone
                 PROVE  IF n \in MacsOf(t.new) THEN t.new.macs[n].segment \in {statics'[n], None}
                        ELSE statics'[n] = None
      BY <1>1, <1>5, <2>3 DEF StaticsFollow, StaticIs
    <3>1. CASE n = m
      BY <1>5, <2>1, <3>1 DEF FilesInvariant, DeviceTypes
    <3>2. CASE n # m
      <4>1. StaticIs(task.new, n)
        BY <1>1, <1>3, <2>3, <3>2 DEF FilesInvariant, StaticsFollow
      <4>2. statics'[n] = statics[n]
        BY <2>1, <3>2 DEF FilesInvariant, DeviceTypes
      <4> QED BY <1>3, <4>1, <4>2 DEF StaticIs
    <3> QED BY <3>1, <3>2
  <2>5. PlacesFollow'
    BY <1>1, <2>1, <2>3 DEF FilesInvariant, PlacesFollow, PlacedIs
  <2> QED BY <1>1, <1>6, <1>7, <2>2, <2>4, <2>5, Untouched DEF FilesInvariant
<1>9. CASE task.file = "placements"
  <2>1. placements' = [placements EXCEPT ![m] = None] /\ statics' = statics
    BY <1>9 DEF RemoveDevice, Remove
  <2>2. DeviceTypes'
    BY <1>1, <2>1 DEF FilesInvariant, DeviceTypes
  <2>3. Reloading("placements") /\ Reloading("placements")' /\ ~Reloading("behaviors") /\ ~Reloading("behaviors")'
    BY <1>1, <1>3, <1>4, <1>9 DEF Reloading
  <2>4. StaticsFollow'
    BY <1>1, <2>1, <2>3 DEF FilesInvariant, StaticsFollow, StaticIs
  <2>5. PlacesFollow'
    <3> SUFFICES ASSUME "placements" \notin raced, phase # "ended", t.pc # "fail",
                        NEW n \in Mac, n \notin t.todo, n \notin t.gone
                 PROVE  placements'[n] = IF n \in MacsOf(t.new) THEN t.new.macs[n] ELSE None
      BY <1>1, <2>3 DEF PlacesFollow, PlacedIs
    <3>1. CASE n = m
      BY <1>5, <2>1, <3>1 DEF FilesInvariant, DeviceTypes
    <3>2. CASE n # m
      <4>1. PlacedIs(task.new, n)
        BY <1>1, <1>3, <2>3, <3>2 DEF FilesInvariant, PlacesFollow
      <4>2. placements'[n] = placements[n]
        BY <2>1, <3>2 DEF FilesInvariant, DeviceTypes
      <4> QED BY <1>3, <4>1, <4>2 DEF PlacedIs
    <3> QED BY <3>1, <3>2
  <2> QED BY <1>1, <1>6, <1>7, <2>2, <2>4, <2>5, Untouched DEF FilesInvariant
<1> QED BY <1>2, <1>8, <1>9 DEF File

LEMMA FinishKeeps == ASSUME FilesInvariant, Finish PROVE FilesInvariant'
<1> PICK f \in File : f = task.file
  BY DEF FilesInvariant, TaskOK, TaskIs, Finish
<1>1. /\ task # None /\ task' = None
      /\ loaded' = [loaded EXCEPT ![f] = task.new]
      /\ stored' = IF phase = "watching" THEN [stored EXCEPT ![f] = task.new] ELSE stored
      /\ phase' = AfterLoad(phase)
      /\ UNCHANGED <<file, raced, pending, changes, devices, auth, ignoreStatic>>
  BY DEF Finish, EndOfTask
<1>2. TaskIs(task, phase, ignoreStatic) /\ task \in TaskOf(f) /\ task.new \in Content(f)
  BY <1>1 DEF FilesInvariant, TaskOK, TaskIs, TaskOf
<1>3. \/ phase = "watching" /\ phase' = "watching"
      \/ phase \in {"load placements", "load behaviors"} /\ f = FileOf(phase) /\ phase' = RegisterPhase(f)
  <2>1. phase \in {"load placements", "load behaviors", "watching"}
    BY <1>2 DEF TaskIs
  <2>2. phase # "watching" => f = FileOf(phase)
    BY <1>2 DEF TaskIs
  <2>3. CASE phase = "watching"
    <3>1. AfterLoad("watching") = "watching"
      BY DEF AfterLoad
    <3> QED BY <1>1, <2>3, <3>1
  <2>4. CASE phase = "load placements"
    BY <1>1, <2>2, <2>4 DEF AfterLoad, FileOf, RegisterPhase
  <2>5. CASE phase = "load behaviors"
    BY <1>1, <2>2, <2>5 DEF AfterLoad, FileOf, RegisterPhase
  <2> QED BY <2>1, <2>3, <2>4, <2>5
<1>4. /\ task.todo = {} /\ task.gone = {}
      /\ \/ /\ task.pc = "fail" /\ task.new \in Unreadable
            /\ errors' = errors \cup {f} /\ ignoreAuth' = TRUE
            /\ f = "placements" => placements = NoDevices
         \/ /\ task.pc = "apply" /\ task.new \notin Unreadable
            /\ UNCHANGED <<errors, ignoreAuth>>
  BY <1>2, MacsOfContent DEF Finish, Fail, TaskIs
<1>5. /\ \A g \in File : g # f => loaded'[g] = loaded[g] /\ stored'[g] = stored[g]
      /\ loaded'[f] = task.new
      /\ phase = "watching" => stored'[f] = task.new
      /\ phase # "watching" => stored' = stored
  BY <1>1 DEF FilesInvariant, WatcherTypes
<1>6. WatcherTypes'
  <2>1. DOMAIN stored' = File /\ DOMAIN loaded' = File
    BY <1>1 DEF FilesInvariant, WatcherTypes
  <2>2. \A g \in File : stored'[g] \in Content(g) /\ loaded'[g] \in Content(g)
    BY <1>2, <1>5 DEF FilesInvariant, WatcherTypes
  <2>3. phase' \in Phase
    BY <1>3 DEF RegisterPhase, Phase
  <2> QED BY <1>1, <2>1, <2>2, <2>3 DEF FilesInvariant, WatcherTypes
<1>7. FlagTypes' /\ TaskOK'
  BY <1>1, <1>4 DEF FilesInvariant, FlagTypes, TaskOK
<1>8. FilesFollow'
  <2>1. ASSUME NEW g \in File \ raced PROVE stored'[g] = loaded'[g] \/ phase' = RegisterPhase(g)
    <3>1. g # f => stored[g] = loaded[g]
      BY <1>3 DEF FilesInvariant, FilesFollow, RegisterPhase
    <3>2. CASE g = f
      BY <1>3, <1>5, <3>2
    <3>3. CASE g # f
      BY <1>5, <3>1, <3>3
    <3> QED BY <3>2, <3>3
  <2>2. phase' \notin {"configure", "orchestrate", "load placements", "load behaviors"}
    BY <1>3 DEF RegisterPhase
  <2>3. phase' = "register placements" => loaded'["behaviors"] = Missing
    <3>1. phase' = "register placements" => phase = "load placements" /\ f = "placements"
      BY <1>3 DEF RegisterPhase, FileOf, File
    <3> QED BY <1>5, <3>1 DEF FilesInvariant, FilesFollow, File
  <2> QED BY <1>1, <2>1, <2>2, <2>3 DEF FilesFollow
<1>9. UNCHANGED <<statics, placements>>
  BY <1>1 DEF devices
<1>10. StaticsFollow'
  <2> SUFFICES ASSUME "behaviors" \notin raced PROVE \A m \in Mac : StaticIs(loaded'["behaviors"], m)
    BY <1>1, <1>9 DEF StaticsFollow, StaticIs, Reloading
  <2>1. CASE f = "behaviors"
    BY <1>1, <1>4, <1>5, <2>1 DEF FilesInvariant, StaticsFollow, Reloading
  <2>2. CASE f # "behaviors"
    <3>1. ~Reloading("behaviors") /\ loaded'["behaviors"] = loaded["behaviors"]
      BY <1>5, <2>2 DEF Reloading, File
    <3> QED BY <3>1 DEF FilesInvariant, StaticsFollow
  <2> QED BY <2>1, <2>2
<1>11. PlacesFollow'
  <2> SUFFICES ASSUME "placements" \notin raced PROVE \A m \in Mac : PlacedIs(loaded'["placements"], m)
    BY <1>1, <1>9 DEF PlacesFollow, PlacedIs, Reloading
  <2>0. phase # "ended"
    BY <1>3
  <2>1. CASE f = "placements" /\ task.pc = "fail"
    <3>1. loaded'["placements"] \in Unreadable /\ placements = NoDevices
      BY <1>4, <1>5, <2>1
    <3> QED BY <3>1, MacsOfContent DEF PlacedIs, NoDevices
  <2>2. CASE f = "placements" /\ task.pc # "fail"
    BY <1>1, <1>4, <1>5, <2>0, <2>2 DEF FilesInvariant, PlacesFollow, Reloading
  <2>3. CASE f # "placements"
    <3>1. ~Reloading("placements") /\ loaded'["placements"] = loaded["placements"]
      BY <1>5, <2>3 DEF Reloading, File
    <3> QED BY <2>0, <3>1 DEF FilesInvariant, PlacesFollow
  <2> QED BY <2>1, <2>2, <2>3
<1>12. FlagsFollow'
  <2>0. /\ errors' \in {errors, errors \cup {f}} /\ errors \subseteq errors' /\ ignoreStatic' = ignoreStatic
        /\ ignoreAuth => ignoreAuth'
        /\ f \in errors' \ errors => ignoreAuth'
        /\ ignoreAuth' => ignoreAuth \/ errors' # {}
    <3>1. CASE task.pc = "fail"
      BY <1>1, <1>4, <3>1
    <3>2. CASE task.pc = "apply"
      <4>1. errors' = errors /\ ignoreAuth' = ignoreAuth /\ ignoreStatic' = ignoreStatic
        BY <1>1, <1>4, <3>2
      <4> QED BY <4>1, Zenon
    <3> QED BY <1>4, <3>1, <3>2
  <2>1. ignoreStatic' => ignoreAuth'
    BY <2>0 DEF FilesInvariant, FlagsFollow
  <2>2. errors' \ File # {} => ignoreStatic'
    <3>1. errors' \ File = errors \ File
      BY <2>0
    <3> QED BY <2>0, <3>1 DEF FilesInvariant, FlagsFollow
  <2>3. "behaviors" \in errors' => ignoreAuth'
    BY <2>0 DEF FilesInvariant, FlagsFollow
  <2>4. ignoreAuth' /\ ~ignoreStatic' => errors' # {}
    BY <2>0 DEF FilesInvariant, FlagsFollow
  <2>5. ASSUME ~ignoreStatic, phase' \in {"register behaviors", "start", "watching"}
        PROVE  "behaviors" \in errors' <=> loaded'["behaviors"] \in Unreadable
    <3>1. CASE f = "behaviors"
      <4>1. task.pc = "apply" => "behaviors" \notin errors
        BY <1>1, <3>1 DEF FilesInvariant, FlagsFollow, Reloading
      <4> QED BY <1>4, <1>5, <3>1, <4>1
    <3>2. CASE f # "behaviors"
      <4>1. f = "placements" /\ phase = "watching"
        BY <1>3, <2>5, <3>2 DEF RegisterPhase, File
      <4>2. ~Reloading("behaviors")
        BY <4>1 DEF Reloading
      <4>3. "behaviors" \in errors <=> loaded["behaviors"] \in Unreadable
        BY <2>5, <4>1, <4>2 DEF FilesInvariant, FlagsFollow
      <4> QED BY <1>5, <2>0, <4>1, <4>3 DEF File
    <3> QED BY <3>1, <3>2
  <2>6. ~Reloading("behaviors")'
    BY <1>1 DEF Reloading
  <2> QED BY <2>0, <2>1, <2>2, <2>3, <2>4, <2>5, <2>6 DEF FlagsFollow
<1> QED BY <1>1, <1>6, <1>7, <1>8, <1>10, <1>11, <1>12, Untouched DEF FilesInvariant

-----------------------------------------------------------------------------
(* The main thread, and the thread of the watcher. *)

\* A reload starts from the content that was loaded last.
LEMMA BeginKeeps ==
    ASSUME FilesInvariant, NEW f \in File, NEW old \in Content(f), task = None, task' = Begin(f, file[f], old),
           phase = "watching" \/ (phase \in {"load placements", "load behaviors"} /\ f = FileOf(phase)),
           f \notin raced => old = loaded[f], f = "behaviors" => ~ignoreStatic,
           pending' \subseteq pending,
           UNCHANGED <<file, stored, loaded, raced, changes, phase, devices, auth, flags>>
    PROVE  FilesInvariant'
<1> PICK t : t = Begin(f, file[f], old)
  OBVIOUS
<1>1. BegunTask(t, f, file[f], old)
  BY Begun DEF FilesInvariant, WatcherTypes
<1>2. WatcherTypes'
  BY DEF FilesInvariant, WatcherTypes
<1>3. ignoreStatic' = ignoreStatic /\ statics' = statics /\ placements' = placements
  BY DEF flags, devices
<1>4. TaskOK'
  <2>1. file[f] \in Unreadable => t.gone \cap MacsOf(t.new) = {}
    BY <1>1, MacsOfContent DEF BegunTask
  <2>2. TaskIs(t, phase, ignoreStatic)
    <3>1. f = "behaviors" => ignoreStatic = FALSE
      BY DEF FilesInvariant, FlagTypes
    <3> QED BY <1>1, <2>1, <3>1, Zenon DEF TaskIs, BegunTask
  <2> QED BY <1>3, <2>2 DEF TaskOK
<1>5. FilesFollow'
  BY <1>1 DEF FilesInvariant, FilesFollow, BegunTask
<1>6. \A g \in File : ~Reloading(g) /\ (Reloading(g)' <=> g = f)
  BY <1>1 DEF Reloading, BegunTask
<1>7. StaticsFollow'
  <2>1. ASSUME "behaviors" \notin raced PROVE \A m \in Mac : StaticIs(loaded["behaviors"], m)
    BY <1>6, <2>1 DEF FilesInvariant, StaticsFollow, File
  <2>2. CASE f = "behaviors"
    <3> SUFFICES ASSUME "behaviors" \notin raced
                 PROVE  /\ \A m \in Mac : m \notin t.todo /\ m \notin t.gone => StaticIs(t.new, m)
                        /\ \A m \in t.todo \cap t.gone : m \in MacsOf(t.old) /\ StaticIs(t.old, m)
      BY <1>3, <1>6, <2>2 DEF StaticsFollow, StaticIs, File
    <3>1. \A m \in Mac : StaticIs(old, m)
      BY <2>1, <2>2
    <3>2. CASE file[f] \in Unreadable
      <4>1. t.todo = {} /\ MacsOf(t.new) = {}
        BY <1>1, <3>2, MacsOfContent DEF BegunTask
      <4> QED BY <1>1, <2>2, <3>2, <4>1 DEF StaticIs, BegunTask
    <3>3. CASE file[f] \notin Unreadable
      <4>1. ASSUME NEW m \in Mac, m \notin t.todo, m \notin t.gone PROVE StaticIs(t.new, m)
        BY <1>1, <3>1, <3>3, <4>1 DEF StaticIs, BegunTask
      <4>2. t.todo \subseteq Mac /\ t.gone = MacsOf(old)
        BY <1>1, <3>3 DEF TaskOf, BegunTask
      <4> QED BY <1>1, <3>1, <4>1, <4>2 DEF BegunTask
    <3> QED BY <3>2, <3>3
  <2>3. CASE f # "behaviors"
    BY <1>3, <1>6, <2>1, <2>3 DEF StaticsFollow, StaticIs, File
  <2> QED BY <2>2, <2>3
<1>8. PlacesFollow'
  <2>1. ASSUME "placements" \notin raced, phase # "ended" PROVE \A m \in Mac : PlacedIs(loaded["placements"], m)
    BY <1>6, <2>1 DEF FilesInvariant, PlacesFollow, File
  <2>2. CASE f = "placements"
    <3> SUFFICES ASSUME "placements" \notin raced, phase # "ended", t.pc # "fail",
                        NEW m \in Mac, m \notin t.todo, m \notin t.gone
                 PROVE  PlacedIs(t.new, m)
      BY <1>3, <1>6, <2>2 DEF PlacesFollow, PlacedIs, File
    <3>1. PlacedIs(old, m)
      BY <2>1, <2>2
    <3> QED BY <1>1, <3>1 DEF PlacedIs, BegunTask
  <2>3. CASE f # "placements"
    BY <1>3, <1>6, <2>1, <2>3 DEF PlacesFollow, PlacedIs, File
  <2> QED BY <2>2, <2>3
<1>9. FlagsFollow'
  <2>1. errors' = errors /\ ignoreStatic' = ignoreStatic /\ ignoreAuth' = ignoreAuth /\ phase' = phase /\ loaded' = loaded
    BY DEF flags
  <2>2. f = "behaviors" /\ t.pc = "apply" => FALSE
    BY <1>1 DEF BegunTask
  <2>3. Reloading("behaviors")' /\ task'.pc = "apply" => "behaviors" \notin errors'
    BY <1>6, <2>2 DEF File
  <2>4. ~Reloading("behaviors")
    BY DEF Reloading
  <2>5. ignoreStatic' => ignoreAuth'
    BY <2>1, Zenon DEF FilesInvariant, FlagsFollow
  <2>6. errors' \ File # {} => ignoreStatic'
    BY <2>1, Zenon DEF FilesInvariant, FlagsFollow
  <2>7. "behaviors" \in errors' => ignoreAuth'
    BY <2>1, Zenon DEF FilesInvariant, FlagsFollow
  <2>8. ignoreAuth' /\ ~ignoreStatic' => errors' # {}
    BY <2>1, Zenon DEF FilesInvariant, FlagsFollow
  <2>9. ~ignoreStatic' /\ phase' \in {"register behaviors", "start", "watching"} =>
            ("behaviors" \in errors' <=> loaded'["behaviors"] \in Unreadable)
    BY <2>1, <2>4, Zenon DEF FilesInvariant, FlagsFollow
  <2> QED BY <2>3, <2>5, <2>6, <2>7, <2>8, <2>9 DEF FlagsFollow
<1> QED BY <1>2, <1>3, <1>4, <1>5, <1>7, <1>8, <1>9, Untouched DEF FilesInvariant

\* A step of the main thread between two reloads: its part of the flags and of the registered
\* contents is left to be shown.
LEMMA MainStepKeeps ==
    ASSUME FilesInvariant, task = None, task' = None, phase # "ended", phase' \in Phase, raced \subseteq raced',
           raced' \subseteq File, DOMAIN stored' = File, \A f \in File : stored'[f] \in Content(f),
           UNCHANGED <<file, loaded, pending, changes, devices, auth>>,
           FilesFollow', FlagTypes', FlagsFollow'
    PROVE  FilesInvariant'
<1>1. WatcherTypes'
  BY DEF FilesInvariant, WatcherTypes
<1>2. TaskOK'
  BY DEF TaskOK
<1>3. statics' = statics /\ placements' = placements
  BY DEF devices
<1>4. StaticsFollow'
  BY <1>3 DEF FilesInvariant, StaticsFollow, StaticIs, Reloading
<1>5. PlacesFollow'
  BY <1>3 DEF FilesInvariant, PlacesFollow, PlacedIs, Reloading
<1> QED BY <1>1, <1>2, <1>4, <1>5, Untouched DEF FilesInvariant

\* Flags that stay as they are, in a phase that says no more of them than the last one.
LEMMA FlagsLast ==
    ASSUME FilesInvariant, task = None, task' = None, UNCHANGED <<flags, loaded>>,
           \/ phase \in {"register behaviors", "start", "watching"}
           \/ phase' \notin {"register behaviors", "start", "watching"}
           \/ ignoreStatic
    PROVE  FlagTypes' /\ FlagsFollow'
<1>1. errors' = errors /\ ignoreStatic' = ignoreStatic /\ ignoreAuth' = ignoreAuth /\ loaded' = loaded
  BY DEF flags
<1>2. ~Reloading("behaviors") /\ ~Reloading("behaviors")'
  BY DEF Reloading
<1>3. ignoreStatic' => ignoreAuth'
  BY <1>1, Zenon DEF FilesInvariant, FlagsFollow
<1>4. errors' \ File # {} => ignoreStatic'
  BY <1>1, Zenon DEF FilesInvariant, FlagsFollow
<1>5. "behaviors" \in errors' => ignoreAuth'
  BY <1>1, Zenon DEF FilesInvariant, FlagsFollow
<1>6. ignoreAuth' /\ ~ignoreStatic' => errors' # {}
  BY <1>1, Zenon DEF FilesInvariant, FlagsFollow
<1>7. ~ignoreStatic /\ phase \in {"register behaviors", "start", "watching"} =>
          ("behaviors" \in errors <=> loaded["behaviors"] \in Unreadable)
  BY <1>2, Zenon DEF FilesInvariant, FlagsFollow
<1>8. ~ignoreStatic' /\ phase' \in {"register behaviors", "start", "watching"} =>
          ("behaviors" \in errors' <=> loaded'["behaviors"] \in Unreadable)
  BY <1>1, <1>7, Zenon
<1>9. FlagsFollow'
  BY <1>2, <1>3, <1>4, <1>5, <1>6, <1>8 DEF FlagsFollow
<1> QED BY <1>9, Untouched

LEMMA LoadKeeps == ASSUME FilesInvariant, Load PROVE FilesInvariant'
<1>1. /\ task = None /\ phase \in {"load placements", "load behaviors"}
      /\ UNCHANGED <<file, stored, loaded, raced, pending, changes, devices, auth, flags>>
  BY DEF Load
<1> PICK f \in File : f = FileOf(phase)
  BY DEF FileOf, File
<1>2. CASE phase = "load behaviors" /\ ignoreStatic
  <2>1. phase' = "start" /\ task' = None
    BY <1>1, <1>2 DEF Load
  <2>2. FilesFollow'
    <3>1. \A g \in File \ raced : stored[g] = loaded[g]
      BY <1>2 DEF FilesInvariant, FilesFollow, RegisterPhase
    <3> QED BY <1>1, <2>1, <3>1 DEF FilesFollow
  <2>3. FlagTypes' /\ FlagsFollow'
    BY <1>1, <1>2, <2>1, FlagsLast
  <2>4. DOMAIN stored' = File /\ (\A g \in File : stored'[g] \in Content(g)) /\ raced' \subseteq File /\ phase' \in Phase
    BY <1>1, <2>1 DEF FilesInvariant, WatcherTypes, Phase
  <2> QED BY <1>1, <2>1, <2>2, <2>3, <2>4, MainStepKeeps
<1>3. CASE ~(phase = "load behaviors" /\ ignoreStatic)
  <2>1. task' = Begin(f, file[f], Missing) /\ phase' = phase
    BY <1>3 DEF Load, Missing
  <2>2. Missing \in Content(f)
    BY MacsOfContent DEF Missing, Unreadable
  <2>3. f \notin raced => Missing = loaded[f]
    BY <1>1 DEF FilesInvariant, FilesFollow, FileOf
  <2>4. f = "behaviors" => ~ignoreStatic
    BY <1>1, <1>3 DEF FileOf
  <2> QED BY <1>1, <2>1, <2>2, <2>3, <2>4, BeginKeeps
<1> QED BY <1>2, <1>3

LEMMA RegisterKeeps == ASSUME FilesInvariant, Register PROVE FilesInvariant'
<1> PICK f \in File : f = FileOf(phase)
  BY DEF FileOf, File
<1>1. /\ task = None /\ phase \in {"register placements", "register behaviors"}
      /\ stored' = [stored EXCEPT ![f] = file[f]]
      /\ raced' = IF file[f] # loaded[f] THEN raced \cup {f} ELSE raced
      /\ phase' = IF phase = "register placements" THEN "load behaviors" ELSE "start"
      /\ UNCHANGED <<file, loaded, pending, changes, task, devices, auth, flags>>
  BY DEF Register
<1>2. DOMAIN stored' = File /\ (\A g \in File : stored'[g] \in Content(g)) /\ raced' \subseteq File /\ phase' \in Phase
  BY <1>1 DEF FilesInvariant, WatcherTypes, Phase
<1>3. FilesFollow'
  <2>1. ASSUME NEW g \in File \ raced' PROVE stored'[g] = loaded[g]
    <3>1. CASE g = f
      BY <1>1, <3>1 DEF FilesInvariant, WatcherTypes
    <3>2. CASE g # f
      <4>1. phase # RegisterPhase(g) /\ g \notin raced
        BY <1>1, <3>2 DEF RegisterPhase, FileOf, File
      <4>2. stored[g] = loaded[g]
        BY <4>1 DEF FilesInvariant, FilesFollow
      <4> QED BY <1>1, <3>2, <4>2 DEF FilesInvariant, WatcherTypes
    <3> QED BY <3>1, <3>2
  <2>2. phase' = "load behaviors" => loaded["behaviors"] = Missing
    BY <1>1 DEF FilesInvariant, FilesFollow
  <2> QED BY <1>1, <2>1, <2>2 DEF FilesFollow
<1>4. FlagTypes' /\ FlagsFollow'
  BY <1>1, FlagsLast
<1> QED BY <1>1, <1>2, <1>3, <1>4, MainStepKeeps

LEMMA StartKeeps == ASSUME FilesInvariant, Start PROVE FilesInvariant'
<1>1. /\ phase = "start" /\ phase' = "watching"
      /\ UNCHANGED <<file, stored, loaded, raced, pending, changes, task, devices, auth, flags>>
  BY DEF Start
<1>2. task = None
  BY <1>1 DEF FilesInvariant, TaskOK, TaskIs
<1>3. FilesFollow'
  <2>1. \A g \in File \ raced : stored[g] = loaded[g]
    BY <1>1 DEF FilesInvariant, FilesFollow, RegisterPhase
  <2> QED BY <1>1, <1>2, <2>1 DEF FilesFollow
<1>4. FlagTypes' /\ FlagsFollow'
  BY <1>1, <1>2, FlagsLast
<1>5. DOMAIN stored' = File /\ (\A g \in File : stored'[g] \in Content(g)) /\ raced' \subseteq File /\ phase' \in Phase
  BY <1>1 DEF FilesInvariant, WatcherTypes, Phase
<1> QED BY <1>1, <1>2, <1>3, <1>4, <1>5, MainStepKeeps

LEMMA HandleFileChangeKeeps ==
    ASSUME FilesInvariant, NEW f \in File, HandleFileChange(f)
    PROVE  FilesInvariant'
<1>1. /\ phase = "watching" /\ task = None /\ pending' = pending \ {f}
      /\ UNCHANGED <<file, stored, loaded, raced, changes, phase, devices, auth, flags>>
  BY DEF HandleFileChange
<1>2. CASE file[f] = stored[f] \/ (f = "behaviors" /\ ignoreStatic)
  <2>1. task' = None
    BY <1>2 DEF HandleFileChange
  <2>2. WatcherTypes'
    BY <1>1 DEF FilesInvariant, WatcherTypes
  <2>3. UNCHANGED <<statics, placements, ignoreStatic, task>>
    BY <1>1, <2>1 DEF devices, flags
  <2> QED BY <1>1, <2>2, <2>3, Untouched DEF FilesInvariant
<1>3. CASE ~(file[f] = stored[f] \/ (f = "behaviors" /\ ignoreStatic))
  <2>1. task' = Begin(f, file[f], stored[f])
    BY <1>3 DEF HandleFileChange
  <2>2. stored[f] \in Content(f)
    BY DEF FilesInvariant, WatcherTypes
  <2>3. f \notin raced => stored[f] = loaded[f]
    BY <1>1 DEF FilesInvariant, FilesFollow, RegisterPhase
  <2>4. f = "behaviors" => ~ignoreStatic
    BY <1>3
  <2> QED BY <1>1, <2>1, <2>2, <2>3, <2>4, BeginKeeps
<1> QED BY <1>2, <1>3

\* Authentication is disabled before anything is loaded.
LEMMA DisableAuthKeeps ==
    ASSUME FilesInvariant, NEW wrong \in SUBSET {"tail_acl", "segments_vlans"}, NEW disable \in BOOLEAN,
           wrong # {} => disable, DisableAuth(disable), errors' = errors \cup wrong,
           phase \in {"configure", "orchestrate"}, phase' \in {"orchestrate", "load placements"},
           UNCHANGED <<file, stored, loaded, raced, pending, changes, task, devices, auth>>
    PROVE  FilesInvariant'
<1>1. ignoreStatic' = (ignoreStatic \/ disable) /\ ignoreAuth' = (ignoreAuth \/ disable)
  BY DEF DisableAuth
<1>2. task = None /\ ~Reloading("behaviors")'
  BY DEF FilesInvariant, TaskOK, TaskIs, Reloading
<1>3. FilesFollow'
  <2>1. \A g \in File \ raced : stored[g] = loaded[g]
    BY DEF FilesInvariant, FilesFollow, RegisterPhase
  <2>2. loaded["placements"] = Missing /\ loaded["behaviors"] = Missing
    BY DEF FilesInvariant, FilesFollow
  <2> QED BY <1>2, <2>1, <2>2 DEF FilesFollow
<1>4. FlagTypes'
  BY <1>1 DEF FilesInvariant, FlagTypes
<1>5. FlagsFollow'
  <2>1. ignoreStatic' => ignoreAuth'
    BY <1>1 DEF FilesInvariant, FlagsFollow
  <2>2. errors' \ File # {} => ignoreStatic'
    BY <1>1 DEF FilesInvariant, FlagsFollow
  <2>3. "behaviors" \in errors' => ignoreAuth'
    BY <1>1 DEF FilesInvariant, FlagsFollow
  <2>4. ignoreAuth' /\ ~ignoreStatic' => errors' # {}
    BY <1>1 DEF FilesInvariant, FlagsFollow
  <2> QED BY <1>2, <2>1, <2>2, <2>3, <2>4 DEF FlagsFollow
<1>6. DOMAIN stored' = File /\ (\A g \in File : stored'[g] \in Content(g)) /\ raced' \subseteq File /\ phase' \in Phase
  BY DEF FilesInvariant, WatcherTypes, Phase
<1> QED BY <1>2, <1>3, <1>4, <1>5, <1>6, MainStepKeeps

LEMMA ConfigureKeeps ==
    ASSUME FilesInvariant, CalculateOrchestrationConfig \/ InitializeOrchestration
    PROVE  FilesInvariant'
<1>1. CASE CalculateOrchestrationConfig
  <2>1. PICK segmentsFile \in BOOLEAN : DisableAuth(~segmentsFile)
    BY <1>1 DEF CalculateOrchestrationConfig
  <2>2. /\ phase = "configure" /\ phase' = "orchestrate" /\ errors' = errors \cup {}
        /\ UNCHANGED <<file, stored, loaded, raced, pending, changes, task, devices, auth>>
    BY <1>1 DEF CalculateOrchestrationConfig
  <2>3. (~segmentsFile) \in BOOLEAN
    OBVIOUS
  <2> QED BY <2>1, <2>2, <2>3, DisableAuthKeeps
<1>2. CASE InitializeOrchestration
  <2>1. PICK wrong \in SUBSET {"tail_acl", "segments_vlans"} :
            errors' = errors \cup wrong /\ DisableAuth(wrong # {})
    BY <1>2 DEF InitializeOrchestration
  <2>2. /\ phase = "orchestrate" /\ phase' = "load placements"
        /\ UNCHANGED <<file, stored, loaded, raced, pending, changes, task, devices, auth>>
    BY <1>2 DEF InitializeOrchestration
  <2> QED BY <2>1, <2>2, DisableAuthKeeps
<1> QED BY <1>1, <1>2

-----------------------------------------------------------------------------
(* The theorems. *)

LEMMA NextFiles == FilesInvariant /\ [Next]_vars => FilesInvariant'
<1> SUFFICES ASSUME FilesInvariant, [Next]_vars PROVE FilesInvariant'
  OBVIOUS
<1>1. ASSUME NEW f \in File, NEW content \in Content(f), Change(f, content) PROVE FilesInvariant'
  BY <1>1, ChangeKeeps
<1>2. ASSUME NEW m \in Mac, NEW segment \in Segment \cup {None}, HandleAuthResult(m, segment) PROVE FilesInvariant'
  BY <1>2, HandleAuthResultKeeps
<1>3. ASSUME NEW m \in Mac, TimerFires(m) PROVE FilesInvariant'
  BY <1>3, TimerFiresKeeps
<1>4. CASE Reload
  <2>1. CASE Resume
    BY <2>1, ResumeKeeps
  <2>2. CASE Finish
    BY <2>2, FinishKeeps
  <2>3. CASE PlacementsRaise
    BY <2>3, RaisesKeep
  <2>4. ASSUME NEW m \in Mac, ClearPlacements(m) PROVE FilesInvariant'
    BY <2>4, RaisesKeep
  <2>5. ASSUME NEW m \in Mac, ApplyPlacement(m) PROVE FilesInvariant'
    BY <2>5, ApplyPlacementKeeps
  <2>6. ASSUME NEW m \in Mac, ReloadBehavior(m) PROVE FilesInvariant'
    BY <2>6, ReloadBehaviorKeeps
  <2>7. ASSUME NEW m \in Mac, RemoveDevice(m) PROVE FilesInvariant'
    BY <2>7, RemoveDeviceKeeps
  <2> QED BY <1>4, <2>1, <2>2, <2>3, <2>4, <2>5, <2>6, <2>7 DEF Reload
<1>5. CASE CalculateOrchestrationConfig \/ InitializeOrchestration
  BY <1>5, ConfigureKeeps
<1>6. CASE Load
  BY <1>6, LoadKeeps
<1>7. CASE Register
  BY <1>7, RegisterKeeps
<1>8. CASE Start
  BY <1>8, StartKeeps
<1>9. ASSUME NEW f \in File, HandleFileChange(f) PROVE FilesInvariant'
  BY <1>9, HandleFileChangeKeeps
<1>10. CASE OtherCallbackRaises
  BY <1>10, RaisesKeep
<1>11. CASE UNCHANGED vars
  <2>1. UNCHANGED <<watcher, devices, auth, flags>>
    BY <1>11 DEF vars
  <2>2. UNCHANGED <<file, stored, loaded, raced, pending, changes, phase, task, placements, statics, timers, ignoreStatic>>
    BY <2>1 DEF watcher, devices, flags
  <2> QED BY <2>1, <2>2, Untouched DEF FilesInvariant
<1> QED BY <1>1, <1>2, <1>3, <1>4, <1>5, <1>6, <1>7, <1>8, <1>9, <1>10, <1>11 DEF Next

LEMMA FilesHold == Spec => []FilesInvariant
BY InitFiles, NextFiles, PTL DEF Spec

\* What the invariant says where no reload is under way.
LEMMA InvFollows == FilesInvariant => Inv
<1> SUFFICES ASSUME FilesInvariant PROVE Inv
  OBVIOUS
<1>1. TypeOK
  <2>1. task \in Task \cup {None}
    BY Tasks DEF FilesInvariant, TaskOK, TaskIs
  <2>2. {ignoreStatic, ignoreAuth} \subseteq BOOLEAN
    BY DEF FilesInvariant, FlagTypes
  <2> QED BY <2>1, <2>2 DEF FilesInvariant, WatcherTypes, DeviceTypes, AuthTypes, FlagTypes, TypeOK
<1>2. StaticBehaviorsMatchFile
  BY DEF FilesInvariant, StaticsFollow, StaticIs, Reloading, Watching, StaticBehaviorsMatchFile
<1>3. PlacementsMatchFile
  BY DEF FilesInvariant, PlacesFollow, PlacedIs, Reloading, Watching, PlacementsMatchFile
<1> QED BY <1>1, <1>2, <1>3 DEF Inv

LEMMA DisabledFollows == FilesInvariant => DisabledForAReason
<1> SUFFICES ASSUME FilesInvariant PROVE DisabledForAReason
  OBVIOUS
<1>1. FlagTypes /\ FlagsFollow
  BY DEF FilesInvariant
<1>2. ASSUME ignoreStatic \/ "behaviors" \in errors PROVE AuthMode = "disabled"
  <2>1. ignoreAuth
    BY <1>1, <1>2, Zenon DEF FlagsFollow
  <2>2. ~(~ignoreStatic /\ "behaviors" \notin errors)
    BY <1>2
  <2> QED BY <2>1, <2>2, Zenon DEF AuthMode
<1>3. errors \ File # {} => ignoreStatic
  BY <1>1 DEF FlagsFollow
<1>4. ignoreAuth /\ ~ignoreStatic => errors # {}
  BY <1>1 DEF FlagsFollow
<1>5. Watching /\ ~ignoreStatic => ("behaviors" \in errors <=> loaded["behaviors"] \in Unreadable)
  BY <1>1 DEF FlagsFollow, Watching, Reloading
<1> QED BY <1>2, <1>3, <1>4, <1>5 DEF DisabledForAReason

\* However the two files were edited, when no reload is under way the static behaviours and
\* the static placements are those of the contents that were loaded last: none is left of an
\* earlier content, and an unreadable file leaves none (forchestrator.py:290-321, 339-377).
THEOREM FilesAreApplied == Spec => []Inv
BY FilesHold, InvFollows, PTL

\* Authentication is disabled while the file of behaviours cannot be read and comes back with
\* it, it is never disabled later without an error that says why, and what was wrong at the
\* start disables it for good (forchestrator.py:225-288, 339-377).
THEOREM AuthIsDisabledForAReason == Spec => []DisabledForAReason
BY FilesHold, DisabledFollows, PTL

=============================================================================
