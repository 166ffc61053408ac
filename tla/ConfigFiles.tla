------------------------------ MODULE ConfigFiles ------------------------------
(***************************************************************************)
(* The files with the static placements and the static behaviours of       *)
(* devices: their loading at the start, the watcher that reloads them when *)
(* they change, and the flags that enable authentication meanwhile         *)
(* (forch/forchestrator.py, forch/file_change_watcher.py).                 *)
(*                                                                         *)
(* A reload is a sequence of calls, so RADIUS results come in between.     *)
(* The thread of the watcher takes the events one after the other; an      *)
(* exception in a callback ends it, and no file is ever looked at again.   *)
(***************************************************************************)
EXTENDS Naturals, FiniteSets

CONSTANTS
    Mac, Place, Segment,
    PlacementFiles, \* readable contents: from some devices to their places
    BehaviorFiles,  \* readable contents: from some devices to their entries
    MaxChanges,     \* bound: how often the files change
    None

\* What the program uses of an entry: a segment, and a timestamp in the future.
Entry == [segment : Segment \cup {None}, scheduled : BOOLEAN]

File == {"placements", "behaviors"}

\* The contents of a file. A missing file and a malformed one differ in what the next reload does.
Unreadable == {[kind |-> "missing"], [kind |-> "malformed"]}
Readable(f) == {[kind |-> "readable", macs |-> content] :
                   content \in IF f = "placements" THEN PlacementFiles ELSE BehaviorFiles}
Content(f) == Readable(f) \cup Unreadable

\* `pc' says what comes next: setting the flags ("resume", "fail"), adding the devices of
\* `todo', then removing those of `gone'.
Task == UNION {[file : {f}, new : Content(f), old : Content(f), pc : {"resume", "fail", "apply"},
                todo : SUBSET Mac, gone : SUBSET Mac] : f \in File}

ASSUME ConfigAssumption ==
    /\ None \notin Place \cup Segment /\ MaxChanges \in Nat
    /\ None \notin Task
    /\ \A content \in PlacementFiles : content \in UNION {[macs -> Place] : macs \in SUBSET Mac}
    /\ \A content \in BehaviorFiles : content \in UNION {[macs -> Entry] : macs \in SUBSET Mac}

VARIABLES
    file,         \* the content of each file
    stored,       \* FileData.content of each file, once it is registered
    loaded,       \* the content that was loaded last: history, for the properties
    raced,        \* files that changed between their loading and their registration: history
    pending,      \* the files with an event in the queue of the observer
    changes,      \* how often a file has changed
    phase,        \* where the main thread is, then where the watcher is
    task,         \* the reload that is going on, or None
    placements,   \* _static_devices of the faucetizer
    statics,      \* _static_device_behaviors: their segments
    timers,       \* the devices in _scheduled_sequester_timer
    dynamics,     \* _dynamic_device_behaviors: their segments
    results,      \* the latest result of RADIUS for each device: history
    errors,       \* _forch_config_errors, as far as it is about these files
    ignoreStatic, \* _should_ignore_static_behavior
    ignoreAuth    \* _should_ignore_auth_result

watcher == <<file, stored, loaded, raced, pending, changes, phase, task>>
devices == <<placements, statics, timers>>
auth == <<dynamics, results>>
flags == <<errors, ignoreStatic, ignoreAuth>>
vars == <<watcher, devices, auth, flags>>

Phase == {"configure", "orchestrate", "load placements", "register placements", "load behaviors", "register behaviors",
          "start", "watching", "ended"}

NoDevices == [m \in Mac |-> None]

\* Forchestrator.__init__
ForchInit == errors = {} /\ ignoreStatic = FALSE /\ ignoreAuth = FALSE

Init ==
    /\ ForchInit
    /\ file \in [File -> UNION {Content(f) : f \in File}] /\ \A f \in File : file[f] \in Content(f)
    /\ stored = [f \in File |-> [kind |-> "missing"]] /\ loaded = stored
    /\ raced = {} /\ pending = {} /\ changes = 0
    /\ phase = "configure" /\ task = None
    /\ placements = NoDevices /\ statics = NoDevices /\ timers = {}
    /\ dynamics = NoDevices /\ results = NoDevices

-----------------------------------------------------------------------------
(* The environment. *)

\* Somebody writes or removes a file. Only a running observer notices.
Change(f, content) ==
    /\ changes < MaxChanges /\ content # file[f]
    /\ file' = [file EXCEPT ![f] = content]
    /\ changes' = changes + 1
    /\ pending' = IF phase = "watching" THEN pending \cup {f} ELSE pending
    /\ UNCHANGED <<stored, loaded, raced, phase, task, devices, auth, flags>>

\* _handle_auth_result, of a device that a file or a switch has placed.
HandleAuthResult(m, segment) ==
    /\ phase \in {"watching", "ended"} \/ placements[m] # None
    /\ results[m] # segment
    /\ results' = [results EXCEPT ![m] = segment]
    /\ dynamics' = IF ignoreAuth THEN dynamics ELSE [dynamics EXCEPT ![m] = segment]
    /\ UNCHANGED <<watcher, devices, flags>>

\* The timer of a scheduled sequestering fires.
TimerFires(m) ==
    /\ m \in timers
    /\ timers' = timers \ {m}
    /\ UNCHANGED <<watcher, placements, statics, auth, flags>>

-----------------------------------------------------------------------------
(* The two callbacks. *)

MacsOf(content) == IF content \in Unreadable THEN {} ELSE DOMAIN content.macs

\* Mutant: nothing is withdrawn when the file becomes unreadable.
BeginKeepsBehaviors(f, new, old) ==
    [file |-> f, new |-> new, old |-> old,
     pc |-> IF new \in Unreadable THEN "fail" ELSE IF f = "behaviors" THEN "resume" ELSE "apply",
     todo |-> MacsOf(new), gone |-> IF new \in Unreadable THEN {} ELSE MacsOf(old)]

\* The task of a callback, after it has parsed the contents.
Begin(f, new, old) ==
    [file |-> f, new |-> new, old |-> old,
     pc |-> IF new \in Unreadable THEN "fail" ELSE IF f = "behaviors" THEN "resume" ELSE "apply",
     todo |-> MacsOf(new),
     gone |-> IF new \in Unreadable THEN {m \in Mac : f = "behaviors" /\ statics[m] # None}
              ELSE MacsOf(old)]

\* An exception leaves the callback.
Raise ==
    /\ phase' = "ended" /\ task' = None
    /\ UNCHANGED <<file, stored, loaded, raced, pending, changes>>

\* clear_static_placements removes a device from the map it goes through, which raises.
ClearPlacements(m) ==
    /\ task # None /\ task.file = "placements" /\ task.pc = "fail" /\ placements[m] # None
    /\ placements' = [placements EXCEPT ![m] = None]
    /\ Raise
    /\ UNCHANGED <<statics, timers, auth, flags>>

\* The old content of the placements is parsed too, outside of the try statement; and the
\* old placement of a device that stays in the file is looked up under the set of all macs.
PlacementsRaise ==
    /\ task # None /\ task.file = "placements" /\ task.pc = "apply"
    /\ \/ task.old.kind = "malformed"
       \/ task.todo \cap task.gone # {}
    /\ Raise
    /\ UNCHANGED <<devices, auth, flags>>

\* The device is placed for good; RADIUS is asked about it from now on.
ProcessDevicePlacement(m, place) == placements' = [placements EXCEPT ![m] = place]

\* A device of the placement file that was not in it before.
ApplyPlacement(m) ==
    /\ task # None /\ task.file = "placements" /\ task.pc = "apply" /\ task.old.kind # "malformed"
    /\ m \in task.todo \ task.gone
    /\ ProcessDevicePlacement(m, task.new.macs[m])
    /\ task' = [task EXCEPT !.todo = @ \ {m}]
    /\ UNCHANGED <<file, stored, loaded, raced, pending, changes, phase, statics, timers, auth, flags>>

\* handle_static_device_behavior
ApplyBehavior(m, entry) ==
    /\ statics' = IF entry.segment = None THEN statics ELSE [statics EXCEPT ![m] = entry.segment]
    /\ timers' = IF entry.scheduled THEN timers \cup {m} ELSE timers \ {m}

\* A device of the behaviour file: an entry that is as before is left alone.
ReloadBehavior(m) ==
    /\ task # None /\ task.file = "behaviors" /\ task.pc = "apply"
    /\ m \in task.todo
    /\ task' = [task EXCEPT !.todo = @ \ {m}, !.gone = @ \ {m}]
    /\ IF m \in task.gone /\ task.old.macs[m] = task.new.macs[m]
       THEN UNCHANGED <<statics, timers>>
       ELSE ApplyBehavior(m, task.new.macs[m])
    /\ UNCHANGED <<file, stored, loaded, raced, pending, changes, phase, placements, auth, flags>>

Remove(f, m) ==
    IF f = "behaviors"
    THEN statics' = [statics EXCEPT ![m] = None] /\ UNCHANGED placements
    ELSE placements' = [placements EXCEPT ![m] = None] /\ UNCHANGED statics

\* clear_static_placement, clear_static_device_behavior: a device that is gone from the file,
\* or any device when the file of behaviours cannot be read.
RemoveDevice(m) ==
    /\ task # None
    /\ \/ task.pc = "apply" /\ task.todo = {}
       \/ task.pc = "fail" /\ task.file = "behaviors"
    /\ task.old.kind = "malformed" => task.file = "behaviors"
    /\ m \in task.gone
    /\ task' = [task EXCEPT !.gone = @ \ {m}]
    /\ Remove(task.file, m)
    /\ UNCHANGED <<file, stored, loaded, raced, pending, changes, phase, timers, auth, flags>>

-----------------------------------------------------------------------------
(* The flags, and the end of a reload. *)

\* The file of behaviours can be read: whatever else disables authentication is forgotten.
Resume ==
    /\ task # None /\ task.pc = "resume"
    /\ errors' = errors \ {"behaviors"}
    /\ ignoreAuth' = FALSE
    /\ task' = [task EXCEPT !.pc = "apply"]
    /\ UNCHANGED <<file, stored, loaded, raced, pending, changes, phase, devices, auth, ignoreStatic>>

\* Where the main thread goes on after a file is loaded.
AfterLoad(p) ==
    CASE p = "load placements" -> "register placements" [] p = "load behaviors" -> "register behaviors"
      [] OTHER -> p

\* Mutant: the content is read again when it is stored.
EndOfTaskRereads ==
    /\ task' = None
    /\ loaded' = [loaded EXCEPT ![task.file] = task.new]
    /\ stored' = IF phase = "watching" THEN [stored EXCEPT ![task.file] = file[task.file]] ELSE stored
    /\ phase' = AfterLoad(phase)
    /\ UNCHANGED <<file, raced, pending, changes>>

\* The callback returns: to the watcher, or to the main thread.
EndOfTask ==
    /\ task' = None
    /\ loaded' = [loaded EXCEPT ![task.file] = task.new]
    /\ stored' = IF phase = "watching" THEN [stored EXCEPT ![task.file] = task.new] ELSE stored
    /\ phase' = AfterLoad(phase)
    /\ UNCHANGED <<file, raced, pending, changes>>

\* Mutant: authentication goes on.
FailReportsOnly(f) == errors' = errors \cup {f} /\ UNCHANGED ignoreAuth

Fail(f) == errors' = errors \cup {f} /\ ignoreAuth' = TRUE

\* The last step of a callback: the error is noted if there was one.
Finish ==
    /\ task # None
    /\ \/ /\ task.pc = "fail" /\ task.gone = {}
          /\ task.file = "placements" => placements = NoDevices
          /\ Fail(task.file)
       \/ /\ task.pc = "apply" /\ task.todo = {} /\ task.gone = {}
          /\ task.file = "placements" => task.old.kind # "malformed"
          /\ UNCHANGED <<errors, ignoreAuth>>
    /\ EndOfTask
    /\ UNCHANGED <<devices, auth, ignoreStatic>>

-----------------------------------------------------------------------------
(* The main thread at the start, and the thread of the watcher. *)

\* Both flags are set while something is wrong that only a restart repairs.
DisableAuth(wrong) ==
    /\ ignoreStatic' = (ignoreStatic \/ wrong)
    /\ ignoreAuth' = (ignoreAuth \/ wrong)

\* The names of the files: there may be none with the VLANs of the segments.
CalculateOrchestrationConfig ==
    /\ phase = "configure" /\ phase' = "orchestrate"
    /\ \E segmentsFile \in BOOLEAN : DisableAuth(~segmentsFile)
    /\ UNCHANGED <<file, stored, loaded, raced, pending, changes, task, devices, auth, errors>>

\* _initialize_orchestration up to the static files: the tail ACL may be missing, and the
\* file of segments, if there is one, may not be readable.
InitializeOrchestration ==
    /\ phase = "orchestrate" /\ phase' = "load placements"
    /\ \E wrong \in SUBSET {"tail_acl", "segments_vlans"} :
           /\ "segments_vlans" \in wrong => ~ignoreStatic
           /\ errors' = errors \cup wrong
           /\ DisableAuth(wrong # {})
    /\ UNCHANGED <<file, stored, loaded, raced, pending, changes, task, devices, auth>>

FileOf(p) == IF p \in {"load placements", "register placements"} THEN "placements" ELSE "behaviors"

\* _process_static_device_placement, _process_static_device_behavior: load ...
Load ==
    /\ task = None /\ phase \in {"load placements", "load behaviors"}
    /\ IF phase = "load behaviors" /\ ignoreStatic
       THEN phase' = "start" /\ UNCHANGED task
       ELSE /\ task' = Begin(FileOf(phase), file[FileOf(phase)], [kind |-> "missing"])
            /\ UNCHANGED phase
    /\ UNCHANGED <<file, stored, loaded, raced, pending, changes, devices, auth, flags>>

\* ... and register_file_callback, which reads the file once more.
Register ==
    /\ task = None /\ phase \in {"register placements", "register behaviors"}
    /\ LET f == FileOf(phase)
       IN  /\ stored' = [stored EXCEPT ![f] = file[f]]
           /\ raced' = IF file[f] # loaded[f] THEN raced \cup {f} ELSE raced
    /\ phase' = IF phase = "register placements" THEN "load behaviors" ELSE "start"
    /\ UNCHANGED <<file, loaded, pending, changes, task, devices, auth, flags>>

Start ==
    /\ phase = "start"
    /\ phase' = "watching"
    /\ UNCHANGED <<file, stored, loaded, raced, pending, changes, task, devices, auth, flags>>

\* _handle_file_change: nothing to do for a file that is not registered or has not changed.
HandleFileChange(f) ==
    /\ phase = "watching" /\ task = None /\ f \in pending
    /\ pending' = pending \ {f}
    /\ task' = IF file[f] = stored[f] \/ (f = "behaviors" /\ ignoreStatic) THEN None
               ELSE Begin(f, file[f], stored[f])
    /\ UNCHANGED <<file, stored, loaded, raced, changes, phase, devices, auth, flags>>

\* The callback of another file raises: a segments file that cannot be read, an included file.
OtherCallbackRaises ==
    /\ phase = "watching" /\ task = None
    /\ Raise
    /\ UNCHANGED <<devices, auth, flags>>

Reload ==
    \/ Resume \/ Finish \/ PlacementsRaise
    \/ \E m \in Mac : ClearPlacements(m) \/ ApplyPlacement(m) \/ ReloadBehavior(m) \/ RemoveDevice(m)

Next ==
    \/ \E f \in File, content \in UNION {Content(f) : f \in File} :
           content \in Content(f) /\ Change(f, content)
    \/ \E m \in Mac, segment \in Segment \cup {None} : HandleAuthResult(m, segment)
    \/ \E m \in Mac : TimerFires(m)
    \/ Reload
    \/ CalculateOrchestrationConfig \/ InitializeOrchestration
    \/ Load \/ Register \/ Start
    \/ \E f \in File : HandleFileChange(f)
    \/ OtherCallbackRaises

Spec == Init /\ [][Next]_vars

\* Both threads go on, and the observer delivers the event of each file.
FairSpec ==
    /\ Spec
    /\ WF_vars(Reload) /\ WF_vars(CalculateOrchestrationConfig \/ InitializeOrchestration \/ Load \/ Register \/ Start)
    /\ \A f \in File : WF_vars(HandleFileChange(f))

-----------------------------------------------------------------------------
(* Properties. *)

\* _get_sys_auth_mode, with an authenticator and a file of static behaviours configured.
AuthMode ==
    LET staticAuth == ~ignoreStatic /\ "behaviors" \notin errors
    IN  CASE staticAuth /\ ~ignoreAuth  -> "all"
          [] staticAuth /\ ignoreAuth   -> "static_only"
          [] ~staticAuth /\ ~ignoreAuth -> "dynamic_only"
          [] OTHER                      -> "disabled"

\* The type of the variables.
TypeOK ==
    /\ \A f \in File : {file[f], stored[f], loaded[f]} \subseteq Content(f)
    /\ raced \subseteq File /\ pending \subseteq File /\ changes \in 0 .. MaxChanges
    /\ phase \in Phase /\ task \in Task \cup {None}
    /\ placements \in [Mac -> Place \cup {None}]
    /\ {statics, dynamics, results} \subseteq [Mac -> Segment \cup {None}]
    /\ timers \subseteq Mac
    /\ errors \subseteq File \cup {"tail_acl", "segments_vlans"} /\ {ignoreStatic, ignoreAuth} \subseteq BOOLEAN

Watching == phase = "watching" /\ task = None

\* However the file was edited since the start, between two reloads the static behaviours
\* are those of the file that was loaded last: none is left of an earlier content or of a
\* device that is gone, and an unreadable file leaves none at all. Only an entry without a
\* segment leaves the device what it had (forchestrator.py:339-377).
StaticBehaviorsMatchFile ==
    (Watching /\ ~ignoreStatic /\ "behaviors" \notin raced) =>
        \A m \in Mac :
            IF m \in MacsOf(loaded["behaviors"])
            THEN loaded["behaviors"].macs[m].segment \in {statics[m], None}
            ELSE statics[m] = None

\* The same of the static placements, as long as the watcher lives (forchestrator.py:290-321).
PlacementsMatchFile ==
    (Watching /\ "placements" \notin raced) =>
        \A m \in Mac :
            placements[m] = IF m \in MacsOf(loaded["placements"])
                            THEN loaded["placements"].macs[m] ELSE None

\* The invariant of the files: the types, and that what is applied is what was loaded.
Inv == TypeOK /\ StaticBehaviorsMatchFile /\ PlacementsMatchFile

\* Authentication is disabled at all if the file of behaviours cannot be read, is enabled
\* again once it can, and is not disabled later without an error that says why. What was
\* wrong with the segments or the tail ACL at the start disables it as long as the program runs.
DisabledForAReason ==
    /\ ignoreStatic => AuthMode = "disabled"
    /\ errors \ File # {} => ignoreStatic
    /\ "behaviors" \in errors => AuthMode = "disabled"
    /\ (ignoreAuth /\ ~ignoreStatic) => errors # {}
    /\ (Watching /\ ~ignoreStatic) => ("behaviors" \in errors <=> loaded["behaviors"] \in Unreadable)

\* A change that the observer noticed is loaded in the end, also if it comes while the
\* callback of an earlier one is under way, or the watcher has ended.
ChangesAreLoaded ==
    \A f \in File :
        f \in pending ~> \/ loaded[f] = file[f] \/ phase = "ended"
                         \/ f \in raced \/ (f = "behaviors" /\ ignoreStatic)

-----------------------------------------------------------------------------
(* Not promised: TLC refutes each of these. *)

\* Editing the file of placements does not end the watcher.
WatcherSurvives == phase # "ended"

\* "All auth was disabled: could not load static placement file" stays true until it can be.
DisabledWhilePlacementsBroken == (Watching /\ loaded["placements"] \in Unreadable) => ignoreAuth

\* The error goes away with its cause.
PlacementErrorIsCleared ==
    (Watching /\ loaded["placements"] \notin Unreadable) => "placements" \notin errors

\* A device that RADIUS has rejected, or that has left, has no dynamic behaviour.
RejectedHasNoBehavior == \A m \in Mac : results[m] = None => dynamics[m] = None

\* A device that is gone from the file is not sequestered on the schedule of the file.
ScheduleIsWithdrawn ==
    (Watching /\ ~ignoreStatic) => timers \subseteq MacsOf(loaded["behaviors"])

\* No change is missed at the start.
NothingMissedAtStart == raced = {} /\ (Watching /\ pending = {} /\ ~ignoreStatic => stored = file)

================================================================================
