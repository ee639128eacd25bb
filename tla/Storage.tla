------------------------------- MODULE Storage -------------------------------
(***************************************************************************)
(* misc/storage.h as bootstrap.h uses it: the configuration lives in RAM,  *)
(* save_changes() has it written to the file system after a while, and     *)
(* restart() writes it at once and reboots a little later.  The timers are *)
(* those of Timer, run by event_loop(); service_loop is one of them, and   *)
(* the packet handlers it calls change, save and restart as the main loop  *)
(* does.  All of this is one task; what comes between is the loss of power.*)
(*                                                                         *)
(* The file system is external.  A file that can be opened can be read.  To *)
(* open it for writing may fail, and so may each write; the code does not  *)
(* look.  The file then is as it was, or shorter than it should be, which  *)
(* is also how the power leaves one that is being rewritten.               *)
(***************************************************************************)
EXTENDS TimerTable

CONSTANTS Values, Default,   (* configurations; Default is T()             *)
          Garbage,           (* what is read from a file that is too short *)
          Absent, Torn,      (* no file; a file that is too short          *)
          None,
          ServiceInterval,   (* BOOTSTRAP_SERVICE_LOOP_INTERVAL            *)
          SaveInterval,      (* STORAGE_SAVE_INTERVAL                      *)
          RestartDelay,      (* RESTART_DELAY                              *)
          Late,              (* bound: how late event_loop() can be        *)
          MaxRestarts,       (* bound: calls of restart() before a reboot  *)
          MaxCrashes         (* bound: losses of power                     *)

ASSUME StorageAssumption ==
  /\ Default \in Values
  /\ Garbage \notin Values
  /\ None \notin Nat
  /\ {ServiceInterval, SaveInterval, RestartDelay} \subseteq Nat \ {0}
  /\ Late \in Nat
  /\ SaveInterval + Late < Never /\ RestartDelay + Late < Never
  /\ MaxRestarts \in Nat /\ MaxRestarts + 2 <= Amount
  /\ MaxCrashes \in Nat

VARIABLES
  now,          (* millis()                                                *)
  entries,      (* the timers                                              *)
  at, inside,   (* handle_timers: its slot, 0 outside; in service_loop     *)
  saveTimer,    (* _save_timer_id, 0 for -1                                *)
  data,         (* _data                                                   *)
  file,         (* the file: a value, Torn or Absent                       *)
  promised,     (* time since the save_changes() not committed yet, None   *)
  saved,        (* history: what save_changes() vouches for: the           *)
                (* configuration at its call and those it may have become  *)
                (* before the commit; {} once a write has failed or the    *)
                (* power has gone before the commit was over               *)
  restarting,   (* time since the first restart(), None                    *)
  restarts, crashes

timing == <<now, entries, at, inside>>
counts == <<restarts, crashes>>
vars == <<timing, saveTimer, data, file, promised, saved, restarting, counts>>

\* add_timeout and add_interval; _clear.
Armed(e, fn, interval, repeat) ==
  [e EXCEPT ![FirstFree(e)] = Active(fn, interval, repeat, now)]
Cleared(e, k) == IF k = 0 THEN e ELSE [e EXCEPT ![k] = Blank]

\* Takes whatever is in the file.
LoadedUnchecked(f) == IF f = Torn THEN Garbage ELSE IF f = Absent THEN Default ELSE f

\* Storage::begin: a file of the right size and header, or T().
Loaded(f) == IF f \in {Absent, Torn} THEN Default ELSE f

\* The constructor and begin().
Boot(f) ==
  /\ file' = f
  /\ data' = Loaded(f)
  /\ entries' = Armed(Grown(<<>>), "service", ServiceInterval, TRUE)
  /\ at' = 0
  /\ inside' = FALSE
  /\ saveTimer' = 0
  /\ promised' = None
  /\ restarting' = None
  /\ restarts' = 0
  /\ UNCHANGED now

Init ==
  /\ now = 0
  /\ entries = Armed(Grown(<<>>), "service", ServiceInterval, TRUE)
  /\ at = 0
  /\ inside = FALSE
  /\ saveTimer = 0
  /\ file \in Values \cup {Absent, Torn}
  /\ data = Loaded(file)
  /\ promised = None
  /\ saved = {}
  /\ restarting = None
  /\ restarts = 0
  /\ crashes = 0

\* Ages are counted up to W.
Older(age) == IF age \in {None, W} THEN age ELSE age + 1
Age(e) == (now + W - e.created) % W

Tick ==
  /\ \A k \in Slots(entries) :
       entries[k].active => Age(entries[k]) < entries[k].interval + Late
  /\ now' = (now + 1) % W
  /\ promised' = Older(promised)
  /\ restarting' = Older(restarting)
  /\ UNCHANGED <<entries, at, inside, saveTimer, data, file, saved, counts>>

(***************************************************************************)
(* The file.                                                               *)
(***************************************************************************)
\* Takes a file of the right size and header for the one to be written.
CommitCareless ==
  IF file \in Values THEN UNCHANGED <<file, saved>> ELSE file' = data /\ UNCHANGED saved

\* _commit_impl.  Nothing is written if the file holds the data already; `Changes
\* committed' is reported whether or not what is written arrives.
Commit ==
  \/ file' = data /\ UNCHANGED saved
  \/ file # data /\ file' \in {file, Torn} /\ saved' = {}

\* The power goes while the file is being rewritten.
CrashInCommit ==
  /\ crashes < MaxCrashes
  /\ file # data
  /\ \E f \in {file, Torn} : Boot(f)
  /\ saved' = {}
  /\ crashes' = crashes + 1

(***************************************************************************)
(* What the main loop and the packet handlers do.                          *)
(***************************************************************************)
UserRuns == at = 0 \/ inside

\* A setting is changed; that is vouched for only if a commit may follow.
Change(v) ==
  /\ UserRuns
  /\ data' = v
  /\ saved' = IF saved = {} \/ (promised = None /\ restarting = None)
                THEN saved ELSE saved \cup {v}
  /\ UNCHANGED <<timing, saveTimer, file, promised, restarting, counts>>

\* What save_changes() promises.  No promise is counted once restart() has been
\* called: _save_timer_id may be stale then, and save_changes() do nothing.
Promise ==
  IF restarting = None
    THEN promised' = (IF promised = None THEN 0 ELSE promised) /\ saved' = {data}
    ELSE /\ UNCHANGED promised
         /\ saved' = IF saved = {} THEN saved ELSE saved \cup {data}

\* Storage::save.
Save ==
  LET e == Armed(Cleared(entries, saveTimer), "commit", SaveInterval, FALSE) IN
  /\ entries' = e
  /\ saveTimer' = FirstFree(Cleared(entries, saveTimer))

\* Puts the commit off with every call.
SaveChangesAgain ==
  /\ UserRuns
  /\ Save
  /\ Promise
  /\ UNCHANGED <<now, at, inside, data, file, restarting, counts>>

\* Bootstrap::save_changes.
SaveChanges ==
  /\ UserRuns
  /\ IF saveTimer = 0 THEN Save ELSE UNCHANGED <<entries, saveTimer>>
  /\ Promise
  /\ UNCHANGED <<now, at, inside, data, file, restarting, counts>>

\* restart() that leaves the first call's timer alone.
RestartOnce ==
  /\ UserRuns
  /\ restarts < MaxRestarts
  /\ LET e == Cleared(entries, saveTimer)
     IN  entries' = IF restarting = None THEN Armed(e, "restart", RestartDelay, FALSE) ELSE e
  /\ IF saveTimer # 0
       THEN Commit /\ promised' = None
       ELSE UNCHANGED <<file, promised, saved>>
  /\ restarting' = IF restarting = None THEN 0 ELSE restarting
  /\ restarts' = restarts + 1
  /\ UNCHANGED <<now, at, inside, saveTimer, data, crashes>>

\* restart() that does not save.
RestartUnsaved ==
  /\ UserRuns
  /\ restarts < MaxRestarts
  /\ entries' = Armed(entries, "restart", RestartDelay, FALSE)
  /\ restarting' = IF restarting = None THEN 0 ELSE restarting
  /\ restarts' = restarts + 1
  /\ UNCHANGED <<now, at, inside, saveTimer, data, file, promised, saved, crashes>>

\* Bootstrap::restart, with Storage::force_save if a commit is pending: the save
\* timer is cleared, but _save_timer_id stays.
Restart ==
  /\ UserRuns
  /\ restarts < MaxRestarts
  /\ entries' = Armed(Cleared(entries, saveTimer), "restart", RestartDelay, FALSE)
  /\ IF saveTimer # 0
       THEN Commit /\ promised' = None
       ELSE UNCHANGED <<file, promised, saved>>
  /\ restarting' = IF restarting = None THEN 0 ELSE restarting
  /\ restarts' = restarts + 1
  /\ UNCHANGED <<now, at, inside, saveTimer, data, crashes>>

CrashInRestart ==
  /\ UserRuns
  /\ saveTimer # 0
  /\ CrashInCommit

(***************************************************************************)
(* event_loop().                                                           *)
(***************************************************************************)
HandleTimers ==
  /\ at = 0
  /\ at' = 1
  /\ UNCHANGED <<now, entries, inside, saveTimer, data, file, promised, saved,
                 restarting, counts>>

Looping == at # 0 /\ ~inside
Calls(fn) == Looping /\ Ripe(entries[at], now) /\ entries[at].fn = fn

Advance == at' = (at + 1) % (Len(entries) + 1)

Skip ==
  /\ Looping
  /\ ~Ripe(entries[at], now)
  /\ Advance
  /\ UNCHANGED <<now, entries, inside, saveTimer, data, file, promised, saved,
                 restarting, counts>>

CallService ==
  /\ Calls("service")
  /\ entries' = [entries EXCEPT ![at] = Started(@, now)]
  /\ inside' = TRUE
  /\ UNCHANGED <<now, at, saveTimer, data, file, promised, saved, restarting, counts>>

EndService ==
  /\ inside
  /\ inside' = FALSE
  /\ Advance
  /\ UNCHANGED <<now, entries, saveTimer, data, file, promised, saved, restarting,
                 counts>>

\* The callback of save().
CallCommit ==
  /\ Calls("commit")
  /\ saveTimer' = 0
  /\ Commit
  /\ promised' = None
  /\ entries' = Cleared(entries, at)
  /\ Advance
  /\ UNCHANGED <<now, inside, data, restarting, counts>>

CrashInCallback ==
  /\ Calls("commit")
  /\ CrashInCommit

\* ESP.restart().
CallRestart ==
  /\ Calls("restart")
  /\ Boot(file)
  /\ UNCHANGED <<saved, crashes>>

Crash ==
  /\ crashes < MaxCrashes
  /\ Boot(file)
  /\ saved' = IF promised = None THEN saved ELSE {}
  /\ crashes' = crashes + 1

Loop == Skip \/ CallService \/ EndService \/ CallCommit \/ CallRestart

Next ==
  \/ Tick
  \/ \E v \in Values : Change(v)
  \/ SaveChanges
  \/ Restart
  \/ CrashInRestart
  \/ HandleTimers
  \/ Loop
  \/ CrashInCallback
  \/ Crash

(***************************************************************************)
(* Time passes; the sketch keeps calling event_loop(), and the service     *)
(* loop returns.                                                           *)
(***************************************************************************)
Fairness ==
  /\ WF_vars(Tick)
  /\ WF_vars(HandleTimers)
  /\ WF_vars(Loop)

SafeSpec == Init /\ [][Next]_vars
Spec == SafeSpec /\ Fairness

(***************************************************************************)
(* Properties.                                                             *)
(***************************************************************************)
Ages == 0..W \cup {None}

StorageTypeOK ==
  /\ now \in 0..(W - 1)
  /\ entries \in [1..Amount ->
       [active : BOOLEAN, repeat : BOOLEAN,
        fn : {"service", "commit", "restart", NoFn}, interval : Nat, created : 0..(W - 1)]]
  /\ at \in 0..Amount
  /\ inside \in BOOLEAN
  /\ saveTimer \in 0..Amount
  /\ data \in Values
  /\ file \in Values \cup {Absent, Torn}
  /\ promised \in Ages
  /\ saved \in SUBSET Values
  /\ restarting \in Ages
  /\ restarts \in 0..MaxRestarts
  /\ crashes \in 0..MaxCrashes

\* After save_changes() the configuration is committed within the save interval,
\* however often it is changed and saved again meanwhile: the commit is not put
\* off, and the timer it hangs on is not lost.  A commit whose write fails counts as
\* one, and calls that come after restart() are not covered: there a stale
\* _save_timer_id may drop them (storage.h:174, bootstrap.h:113).
SavedInTime == promised # None => promised <= SaveInterval + Late

\* Whatever was saved before restart() was called has been committed when the
\* reboot is under way: the restart does not overtake the pending commit.
RestartKeepsChanges == restarting # None => promised = None

\* restart() ends in a reboot, even if it is called again while it waits and
\* whichever timers come and go.
RestartHappens == restarting # None ~> restarting = None

\* Once the commit is over, the file holds what was saved: the configuration of the
\* last save_changes() or one that it became before the commit, and no change that
\* nobody saved.  It stays there over losses of power and reboots, whatever timers
\* restart() and a stale _save_timer_id clear, until a write fails or the power goes
\* in the middle of one.
SavedIsOnFile == promised = None /\ saved # {} => file \in saved

\* `Restarting after %u ms': the reboot comes that much after restart().
RestartInTime == restarting # None => restarting <= RestartDelay + Late
=============================================================================
