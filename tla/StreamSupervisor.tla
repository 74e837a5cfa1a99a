-------------------------- MODULE StreamSupervisor --------------------------
(***************************************************************************)
(* The supervision of the video push by the vehicle-side process: the      *)
(* callback thread handles start_stream and stop_stream, the main loop     *)
(* restarts a push that has died, and both start the push script, which    *)
(* tells its like of itself by a pid file and a lock file.                 *)
(*                                                                         *)
(* Nothing but the two files and an unsynchronised flag coordinates the    *)
(* threads and the scripts.  The sleeps of the threads order nothing: a    *)
(* script may be slower than the thread that waits for it.                 *)
(*                                                                         *)
(* VEHICLE_VIN is set, so stream names carry a prefix, and the pattern of  *)
(* pkill in stop_streaming_processes, which has none, matches no pusher.   *)
(* The four ffmpeg processes of a script are one.                          *)
(***************************************************************************)
EXTENDS Integers

CONSTANTS
  Scripts,   \* bound: the process ids of push scripts
  NoOne,     \* a file that does not exist
  MaxKills   \* bound: scripts that are killed without running their traps

ASSUME SupervisorAssumption == NoOne \notin Scripts /\ MaxKills \in Nat

Threads == {"mqtt", "main"}

VARIABLES
  wanted,    \* g_streaming_should_be_running
  recent,    \* g_last_streaming_check_time is less than five seconds ago
  at,        \* where each thread stands
  script,    \* where each push script stands
  pushing,   \* the ffmpeg processes of a script run
  pidfile,   \* whose id the pid file holds
  lockfile,  \* whose id the lock file holds
  kills      \* scripts killed so far

flagVars   == <<wanted, recent>>
scriptVars == <<script, pushing, pidfile, lockfile>>
streamVars == <<wanted, recent, at, script, pushing, pidfile, lockfile, kills>>

ThreadPlaces == {"idle", "health", "probe", "term", "unlink", "launch", "settle",
                 "stop_term", "stop_unlink"}
ScriptPlaces == {"gone", "check", "purge", "look", "lock", "locked", "written",
                 "running", "cleanup", "exiting"}

StreamTypeOK ==
  /\ wanted \in BOOLEAN /\ recent \in BOOLEAN
  /\ at \in [Threads -> ThreadPlaces]
  /\ script \in [Scripts -> ScriptPlaces]
  /\ pushing \in [Scripts -> BOOLEAN]
  /\ pidfile \in Scripts \cup {NoOne}
  /\ lockfile \in Scripts \cup {NoOne}
  /\ kills \in 0 .. MaxKills

StreamInit ==
  /\ wanted = FALSE /\ recent = TRUE
  /\ at = [t \in Threads |-> "idle"]
  /\ script = [p \in Scripts |-> "gone"]
  /\ pushing = [p \in Scripts |-> FALSE]
  /\ pidfile = NoOne /\ lockfile = NoOne
  /\ kills = 0

Alive(p) == p \in Scripts /\ script[p] # "gone"
Streaming == \E p \in Scripts : pushing[p]

(* is_streaming_running.  Its look at the pid file never succeeds: the     *)
(* command line of the process is cut at its first NUL, and what is left,  *)
(* "bash", does not contain the script's name.  The list of processes      *)
(* decides.                                                                *)
Detected == Streaming

-----------------------------------------------------------------------------
(* The push script.                                                        *)

Go(p, place) == script' = [script EXCEPT ![p] = place]

(* Mutant: a pid file is believed whoever it names.                        *)
CheckPidfile_AnyFile(p) ==
  /\ script[p] = "check"
  /\ Go(p, IF pidfile # NoOne THEN "gone" ELSE "look")
  /\ UNCHANGED <<pushing, pidfile, lockfile>>

(* check_existing_process                                                  *)
CheckPidfile(p) ==
  /\ script[p] = "check"
  /\ Go(p, IF Alive(pidfile) THEN "gone"
           ELSE IF pidfile = NoOne THEN "look" ELSE "purge")
  /\ UNCHANGED <<pushing, pidfile, lockfile>>

Purge(p) ==
  /\ script[p] = "purge"
  /\ pidfile' = NoOne /\ lockfile' = NoOne
  /\ Go(p, "look")
  /\ UNCHANGED pushing

LookForPushers(p) ==
  /\ script[p] = "look"
  /\ Go(p, IF Streaming THEN "gone" ELSE "lock")
  /\ UNCHANGED <<pushing, pidfile, lockfile>>

(* acquire_lock: ten attempts to create the file, which must not exist.    *)
AcquireLock(p) ==
  /\ script[p] = "lock" /\ lockfile = NoOne
  /\ lockfile' = p
  /\ Go(p, "locked")
  /\ UNCHANGED <<pushing, pidfile>>

GiveUp(p) ==
  /\ script[p] = "lock" /\ lockfile # NoOne
  /\ Go(p, "gone")
  /\ UNCHANGED <<pushing, pidfile, lockfile>>

WritePidfile(p) ==
  /\ script[p] = "locked"
  /\ pidfile' = p
  /\ Go(p, "written")
  /\ UNCHANGED <<pushing, lockfile>>

(* trap cleanup, and the ffmpeg processes.                                 *)
StartPushing(p) ==
  /\ script[p] = "written"
  /\ pushing' = [pushing EXCEPT ![p] = TRUE]
  /\ Go(p, "running")
  /\ UNCHANGED <<pidfile, lockfile>>

(* cleanup: stop the ffmpeg processes and remove both files.               *)
Cleanup(p) ==
  /\ script[p] = "cleanup"
  /\ pushing' = [pushing EXCEPT ![p] = FALSE]
  /\ pidfile' = NoOne /\ lockfile' = NoOne
  /\ Go(p, "exiting")

(* Mutant: the trap removes the pid file only.                             *)
Exit_KeepLock(p) ==
  /\ script[p] = "exiting"
  /\ pidfile' = NoOne
  /\ Go(p, "gone")
  /\ UNCHANGED <<pushing, lockfile>>

(* The trap on EXIT, which also follows the exit at the end of cleanup.     *)
Exit(p) ==
  /\ script[p] = "exiting"
  /\ lockfile' = NoOne /\ pidfile' = NoOne
  /\ Go(p, "gone")
  /\ UNCHANGED pushing

ScriptStep(p) ==
  /\ \/ CheckPidfile(p) \/ Purge(p) \/ LookForPushers(p)
     \/ AcquireLock(p) \/ GiveUp(p) \/ WritePidfile(p)
     \/ StartPushing(p) \/ Cleanup(p) \/ Exit(p)
  /\ UNCHANGED <<flagVars, at, kills>>

(* The ffmpeg processes end; the script that waits for them ends as well.   *)
PushersEnd(p) ==
  /\ pushing[p] /\ script[p] \in {"running", "gone"}
  /\ pushing' = [pushing EXCEPT ![p] = FALSE]
  /\ Go(p, IF script[p] = "running" THEN "exiting" ELSE "gone")
  /\ UNCHANGED <<flagVars, at, pidfile, lockfile, kills>>

(* Mutant: the bound is met one kill late.                                 *)
Kill_OneMore(p) ==
  /\ kills <= MaxKills /\ Alive(p)
  /\ kills' = kills + 1
  /\ Go(p, "gone")
  /\ UNCHANGED <<flagVars, at, pushing, pidfile, lockfile>>

(* SIGKILL: no trap runs, and the ffmpeg processes live on.                 *)
Kill(p) ==
  /\ kills < MaxKills /\ Alive(p)
  /\ kills' = kills + 1
  /\ Go(p, "gone")
  /\ UNCHANGED <<flagVars, at, pushing, pidfile, lockfile>>

-----------------------------------------------------------------------------
(* SIGTERM.  Between writing the pid file and `trap cleanup' the trap of    *)
(* acquire_lock is in force: it removes the files and the script goes on.   *)

Terminate(p) ==
  CASE script[p] = "running" ->
         Go(p, "cleanup") /\ UNCHANGED <<pushing, pidfile, lockfile>>
    [] script[p] = "written" ->
         pidfile' = NoOne /\ lockfile' = NoOne /\ UNCHANGED <<script, pushing>>
    [] OTHER -> UNCHANGED scriptVars

(* The first half of stop_streaming_processes, and the second.  What the   *)
(* second removes need not be the file that the first read.                *)
TermByPidfile(t, before, after, otherwise) ==
  /\ at[t] = before
  /\ IF pidfile = NoOne
       THEN UNCHANGED scriptVars /\ at' = [at EXCEPT ![t] = otherwise]
       ELSE Terminate(pidfile) /\ at' = [at EXCEPT ![t] = after]
  /\ UNCHANGED <<flagVars, kills>>

UnlinkPidfile(t, before, after) ==
  /\ at[t] = before
  /\ pidfile' = NoOne
  /\ at' = [at EXCEPT ![t] = after]
  /\ UNCHANGED <<flagVars, script, pushing, lockfile, kills>>

-----------------------------------------------------------------------------
(* run_dataset_push_script, by either thread.                              *)

Probe(t) ==
  /\ at[t] = "probe"
  /\ at' = [at EXCEPT ![t] = IF Detected THEN "term" ELSE "launch"]
  /\ UNCHANGED <<flagVars, scriptVars, kills>>

Launch(t) ==
  /\ at[t] = "launch"
  /\ \E p \in Scripts \ {pidfile, lockfile} :
       /\ script[p] = "gone" /\ ~pushing[p]
       /\ Go(p, "check")
  /\ at' = [at EXCEPT ![t] = "settle"]
  /\ UNCHANGED <<flagVars, pushing, pidfile, lockfile, kills>>

RunDatasetPushScript(t) ==
  \/ Probe(t)
  \/ TermByPidfile(t, "term", "unlink", "launch")
  \/ UnlinkPidfile(t, "unlink", "launch")
  \/ Launch(t)

(* The callback thread.                                                    *)
StartStream ==
  /\ at["mqtt"] = "idle"
  /\ wanted' = TRUE /\ recent' = TRUE
  /\ at' = [at EXCEPT !["mqtt"] = "probe"]
  /\ UNCHANGED <<scriptVars, kills>>

StopStream ==
  /\ at["mqtt"] = "idle"
  /\ wanted' = FALSE
  /\ at' = [at EXCEPT !["mqtt"] = "stop_term"]
  /\ UNCHANGED <<recent, scriptVars, kills>>

StopStreaming ==
  \/ TermByPidfile("mqtt", "stop_term", "stop_unlink", "idle")
  \/ UnlinkPidfile("mqtt", "stop_unlink", "idle")

StartHandled ==
  /\ at["mqtt"] = "settle"
  /\ at' = [at EXCEPT !["mqtt"] = "idle"]
  /\ UNCHANGED <<flagVars, scriptVars, kills>>

(* The main loop: check_and_restore_streaming.                             *)
CheckWanted ==
  /\ at["main"] = "idle" /\ wanted
  /\ at' = [at EXCEPT !["main"] = "health"]
  /\ UNCHANGED <<flagVars, scriptVars, kills>>

CheckHealth ==
  /\ at["main"] = "health"
  /\ at' = [at EXCEPT !["main"] = IF Detected \/ recent THEN "idle" ELSE "probe"]
  /\ recent' = (Detected \/ recent)
  /\ UNCHANGED <<wanted, scriptVars, kills>>

Restored ==
  /\ at["main"] = "settle"
  /\ at' = [at EXCEPT !["main"] = "idle"]
  /\ recent' = TRUE
  /\ UNCHANGED <<wanted, scriptVars, kills>>

FiveSeconds ==
  /\ recent
  /\ recent' = FALSE
  /\ UNCHANGED <<wanted, at, scriptVars, kills>>

MqttThread == RunDatasetPushScript("mqtt") \/ StopStreaming \/ StartHandled
MainThread == CheckWanted \/ CheckHealth \/ RunDatasetPushScript("main") \/ Restored

StreamNext ==
  \/ StartStream
  \/ StopStream
  \/ MqttThread
  \/ MainThread
  \/ FiveSeconds
  \/ \E p \in Scripts : ScriptStep(p) \/ PushersEnd(p) \/ Kill(p)

StreamSpec == StreamInit /\ [][StreamNext]_streamVars

(* The threads and the scripts are scheduled and the clock goes on.  No    *)
(* message need ever come, and no pusher need ever fail.                    *)
FairStreamSpec ==
  /\ StreamSpec
  /\ WF_streamVars(MqttThread)
  /\ WF_streamVars(MainThread)
  /\ WF_streamVars(FiveSeconds)
  /\ \A p \in Scripts : WF_streamVars(ScriptStep(p))

-----------------------------------------------------------------------------
(* Properties.                                                             *)

(* As long as no script is killed, the lock file names a script that is    *)
(* still there to remove it: neither a stop in the middle of a start, nor  *)
(* one script removing the files of another, leaves a lock behind.         *)
LockNotAbandoned == kills = 0 /\ lockfile # NoOne => Alive(lockfile)

(* The lock of a killed script whose pid file is gone: nobody looks at it. *)
LockedOut == lockfile # NoOne /\ ~Alive(lockfile) /\ pidfile = NoOne

(* "Restart automatically if it should be running and is not"              *)
(* (control_protocol.cpp:870): a wanted stream comes back, and the one     *)
(* thing that can keep it from that is a lock nobody looks at.             *)
ComesBackUnlessLockedOut == wanted ~> (Streaming \/ ~wanted \/ LockedOut)

=============================================================================
