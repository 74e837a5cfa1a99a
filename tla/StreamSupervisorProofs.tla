----------------------- MODULE StreamSupervisorProofs -----------------------
(***************************************************************************)
(* No lock file is left behind by the stops, starts and endings of push    *)
(* scripts, however many scripts there are and however they interleave.    *)
(***************************************************************************)
EXTENDS StreamSupervisor, TLAPS

(* The places at which a script may hold the lock.  From each of them it   *)
(* still has to pass a step that removes the file.                         *)
Holding == {"locked", "written", "running", "cleanup", "exiting"}

LockHeld == kills = 0 /\ lockfile # NoOne => script[lockfile] \in Holding

SupervisorInv == StreamTypeOK /\ LockHeld

-----------------------------------------------------------------------------

LEMMA InitHolds == StreamInit => SupervisorInv
<1> SUFFICES ASSUME StreamInit PROVE SupervisorInv
  OBVIOUS
<1>1. wanted \in BOOLEAN /\ recent \in BOOLEAN
  BY Zenon DEF StreamInit
<1>2. at \in [Threads -> ThreadPlaces]
  BY DEF StreamInit, Threads, ThreadPlaces
<1>3. script \in [Scripts -> ScriptPlaces]
  BY DEF StreamInit, ScriptPlaces
<1>4. pushing \in [Scripts -> BOOLEAN]
  BY Zenon DEF StreamInit
<1>5. kills \in 0 .. MaxKills
  BY SupervisorAssumption DEF StreamInit
<1> QED
  BY <1>1, <1>2, <1>3, <1>4, <1>5 DEF StreamInit, SupervisorInv, StreamTypeOK, LockHeld

(* What a script does by itself.                                           *)
LEMMA ScriptKeeps ==
  ASSUME SupervisorInv, NEW p \in Scripts,
         ScriptStep(p) \/ PushersEnd(p) \/ Kill(p)
  PROVE  SupervisorInv'
<1> USE SupervisorAssumption
<1> USE DEF SupervisorInv, StreamTypeOK, LockHeld, Holding, ScriptPlaces, Go
<1>1. CASE ScriptStep(p)
  <2>0. UNCHANGED <<wanted, recent, at, kills>>
    BY <1>1 DEF ScriptStep, flagVars
  <2>1. CASE CheckPidfile(p)
    BY <2>0, <2>1 DEF CheckPidfile
  <2>2. CASE Purge(p)
    BY <2>0, <2>2 DEF Purge
  <2>3. CASE LookForPushers(p)
    BY <2>0, <2>3 DEF LookForPushers
  <2>4. CASE AcquireLock(p)
    BY <2>0, <2>4 DEF AcquireLock
  <2>5. CASE GiveUp(p)
    BY <2>0, <2>5 DEF GiveUp
  <2>6. CASE WritePidfile(p)
    BY <2>0, <2>6 DEF WritePidfile
  <2>7. CASE StartPushing(p)
    BY <2>0, <2>7 DEF StartPushing
  <2>8. CASE Cleanup(p)
    BY <2>0, <2>8 DEF Cleanup
  <2>9. CASE Exit(p)
    BY <2>0, <2>9 DEF Exit
  <2> QED
    BY <1>1, <2>1, <2>2, <2>3, <2>4, <2>5, <2>6, <2>7, <2>8, <2>9 DEF ScriptStep
<1>2. CASE PushersEnd(p)
  BY <1>2 DEF PushersEnd, flagVars
<1>3. CASE Kill(p)
  BY <1>3 DEF Kill, Alive, flagVars
<1> QED
  BY <1>1, <1>2, <1>3

(* What a thread does to the scripts and their files.                      *)
LEMMA TermKeeps ==
  ASSUME SupervisorInv, NEW t \in Threads,
         NEW before, NEW after \in ThreadPlaces, NEW otherwise \in ThreadPlaces,
         TermByPidfile(t, before, after, otherwise)
  PROVE  SupervisorInv'
<1> USE SupervisorAssumption
<1> USE DEF SupervisorInv, StreamTypeOK, LockHeld, Holding, ScriptPlaces
<1>0. UNCHANGED <<wanted, recent, kills>>
  BY DEF TermByPidfile, flagVars
<1>1. CASE pidfile = NoOne
  BY <1>0, <1>1 DEF TermByPidfile, scriptVars
<1>2. CASE pidfile # NoOne
  <2>1. pidfile \in Scripts
    BY <1>2
  <2>2. at' \in [Threads -> ThreadPlaces]
    BY <1>2 DEF TermByPidfile
  <2>3. Terminate(pidfile)
    BY <1>2 DEF TermByPidfile
  <2>4. CASE script[pidfile] = "running"
    <3>1. /\ script' = [script EXCEPT ![pidfile] = "cleanup"]
          /\ UNCHANGED <<pushing, pidfile, lockfile>>
      BY <2>3, <2>4 DEF Terminate, Go
    <3> QED
      BY <1>0, <2>1, <2>2, <3>1
  <2>5. CASE script[pidfile] = "written"
    <3>1. pidfile' = NoOne /\ lockfile' = NoOne /\ UNCHANGED <<script, pushing>>
      BY <2>3, <2>5 DEF Terminate
    <3> QED
      BY <1>0, <2>2, <3>1
  <2>6. CASE script[pidfile] \notin {"running", "written"}
    <3>1. UNCHANGED <<script, pushing, pidfile, lockfile>>
      BY <2>3, <2>6 DEF Terminate, scriptVars
    <3> QED
      BY <1>0, <2>2, <3>1
  <2> QED
    BY <2>4, <2>5, <2>6
<1> QED
  BY <1>1, <1>2

LEMMA UnlinkKeeps ==
  ASSUME SupervisorInv, NEW t \in Threads,
         NEW before, NEW after \in ThreadPlaces,
         UnlinkPidfile(t, before, after)
  PROVE  SupervisorInv'
  BY DEF SupervisorInv, StreamTypeOK, LockHeld, UnlinkPidfile, flagVars

LEMMA RunScriptKeeps ==
  ASSUME SupervisorInv, NEW t \in Threads, RunDatasetPushScript(t)
  PROVE  SupervisorInv'
<1> USE DEF ThreadPlaces
<1>1. CASE Probe(t)
  BY <1>1 DEF SupervisorInv, StreamTypeOK, LockHeld, Probe, flagVars, scriptVars
<1>2. CASE TermByPidfile(t, "term", "unlink", "launch")
  BY <1>2, TermKeeps
<1>3. CASE UnlinkPidfile(t, "unlink", "launch")
  BY <1>3, UnlinkKeeps
<1>4. CASE Launch(t)
  <2>1. PICK p \in Scripts \ {pidfile, lockfile} :
          script[p] = "gone" /\ script' = [script EXCEPT ![p] = "check"]
    BY <1>4 DEF Launch, Go
  <2>2. /\ at' = [at EXCEPT ![t] = "settle"]
        /\ UNCHANGED <<wanted, recent, pushing, pidfile, lockfile, kills>>
    BY <1>4 DEF Launch, flagVars
  <2> QED
    BY <2>1, <2>2, SupervisorAssumption
      DEF SupervisorInv, StreamTypeOK, LockHeld, Holding, ScriptPlaces
<1> QED
  BY <1>1, <1>2, <1>3, <1>4 DEF RunDatasetPushScript

LEMMA StepKeeps == SupervisorInv /\ [StreamNext]_streamVars => SupervisorInv'
<1> SUFFICES ASSUME SupervisorInv, [StreamNext]_streamVars PROVE SupervisorInv'
  OBVIOUS
<1> USE DEF SupervisorInv, StreamTypeOK, LockHeld, Threads, ThreadPlaces, flagVars, scriptVars
<1>1. CASE StartStream
  BY <1>1 DEF StartStream
<1>2. CASE StopStream
  BY <1>2 DEF StopStream
<1>3. CASE MqttThread
  <2>1. CASE RunDatasetPushScript("mqtt")
    BY <2>1, RunScriptKeeps
  <2>2. CASE TermByPidfile("mqtt", "stop_term", "stop_unlink", "idle")
    BY <2>2, TermKeeps
  <2>3. CASE UnlinkPidfile("mqtt", "stop_unlink", "idle")
    BY <2>3, UnlinkKeeps
  <2>4. CASE StartHandled
    BY <2>4 DEF StartHandled
  <2> QED
    BY <1>3, <2>1, <2>2, <2>3, <2>4 DEF MqttThread, StopStreaming
<1>4. CASE MainThread
  <2>1. CASE CheckWanted
    BY <2>1 DEF CheckWanted
  <2>2. CASE CheckHealth
    BY <2>2 DEF CheckHealth, Detected, Streaming
  <2>3. CASE RunDatasetPushScript("main")
    BY <2>3, RunScriptKeeps
  <2>4. CASE Restored
    BY <2>4 DEF Restored
  <2> QED
    BY <1>4, <2>1, <2>2, <2>3, <2>4 DEF MainThread
<1>5. CASE FiveSeconds
  BY <1>5 DEF FiveSeconds
<1>6. CASE \E p \in Scripts : ScriptStep(p) \/ PushersEnd(p) \/ Kill(p)
  BY <1>6, ScriptKeeps
<1>7. CASE UNCHANGED streamVars
  BY <1>7 DEF streamVars
<1> QED
  BY <1>1, <1>2, <1>3, <1>4, <1>5, <1>6, <1>7 DEF StreamNext

-----------------------------------------------------------------------------

(* No sequence of starts, stops and ends of scripts leaves the lock file   *)
(* of a script that is gone: only a killed script does.                    *)
THEOREM NoLockLeftBehind == StreamSpec => []LockNotAbandoned
<1>1. StreamInit => SupervisorInv
  BY InitHolds
<1>2. SupervisorInv /\ [StreamNext]_streamVars => SupervisorInv'
  BY StepKeeps
<1>3. SupervisorInv => LockNotAbandoned
  BY DEF SupervisorInv, StreamTypeOK, LockHeld, LockNotAbandoned, Alive, Holding
<1> QED
  BY <1>1, <1>2, <1>3, PTL DEF StreamSpec

(* The two threads and the scripts keep to their places, and the pid file  *)
(* and the lock file never name anything but a script.                     *)
THEOREM StreamTypes == StreamSpec => []StreamTypeOK
<1>1. SupervisorInv => StreamTypeOK
  BY DEF SupervisorInv
<1> QED
  BY <1>1, InitHolds, StepKeeps, PTL DEF StreamSpec
=============================================================================
