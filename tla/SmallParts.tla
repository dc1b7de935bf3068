----------------------------- MODULE SmallParts -----------------------------
(***************************************************************************)
(* The small parts of the repository in one specification, so that one     *)
(* run of TLC checks them: a behaviour is a behaviour of one of the parts, *)
(* chosen at the beginning, while the variables of the others stay as they *)
(* are.  The properties are those of the parts' own modules.               *)
(***************************************************************************)
EXTENDS FrameTrip, RecordCodec, IoLoops, Daemon, MutexSample

VARIABLE part   \* the part of which this is a behaviour

vars == <<part, tripVars, codecVars, ioVars, daemonVars, mutexVars>>

Init ==
  /\ part \in {"frame", "codec", "io", "daemon", "mutex"}
  /\ TripInit /\ CodecInit /\ IoInit /\ DaemonInit /\ MutexInit

FrameStep ==
  /\ part = "frame" /\ TripNext
  /\ UNCHANGED <<part, codecVars, ioVars, daemonVars, mutexVars>>

CodecStep ==
  /\ part = "codec" /\ CodecNext
  /\ UNCHANGED <<part, tripVars, ioVars, daemonVars, mutexVars>>

IoStep ==
  /\ part = "io" /\ IoNext
  /\ UNCHANGED <<part, tripVars, codecVars, daemonVars, mutexVars>>

DaemonStep ==
  /\ part = "daemon" /\ DaemonNext
  /\ UNCHANGED <<part, tripVars, codecVars, ioVars, mutexVars>>

MutexStep ==
  /\ part = "mutex" /\ MutexNext
  /\ UNCHANGED <<part, tripVars, codecVars, ioVars, daemonVars>>

Next == FrameStep \/ CodecStep \/ IoStep \/ DaemonStep \/ MutexStep

Spec == Init /\ [][Next]_vars

FairSpec == Spec /\ (part = "daemon" => DaemonFairness)
=============================================================================
