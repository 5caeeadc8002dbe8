----------------------------- MODULE HealthCheck -----------------------------
(***************************************************************************)
(* The liveness probe, src/compose/healthcheck.sh, which the container     *)
(* runs once a minute and which kills PID 1 when the engine hangs; the     *)
(* container is then started again (restart: unless-stopped).              *)
(*                                                                         *)
(* The probe keeps its state in files, and /tmp survives a restart of the  *)
(* container.  A probe is several steps long, and the engine goes on       *)
(* between them: it boots, takes requests, prefills, generates, hangs.     *)
(*                                                                         *)
(* The counter of generated tokens is compared with its last reading only, *)
(* so what is kept of it is whether it has advanced since (`advanced`).    *)
(* The start time of PID 1 is compared with the one on file only; no two   *)
(* boots share one.                                                        *)
(***************************************************************************)
EXTENDS Naturals

VARIABLES
  engine,   \* what PID 1 and its engine are doing
  work,     \* the requests running (as the metrics show them)
  advanced, \* tokens were generated since generation_tokens_total was last read
  files,    \* what is in /tmp/hc
  probe,    \* the step the probe is at
  answered, \* history: a probe of this boot found the engine well
  misses    \* history: failed probes since then, or since boot (three at most)

healthVars == <<engine, work, advanced, files, probe, answered, misses>>
history == <<answered, misses>>

Engines == {"booting", "serving", "hung", "exiting"}
Works == {"idle", "prefilling", "decoding"}

Limit == 3

\* An empty /tmp/hc, but for the start time of the PID 1 that is running.
Rekeyed == [boot |-> "this", fail |-> 0, ready |-> FALSE, last |-> "none"]

HealthInit ==
  /\ engine = "booting" /\ work = "idle" /\ advanced = FALSE
  /\ files = [Rekeyed EXCEPT !.boot = "none"]
  /\ probe = "off"
  /\ answered = FALSE /\ misses = 0

-----------------------------------------------------------------------------
(* The probe.                                                              *)

\* Counting stops to matter at the limit.
OneMore(n) == IF n < Limit THEN n + 1 ELSE n

\* Mutant: the marker that arms the probe survives a restart.
KeyedByMarker ==
  IF files.boot = "this" THEN files ELSE [files EXCEPT !.boot = "this", !.fail = 0]

\* Mutant: the files are cleared, and the start time is not written down.
KeyedUnrecorded ==
  IF files.boot = "this" THEN files ELSE [Rekeyed EXCEPT !.boot = files.boot]

\* What another boot left in the files is thrown away.
Keyed == IF files.boot = "this" THEN files ELSE Rekeyed

StartProbe ==
  /\ probe = "off"
  /\ files' = Keyed
  /\ probe' = "metrics"
  /\ UNCHANGED <<engine, work, advanced, history>>

\* Mutant: success leaves the count of failures as it is.
OkKeepingCount(kept) == files' = [kept EXCEPT !.ready = TRUE]

\* ok(), with the files as the probe has left them so far.
Ok(kept) == files' = [kept EXCEPT !.fail = 0, !.ready = TRUE]

\* Mutant: the count may exceed the limit before anything is done.
BadOverLimit(kept) ==
  /\ files' = IF kept.ready THEN [kept EXCEPT !.fail = OneMore(@)] ELSE kept
  /\ engine' = IF kept.ready /\ kept.fail > Limit THEN "exiting" ELSE engine

\* bad(): an engine that has not been ready yet is left alone; the third
\* failure kills PID 1.
Bad(kept) ==
  /\ files' = IF kept.ready THEN [kept EXCEPT !.fail = OneMore(@)] ELSE kept
  /\ engine' = IF kept.ready /\ kept.fail + 1 >= Limit THEN "exiting" ELSE engine

\* The probe ends well, or badly.
Succeed(kept) ==
  /\ Ok(kept)
  /\ probe' = "off" /\ answered' = TRUE /\ misses' = 0
  /\ UNCHANGED engine

Fail(kept) ==
  /\ Bad(kept)
  /\ probe' = "off" /\ misses' = OneMore(misses)
  /\ UNCHANGED answered

\* The metrics cannot be had, or not be parsed: there is no server yet, none
\* any more, or it does not get to answer.
MetricsUnreachable ==
  /\ probe = "metrics"
  /\ Fail(files)
  /\ UNCHANGED <<work, advanced>>

\* The metrics arrive.  With requests running, the counter must have moved
\* since it was last read, if it was; with none, the engine has to answer.
ReadMetrics ==
  /\ probe = "metrics" /\ engine \in {"serving", "hung"}
  /\ LET read == [files EXCEPT !.last = "read"]
     IN  \/ /\ work # "idle" /\ (advanced \/ files.last = "none")
            /\ Succeed(read)
         \/ /\ work # "idle" /\ ~advanced /\ files.last = "read"
            /\ Fail(read)
         \/ /\ work = "idle"
            /\ files' = read /\ probe' = "generate"
            /\ UNCHANGED <<engine, history>>
  /\ advanced' = FALSE
  /\ UNCHANGED work

\* One token is asked for, and comes: it counts among those generated.
Answered ==
  /\ probe = "generate" /\ engine = "serving"
  /\ Succeed(files)
  /\ advanced' = TRUE
  /\ UNCHANGED work

\* It does not come in time: the engine is not serving, or requests that came
\* after the metrics were read are served first.
Unanswered ==
  /\ probe = "generate" /\ (engine # "serving" \/ work # "idle")
  /\ Fail(files)
  /\ UNCHANGED <<work, advanced>>

\* The container gives a probe up after its timeout; the files stay as they are.
GiveUp ==
  /\ probe # "off"
  /\ probe' = "off"
  /\ UNCHANGED <<engine, work, advanced, files, history>>

-----------------------------------------------------------------------------
(* The container and its engine.                                           *)

\* PID 1 ends, killed or of itself, and the container is started again.  The
\* files are those of another boot now.
Restart ==
  /\ engine' = "booting" /\ work' = "idle" /\ advanced' = FALSE
  /\ files' = [files EXCEPT !.boot = IF @ = "this" THEN "other" ELSE @]
  /\ probe' = "off"
  /\ answered' = FALSE /\ misses' = 0

Exit == engine = "exiting" /\ Restart

Crash == engine # "exiting" /\ Restart

engineOnly == <<files, probe, history>>

BootDone == /\ engine = "booting" /\ engine' = "serving"
            /\ UNCHANGED <<work, advanced, engineOnly>>

Hang == /\ engine \in {"booting", "serving"} /\ engine' = "hung"
        /\ UNCHANGED <<work, advanced, engineOnly>>

Serving(from, to) == /\ engine = "serving" /\ work \in from /\ work' = to
                     /\ UNCHANGED <<engine, engineOnly>>

Arrive == Serving({"idle"}, "prefilling") /\ UNCHANGED advanced
Generate == Serving({"prefilling", "decoding"}, "decoding") /\ advanced' = TRUE
Drain == Serving({"decoding"}, "idle") /\ UNCHANGED advanced

Probe == StartProbe \/ MetricsUnreachable \/ ReadMetrics \/ Answered \/ Unanswered

HealthNext == Probe \/ GiveUp \/ Exit \/ Crash \/ BootDone \/ Hang \/ Arrive \/ Generate \/ Drain

HealthSpec == HealthInit /\ [][HealthNext]_healthVars

\* Probes go on being started, and the timeout is longer than a probe waits for
\* its answers, so not every probe is given up; PID 1 ends when it is killed.
FairSpec == /\ HealthSpec
            /\ WF_healthVars(StartProbe)
            /\ SF_healthVars(MetricsUnreachable \/ ReadMetrics)
            /\ SF_healthVars(Answered \/ Unanswered)
            /\ WF_healthVars(Exit)

-----------------------------------------------------------------------------
(* Properties.                                                             *)

\* Types.  The files are trusted only when they are those of this boot.
HealthTypeOK ==
  /\ engine \in Engines /\ work \in Works /\ advanced \in BOOLEAN
  /\ files \in [boot : {"none", "this", "other"}, fail : 0 .. Limit, ready : BOOLEAN,
                last : {"none", "read"}]
  /\ probe \in {"off", "metrics", "generate"}
  /\ answered \in BOOLEAN /\ misses \in 0 .. Limit
  /\ probe # "off" => files.boot = "this"

\* Rule 1: a boot is killed only after a probe of that same boot found it well;
\* the kills cannot feed themselves across restarts.
KilledHasServed == engine = "exiting" => answered

\* The three failures that kill are in a row and of one boot: nothing that
\* another boot left, and no failure before the last success, counts.
KilledAfterThree == engine = "exiting" => misses = Limit

\* What the probe is for: an engine that hangs after it served is killed and
\* booted again, whatever its metrics say when it hangs.
HungIsRestarted == engine = "hung" /\ answered ~> engine = "booting"
=============================================================================
