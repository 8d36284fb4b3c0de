------------------------------ MODULE Lifecycle -----------------------------
(***************************************************************************)
(* The service around nbd-vram: vram-swap-nbd.service starts the daemon,   *)
(* nbd-vram-connect.sh puts swap on a device it serves,                    *)
(* nbd-vram-disconnect.sh takes it away again; the power check and the     *)
(* sleep hook stop and start the service by themselves.                    *)
(*                                                                         *)
(* The scripts run command by command, and any command may fail.  A daemon *)
(* is what Drain makes of it: told to end, it ends once no device is       *)
(* connected to it.  systemd, the kernel and the user are external.        *)
(***************************************************************************)
EXTENDS Integers

CONSTANTS Devs,       \* /dev/nbd0 .. /dev/nbd15: 0..n
          Daemons,    \* how many the device memory has room for
          None,
          MaxUser, MaxCrashes, MaxSleeps  \* bounds: commands of the user,
                                          \* crashes, times the machine sleeps

ASSUME LifecycleAssumption ==
  /\ Devs \subseteq Nat /\ 0 \in Devs
  /\ None \notin Devs \cup Daemons
  /\ {MaxUser, MaxCrashes, MaxSleeps} \subseteq Nat

VARIABLES
  unit,     \* of systemd's service: its state, whether what ends it
  result,   \*   failed, whether it was told to stop, and whether it is
  told,     \*   told to start again
  want,
  srv, st,  \* its daemon; of each daemon: "none", "up", "drain"
  sh, dev,  \* the script it runs: the next command, NBD_DEV or PREV
  conn,     \* of each device: the daemon connected to it
  swap,     \* the devices with swap on them
  file,     \* /run/nbd-vram-dev
  cut,      \* history: devices that lost their server with swap on them, to a
            \*   crash or to connect.sh's clean-up
  ac, pw, pfile,  \* the mains; nbd-vram-power-check.sh and its STATE_FILE
  slp, sfile,     \* nbd-vram-sleep.sh and its STATE_FILE
  user, crashes, sleeps

service == <<unit, result, told, want, srv>>
script  == <<sh, dev>>
kernel  == <<conn, swap>>
others  == <<ac, pw, pfile, slp, sfile>>
counts  == <<user, crashes, sleeps>>
vars == <<service, st, script, kernel, file, cut, others, counts>>

Init ==
  /\ unit = "off" /\ result = "ok" /\ told = FALSE /\ want = "none"
  /\ srv = None /\ st = [m \in Daemons |-> "none"]
  /\ sh = "none" /\ dev = None
  /\ conn = [d \in Devs |-> None] /\ swap = {}
  /\ file = None /\ cut = {}
  /\ ac = 1 /\ pw = "idle" /\ pfile = FALSE
  /\ slp = "awake" /\ sfile = FALSE
  /\ user = 0 /\ crashes = 0 /\ sleeps = 0

-----------------------------------------------------------------------------
(* The daemon.                                                             *)

Connected(m) == {d \in Devs : conn[d] = m}

(* SIGTERM: it drains if a device is connected to it, and ends if not.     *)
Term(m) ==
  st' = IF m = None THEN st
        ELSE [st EXCEPT ![m] = IF Connected(m) # {} THEN "drain" ELSE "none"]

DrainEnds(m) ==
  /\ st[m] = "drain" /\ Connected(m) = {}
  /\ st' = [st EXCEPT ![m] = "none"]
  /\ UNCHANGED <<service, script, kernel, file, cut, others, counts>>

(* The kernel gives up the devices of a daemon that is gone.               *)
Crash(m) ==
  /\ st[m] # "none" /\ crashes < MaxCrashes
  /\ crashes' = crashes + 1
  /\ st' = [st EXCEPT ![m] = "none"]
  /\ conn' = [d \in Devs |-> IF conn[d] = m THEN None ELSE conn[d]]
  /\ cut' = cut \cup (Connected(m) \cap swap)
  /\ UNCHANGED <<service, script, swap, file, others, user, sleeps>>

-----------------------------------------------------------------------------
(* systemd, for this unit.                                                 *)

Gone(m) == m = None \/ st[m] = "none"

(* ExecStart: the daemon comes up, or fails, as it does for want of        *)
(* memory when others still drain; ExecStartPost follows READY=1.          *)
Launch ==
  /\ told' = FALSE /\ want' = "none" /\ result' = "ok"
  /\ \/ /\ \E m \in Daemons : st[m] = "none" /\ srv' = m /\ st' = [st EXCEPT ![m] = "up"]
        /\ unit' = "start" /\ sh' = "prevOff"
     \/ unit' = "restart" /\ UNCHANGED <<srv, st, sh>>
  /\ UNCHANGED dev

(* systemctl start.  It waits for a stop that is under way.                *)
SystemctlStart ==
  \/ unit \in {"off", "failed", "restart"} /\ Launch
  \/ /\ unit \in {"stop", "term"} /\ want' = "start"
     /\ UNCHANGED <<unit, result, told, srv, st, script>>
  \/ unit \in {"start", "active"} /\ UNCHANGED <<service, st, script>>

(* systemctl stop.  ExecStop is for a unit that is active; one that is     *)
(* still starting loses its script, and its daemon is told to end.         *)
SystemctlStop ==
  \/ /\ unit = "active"
     /\ unit' = "stop" /\ told' = TRUE /\ sh' = "off"
     /\ UNCHANGED <<result, want, srv, st, dev>>
  \/ /\ unit = "start"
     /\ unit' = "term" /\ told' = TRUE /\ sh' = "none" /\ Term(srv)
     /\ UNCHANGED <<result, want, srv, dev>>
  \/ unit = "restart" /\ unit' = "off" /\ UNCHANGED <<result, told, want, srv, st, script>>
  \/ /\ unit \in {"stop", "term"} /\ told' = TRUE /\ want' = "none"
     /\ UNCHANGED <<unit, result, srv, st, script>>
  \/ unit \in {"off", "failed"} /\ UNCHANGED <<service, st, script>>

(* A script is over: ExecStartPost's success makes the unit active, and    *)
(* everything else has SIGTERM sent to the daemon.                         *)
ScriptEnds(ok) ==
  /\ sh' = "none"
  /\ result' = IF ok THEN result ELSE "failed"
  /\ \/ unit = "start" /\ ok /\ unit' = "active" /\ UNCHANGED st
     \/ ~(unit = "start" /\ ok) /\ unit' = "term" /\ Term(srv)
  /\ UNCHANGED <<told, want, srv>>

(* The daemon is found gone: an active unit runs ExecStop, and one that    *)
(* starts is over.                                                         *)
Noticed ==
  /\ unit \in {"start", "active"} /\ Gone(srv)
  /\ result' = "failed"
  /\ unit' = IF unit = "active" THEN "stop" ELSE "term"
  /\ sh' = IF unit = "active" THEN "off" ELSE "none"
  /\ UNCHANGED <<told, want, srv, st, dev>>

(* The daemon has ended, or TimeoutStopSec has: SendSIGKILL=no leaves the  *)
(* daemon draining.  Restart=on-failure, but not after a systemctl stop.   *)
UnitEnds(timeout) ==
  /\ unit = "term"
  /\ IF timeout THEN ~Gone(srv) ELSE Gone(srv)
  /\ LET bad == timeout \/ result = "failed" IN
     unit' = IF want = "start" \/ (bad /\ ~told) THEN "restart"
             ELSE IF bad THEN "failed" ELSE "off"
  /\ srv' = None /\ told' = FALSE /\ want' = "none"
  /\ UNCHANGED <<result, st, script>>

Restart == unit = "restart" /\ Launch

systemd ==
  /\ Noticed \/ (\E timeout \in BOOLEAN : UnitEnds(timeout)) \/ Restart
  /\ UNCHANGED <<kernel, file, cut, others, counts>>

-----------------------------------------------------------------------------
(* The kernel's side of the commands.                                      *)

SwapoffWorks(d) == d \in swap /\ swap' = swap \ {d}
SwapoffFails    == UNCHANGED swap

(* nbd-client -d.                                                          *)
Disconnect(d) == conn' = [conn EXCEPT ![d] = None]

Run(c, next) == sh = c /\ sh' = next /\ UNCHANGED <<service, st>>

-----------------------------------------------------------------------------
(* nbd-vram-connect.sh.                                                    *)

(* A device left over from before: swapoff, but whatever comes of it, ...  *)
PrevOff ==
  /\ Run("prevOff", IF file = None THEN "find" ELSE "prevDisc")
  /\ dev' = file
  /\ (file # None /\ SwapoffWorks(file)) \/ SwapoffFails
  /\ UNCHANGED <<conn, file, cut>>

(* ... the device is disconnected.                                         *)
PrevDisc ==
  /\ Run("prevDisc", "prevRm")
  /\ Disconnect(dev)
  /\ cut' = IF conn[dev] # None THEN cut \cup ({dev} \cap swap) ELSE cut
  /\ UNCHANGED <<dev, swap, file>>

PrevRm == Run("prevRm", "find") /\ file' = None /\ UNCHANGED <<dev, kernel, cut>>

Free == {d \in Devs : conn[d] = None}

Find ==
  /\ \/ Run("find", "connect") /\ Free # {}
        /\ dev' = CHOOSE d \in Free : \A e \in Free : d <= e
     \/ sh = "find" /\ Free = {} /\ ScriptEnds(FALSE) /\ UNCHANGED dev
  /\ UNCHANGED <<kernel, file, cut>>

Connect ==
  /\ \/ Run("connect", "mkswap") /\ ~Gone(srv) /\ conn' = [conn EXCEPT ![dev] = srv]
     \/ sh = "connect" /\ ScriptEnds(FALSE) /\ UNCHANGED conn
  /\ UNCHANGED <<dev, swap, file, cut>>

(* mkswap refuses a device that is in use.                                 *)
Mkswap ==
  /\ \/ Run("mkswap", "swapon") /\ dev \notin swap
     \/ sh = "mkswap" /\ ScriptEnds(FALSE)
  /\ UNCHANGED <<dev, kernel, file, cut>>

(* A variant without set -e.                                               *)
SwaponUnchecked ==
  /\ Run("swapon", "save")
  /\ \/ conn[dev] # None /\ swap' = swap \cup {dev} /\ cut' = cut \ {dev}
     \/ UNCHANGED <<swap, cut>>
  /\ UNCHANGED <<dev, conn, file>>

(* With discards, or without.                                              *)
Swapon ==
  /\ \/ Run("swapon", "save") /\ conn[dev] # None
        /\ swap' = swap \cup {dev} /\ cut' = cut \ {dev}
     \/ sh = "swapon" /\ ScriptEnds(FALSE) /\ UNCHANGED <<swap, cut>>
  /\ UNCHANGED <<dev, conn, file>>

Save ==
  /\ sh = "save" /\ ScriptEnds(TRUE)
  /\ file' = dev
  /\ UNCHANGED <<dev, kernel, cut>>

ConnectSh == PrevOff \/ PrevDisc \/ PrevRm \/ Find \/ Connect \/ Mkswap \/ Swapon \/ Save

-----------------------------------------------------------------------------
(* nbd-vram-disconnect.sh.                                                 *)

(* A variant that goes on when swapoff fails.                              *)
OffAnyway ==
  /\ sh = "off"
  /\ dev' = IF file = None THEN 0 ELSE file
  /\ Run("off", "disc") /\ (SwapoffWorks(dev') \/ SwapoffFails)
  /\ UNCHANGED <<conn, file, cut>>

Off ==
  /\ sh = "off"
  /\ dev' = IF file = None THEN 0 ELSE file
  /\ \/ Run("off", "disc") /\ SwapoffWorks(dev')
     \/ ScriptEnds(FALSE) /\ SwapoffFails
  /\ UNCHANGED <<conn, file, cut>>

Disc == Run("disc", "rm") /\ Disconnect(dev) /\ UNCHANGED <<dev, swap, file, cut>>

Rm ==
  /\ sh = "rm" /\ ScriptEnds(TRUE)
  /\ file' = None
  /\ UNCHANGED <<dev, kernel, cut>>

Scripts == (ConnectSh \/ Off \/ Disc \/ Rm) /\ UNCHANGED <<others, counts>>

-----------------------------------------------------------------------------
(* nbd-vram-power-check.sh: at every change of the mains, and every minute *)
(* (nbd-vram-battery-watch.timer).  Off the mains swap is to be disabled.  *)

IsActive == unit = "active"
Plain == UNCHANGED <<service, st, script>>

PowerReads ==
  /\ pw = "idle" /\ pw' = IF ac = 0 THEN "disable" ELSE "enable"
  /\ Plain /\ UNCHANGED pfile

(* A variant that disables only what it has not disabled before.           *)
DisablesOnce == IsActive /\ ~pfile

Disables == IsActive

(* The script waits for systemctl stop.                                    *)
PowerDisable ==
  \/ pw = "disable" /\ Disables /\ pfile' = TRUE /\ pw' = "stop" /\ Plain
  \/ pw = "disable" /\ ~Disables /\ pw' = "idle" /\ Plain /\ UNCHANGED pfile
  \/ pw = "stop" /\ SystemctlStop /\ pw' = "wait" /\ UNCHANGED pfile
  \/ pw = "wait" /\ unit \notin {"stop", "term"} /\ pw' = "idle" /\ Plain /\ UNCHANGED pfile

PowerEnable ==
  \/ pw = "enable" /\ pfile /\ ~IsActive /\ pfile' = FALSE /\ pw' = "start" /\ Plain
  \/ pw = "enable" /\ ~(pfile /\ ~IsActive) /\ pw' = "idle" /\ Plain /\ UNCHANGED pfile
  \/ pw = "start" /\ SystemctlStart /\ pw' = "idle" /\ UNCHANGED pfile

PowerCheck ==
  /\ PowerReads \/ PowerDisable \/ PowerEnable
  /\ UNCHANGED <<kernel, file, cut, ac, slp, sfile, counts>>

Mains ==
  /\ ac' = 1 - ac
  /\ UNCHANGED <<service, st, script, kernel, file, cut, pw, pfile, slp, sfile, counts>>

-----------------------------------------------------------------------------
(* nbd-vram-sleep.sh: pre before the machine sleeps, post when it wakes.   *)

SleepPre ==
  \/ slp = "awake" /\ sleeps < MaxSleeps /\ sleeps' = sleeps + 1 /\ slp' = "pre"
       /\ Plain /\ UNCHANGED sfile
  \/ slp = "pre" /\ IsActive /\ sfile' = TRUE /\ slp' = "stop" /\ Plain /\ UNCHANGED sleeps
  \/ slp = "pre" /\ ~IsActive /\ slp' = "asleep" /\ Plain /\ UNCHANGED <<sfile, sleeps>>
  \/ slp = "stop" /\ SystemctlStop /\ slp' = "wait" /\ UNCHANGED <<sfile, sleeps>>
  \/ slp = "wait" /\ unit \notin {"stop", "term"} /\ slp' = "asleep"
       /\ Plain /\ UNCHANGED <<sfile, sleeps>>

SleepPost ==
  \/ slp = "asleep" /\ slp' = "post" /\ Plain /\ UNCHANGED <<sfile, sleeps>>
  \/ slp = "post" /\ sfile /\ sfile' = FALSE /\ slp' = "start" /\ Plain /\ UNCHANGED sleeps
  \/ slp = "post" /\ ~sfile /\ slp' = "awake" /\ Plain /\ UNCHANGED <<sfile, sleeps>>
  \/ slp = "start" /\ SystemctlStart /\ slp' = "awake" /\ UNCHANGED <<sfile, sleeps>>

Sleep ==
  /\ SleepPre \/ SleepPost
  /\ UNCHANGED <<kernel, file, cut, ac, pw, pfile, user, crashes>>

User ==
  /\ user < MaxUser /\ user' = user + 1
  /\ SystemctlStart \/ SystemctlStop
  /\ UNCHANGED <<kernel, file, cut, others, crashes, sleeps>>

(* Nothing else runs while the machine sleeps.                             *)
Awake == slp # "asleep"

Next ==
  \/ Sleep
  \/ Awake /\ systemd
  \/ Awake /\ Scripts
  \/ Awake /\ PowerCheck
  \/ Awake /\ User
  \/ \E m \in Daemons : Awake /\ (DrainEnds(m) \/ Crash(m))
  \/ Mains

(* The scripts, systemd and the daemons run, the timer fires, and a        *)
(* machine that begins to sleep sleeps and wakes; nothing makes swapoff    *)
(* succeed.                                                                *)
Spec ==
  /\ Init /\ [][Next]_vars
  /\ WF_vars(Awake /\ systemd) /\ WF_vars(Awake /\ Scripts) /\ WF_vars(Awake /\ PowerCheck)
  /\ WF_vars(slp # "awake" /\ Sleep)
  /\ \A m \in Daemons : WF_vars(Awake /\ DrainEnds(m))

-----------------------------------------------------------------------------
(* Properties.                                                             *)

(* Swap is never left without the daemon that holds its pages, whoever     *)
(* stops and starts the service in whichever order and however often       *)
(* swapoff fails: neither disconnect.sh nor a stop that times out takes it *)
(* away.  Only a crash does, and connect.sh's clean-up of a device left    *)
(* over (disconnect.sh's exit 1, SendSIGKILL=no, sig_handler's drain).     *)
SwapServed == \A d \in swap \ cut : conn[d] # None /\ st[conn[d]] # "none"

(* While the service is active, /run/nbd-vram-dev names a device with swap *)
(* on it that the service's own daemon serves, though daemons of earlier   *)
(* stops may still drain on others (connect.sh's choice of a device, its   *)
(* set -e, and that it saves the name last).                               *)
ActiveIsComplete ==
  unit = "active" /\ ~Gone(srv) =>
    st[srv] = "up" /\ file \in swap /\ conn[file] = srv

(* On battery for good, the service ends up stopped, whatever else started *)
(* it again meanwhile: the sleep hook, a restart after a crash, the user   *)
(* (nbd-vram-power-check.sh).                                              *)
BatterySettles == <>[](ac = 0) => <>[](unit # "active")

=============================================================================
