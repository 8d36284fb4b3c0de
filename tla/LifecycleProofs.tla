--------------------------- MODULE LifecycleProofs ---------------------------
(***************************************************************************)
(* That swap stays served, and that an active service is complete, for any *)
(* number of devices and of daemons and however often the user, the power  *)
(* check and the sleep hook stop and start the service, and daemons crash. *)
(***************************************************************************)
EXTENDS Lifecycle, WellFoundedInduction, TLAPS

ConnectSteps == {"prevOff", "prevDisc", "prevRm", "find", "connect", "mkswap", "swapon", "save"}
OffSteps     == {"off", "disc", "rm"}

Typed ==
  /\ unit \in {"off", "failed", "restart", "start", "active", "stop", "term"}
  /\ srv \in Daemons \cup {None} /\ st \in [Daemons -> {"none", "up", "drain"}]
  /\ conn \in [Devs -> Daemons \cup {None}] /\ swap \subseteq Devs
  /\ file \in Devs \cup {None}

(* The unit's state says which script runs, and whether it has a daemon.   *)
Scripted ==
  /\ unit = "start" <=> sh \in ConnectSteps
  /\ unit = "stop" <=> sh \in OffSteps
  /\ unit \notin {"start", "stop"} => sh = "none"
  /\ unit \in {"off", "failed", "restart"} => srv = None
  /\ sh \in {"prevDisc", "connect", "mkswap", "swapon", "save", "disc", "rm"} => dev \in Devs

(* A device is connected to a daemon that lives, and swap to a device.     *)
Served ==
  /\ \A d \in Devs : conn[d] # None => st[conn[d]] # "none"
  /\ \A d \in swap \ cut : conn[d] # None
  /\ sh = "disc" => dev \notin swap

(* How far connect.sh has come with the daemon it was started for.         *)
Ready ==
  ~Gone(srv) =>
    /\ unit \in {"start", "active", "stop"} => st[srv] = "up"
    /\ sh \in {"mkswap", "swapon", "save"} => conn[dev] = srv
    /\ sh = "save" => dev \in swap
    /\ unit = "active" => file \in swap /\ conn[file] = srv

IInv == Typed /\ Scripted /\ Served /\ Ready

-----------------------------------------------------------------------------
(* A set of numbers that is not empty has a least one.                     *)

LEMMA Least ==
  ASSUME NEW S \in SUBSET Nat, S # {}
  PROVE  \E d \in S : \A e \in S : d <= e
  <1>1. PICK d \in S : \A e \in S : ~(<<e, d>> \in OpToRel(<, Nat))
    BY NatLessThanWellFounded, WFMin, Zenon
  <1>2. \A e \in S : ~(e < d)
    BY <1>1, Zenon DEF OpToRel
  <1> QED
    BY <1>2

LEMMA FoundFree ==
  ASSUME Free # {}
  PROVE  (CHOOSE d \in Free : \A e \in Free : d <= e) \in Devs
  <1>1. Free \in SUBSET Nat /\ Free \subseteq Devs
    BY LifecycleAssumption, Zenon DEF Free
  <1>2. \E d \in Free : \A e \in Free : d <= e
    BY <1>1, Least, Zenon
  <1> QED
    BY <1>1, <1>2, Zenon

-----------------------------------------------------------------------------
(* One lemma per action.                                                   *)

(* What the rest of the machine does to none of this.                      *)
Kept == UNCHANGED <<kernel, file, cut>>

LEMMA K_Plain ==
  ASSUME IInv, Kept, Plain PROVE IInv'
  <1>1. Typed'
    BY LifecycleAssumption, Zenon DEF IInv, Typed, Scripted, Kept, Plain, service, script, kernel
  <1>2. Scripted'
    BY LifecycleAssumption, Zenon
    DEF IInv, Typed, Scripted, ConnectSteps, OffSteps, Kept, Plain, service, script, kernel
  <1>3. Served'
    BY LifecycleAssumption, Zenon DEF IInv, Typed, Scripted, Served, Kept, Plain, service, script, kernel
  <1>4. Ready'
    BY LifecycleAssumption, Zenon
    DEF IInv, Typed, Scripted, Served, Ready, Gone, ConnectSteps, OffSteps, Kept, Plain, service,
        script, kernel
  <1> QED
    BY <1>1, <1>2, <1>3, <1>4, Zenon DEF IInv

LEMMA K_Launch ==
  ASSUME IInv, Kept, Launch, unit \in {"off", "failed", "restart"} PROVE IInv'
  <1>1. Typed'
    BY LifecycleAssumption, Zenon DEF IInv, Typed, Scripted, Kept, Launch, kernel, Gone
  <1>2. Scripted'
    BY LifecycleAssumption, Zenon
    DEF IInv, Typed, Scripted, ConnectSteps, OffSteps, Kept, Launch, kernel, Gone
  <1>3. Served'
    BY LifecycleAssumption, Zenon DEF IInv, Typed, Scripted, Served, Kept, Launch, kernel, Gone
  <1>4. Ready'
    BY LifecycleAssumption, Zenon
    DEF IInv, Typed, Scripted, Served, Ready, Gone, ConnectSteps, OffSteps, Kept, Launch, kernel,
        Gone
  <1> QED
    BY <1>1, <1>2, <1>3, <1>4, Zenon DEF IInv

LEMMA K_SystemctlStop ==
  ASSUME IInv, Kept, SystemctlStop PROVE IInv'
  <1>1. Typed'
    BY LifecycleAssumption, Zenon
    DEF IInv, Typed, Scripted, Kept, SystemctlStop, Term, Connected, service, script, kernel
  <1>2. Scripted'
    BY LifecycleAssumption, Zenon
    DEF IInv, Typed, Scripted, ConnectSteps, OffSteps, Kept, SystemctlStop, Term, Connected,
        service, script, kernel
  <1>3. Served'
    BY LifecycleAssumption, Zenon
    DEF IInv, Typed, Scripted, Served, Kept, SystemctlStop, Term, Connected, service, script, kernel
  <1>4. Ready'
    BY LifecycleAssumption, Zenon
    DEF IInv, Typed, Scripted, Served, Ready, Gone, ConnectSteps, OffSteps, Kept, SystemctlStop,
        Term, Connected, service, script, kernel
  <1> QED
    BY <1>1, <1>2, <1>3, <1>4, Zenon DEF IInv

LEMMA K_Noticed ==
  ASSUME IInv, Kept, Noticed PROVE IInv'
  <1>1. Typed'
    BY LifecycleAssumption, Zenon DEF IInv, Typed, Scripted, Kept, Noticed, kernel, script, Gone
  <1>2. Scripted'
    BY LifecycleAssumption, Zenon
    DEF IInv, Typed, Scripted, ConnectSteps, OffSteps, Kept, Noticed, kernel, script, Gone
  <1>3. Served'
    BY LifecycleAssumption, Zenon DEF IInv, Typed, Scripted, Served, Kept, Noticed, kernel, script, Gone
  <1>4. Ready'
    BY LifecycleAssumption, Zenon
    DEF IInv, Typed, Scripted, Served, Ready, Gone, ConnectSteps, OffSteps, Kept, Noticed, kernel,
        script, Gone
  <1> QED
    BY <1>1, <1>2, <1>3, <1>4, Zenon DEF IInv

LEMMA K_UnitEnds ==
  ASSUME IInv, Kept, NEW timeout \in BOOLEAN, UnitEnds(timeout) PROVE IInv'
  <1>1. Typed'
    BY LifecycleAssumption, Zenon DEF IInv, Typed, Scripted, Kept, UnitEnds, kernel, script, Gone
  <1>2. Scripted'
    BY LifecycleAssumption, Zenon
    DEF IInv, Typed, Scripted, ConnectSteps, OffSteps, Kept, UnitEnds, kernel, script, Gone
  <1>3. Served'
    BY LifecycleAssumption, Zenon DEF IInv, Typed, Scripted, Served, Kept, UnitEnds, kernel, script, Gone
  <1>4. Ready'
    BY LifecycleAssumption, Zenon
    DEF IInv, Typed, Scripted, Served, Ready, Gone, ConnectSteps, OffSteps, Kept, UnitEnds, kernel,
        script, Gone
  <1> QED
    BY <1>1, <1>2, <1>3, <1>4, Zenon DEF IInv

LEMMA K_DrainEnds ==
  ASSUME IInv, NEW m \in Daemons, DrainEnds(m) PROVE IInv'
  <1>1. Typed'
    BY LifecycleAssumption, Zenon DEF IInv, Typed, Scripted, DrainEnds, Connected, service, script, kernel
  <1>2. Scripted'
    BY LifecycleAssumption, Zenon
    DEF IInv, Typed, Scripted, ConnectSteps, OffSteps, DrainEnds, Connected, service, script, kernel
  <1>3. Served'
    BY LifecycleAssumption, Zenon
    DEF IInv, Typed, Scripted, Served, DrainEnds, Connected, service, script, kernel
  <1>4. Ready'
    BY LifecycleAssumption, Zenon
    DEF IInv, Typed, Scripted, Served, Ready, Gone, ConnectSteps, OffSteps, DrainEnds, Connected,
        service, script, kernel
  <1> QED
    BY <1>1, <1>2, <1>3, <1>4, Zenon DEF IInv

LEMMA K_Crash ==
  ASSUME IInv, NEW m \in Daemons, Crash(m) PROVE IInv'
  <1>1. Typed'
    BY LifecycleAssumption, Zenon DEF IInv, Typed, Scripted, Crash, Connected, service, script
  <1>2. Scripted'
    BY LifecycleAssumption, Zenon
    DEF IInv, Typed, Scripted, ConnectSteps, OffSteps, Crash, Connected, service, script
  <1>3. Served'
    BY LifecycleAssumption, Zenon DEF IInv, Typed, Scripted, Served, Crash, Connected, service, script
  <1>4. Ready'
    BY LifecycleAssumption, Zenon
    DEF IInv, Typed, Scripted, Served, Ready, Gone, ConnectSteps, OffSteps, Crash, Connected,
        service, script
  <1> QED
    BY <1>1, <1>2, <1>3, <1>4, Zenon DEF IInv

LEMMA K_PrevOff ==
  ASSUME IInv, PrevOff PROVE IInv'
  <1>1. Typed'
    BY LifecycleAssumption, Zenon
    DEF IInv, Typed, Scripted, PrevOff, SwapoffWorks, SwapoffFails, Run, service
  <1>2. Scripted'
    BY LifecycleAssumption, Zenon
    DEF IInv, Typed, Scripted, ConnectSteps, OffSteps, PrevOff, SwapoffWorks, SwapoffFails, Run,
        service
  <1>3. Served'
    BY LifecycleAssumption, Zenon
    DEF IInv, Typed, Scripted, Served, PrevOff, SwapoffWorks, SwapoffFails, Run, service
  <1>4. Ready'
    BY LifecycleAssumption, Zenon
    DEF IInv, Typed, Scripted, Served, Ready, Gone, ConnectSteps, OffSteps, PrevOff, SwapoffWorks,
        SwapoffFails, Run, service
  <1> QED
    BY <1>1, <1>2, <1>3, <1>4, Zenon DEF IInv

LEMMA K_PrevDisc ==
  ASSUME IInv, PrevDisc PROVE IInv'
  <1>1. Typed'
    BY LifecycleAssumption, Zenon DEF IInv, Typed, Scripted, PrevDisc, Disconnect, Run, service
  <1>2. Scripted'
    BY LifecycleAssumption, Zenon
    DEF IInv, Typed, Scripted, ConnectSteps, OffSteps, PrevDisc, Disconnect, Run, service
  <1>3. Served'
    BY LifecycleAssumption, Zenon DEF IInv, Typed, Scripted, Served, PrevDisc, Disconnect, Run, service
  <1>4. Ready'
    BY LifecycleAssumption, Zenon
    DEF IInv, Typed, Scripted, Served, Ready, Gone, ConnectSteps, OffSteps, PrevDisc, Disconnect,
        Run, service
  <1> QED
    BY <1>1, <1>2, <1>3, <1>4, Zenon DEF IInv

LEMMA K_PrevRm ==
  ASSUME IInv, PrevRm PROVE IInv'
  <1>1. Typed'
    BY LifecycleAssumption, Zenon DEF IInv, Typed, Scripted, PrevRm, Run, service, kernel
  <1>2. Scripted'
    BY LifecycleAssumption, Zenon
    DEF IInv, Typed, Scripted, ConnectSteps, OffSteps, PrevRm, Run, service, kernel
  <1>3. Served'
    BY LifecycleAssumption, Zenon DEF IInv, Typed, Scripted, Served, PrevRm, Run, service, kernel
  <1>4. Ready'
    BY LifecycleAssumption, Zenon
    DEF IInv, Typed, Scripted, Served, Ready, Gone, ConnectSteps, OffSteps, PrevRm, Run, service,
        kernel
  <1> QED
    BY <1>1, <1>2, <1>3, <1>4, Zenon DEF IInv

LEMMA K_Find ==
  ASSUME IInv, Find PROVE IInv'
  <1>1. Typed'
    BY LifecycleAssumption, FoundFree, Zenon
    DEF IInv, Typed, Scripted, Find, ScriptEnds, Term, Connected, Run, service, kernel
  <1>2. Scripted'
    BY LifecycleAssumption, FoundFree, Zenon
    DEF IInv, Typed, Scripted, ConnectSteps, OffSteps, Find, ScriptEnds, Term, Connected, Run,
        service, kernel
  <1>3. Served'
    BY LifecycleAssumption, FoundFree, Zenon
    DEF IInv, Typed, Scripted, Served, Find, ScriptEnds, Term, Connected, Run, service, kernel
  <1>4. Ready'
    BY LifecycleAssumption, FoundFree, Zenon
    DEF IInv, Typed, Scripted, Served, Ready, Gone, ConnectSteps, OffSteps, Find, ScriptEnds, Term,
        Connected, Run, service, kernel
  <1> QED
    BY <1>1, <1>2, <1>3, <1>4, Zenon DEF IInv

LEMMA K_Connect ==
  ASSUME IInv, Connect PROVE IInv'
  <1>1. Typed'
    BY LifecycleAssumption
    DEF IInv, Typed, Scripted, Connect, ScriptEnds, Term, Connected, Run, service, Gone
  <1>2. Scripted'
    BY LifecycleAssumption, Zenon
    DEF IInv, Typed, Scripted, ConnectSteps, OffSteps, Connect, ScriptEnds, Term, Connected, Run,
        service, Gone
  <1>3. Served'
    BY LifecycleAssumption
    DEF IInv, Typed, Scripted, Served, Connect, ScriptEnds, Term, Connected, Run, service, Gone
  <1>4. Ready'
    BY LifecycleAssumption, Zenon
    DEF IInv, Typed, Scripted, Served, Ready, Gone, ConnectSteps, OffSteps, Connect, ScriptEnds,
        Term, Connected, Run, service, Gone
  <1> QED
    BY <1>1, <1>2, <1>3, <1>4, Zenon DEF IInv

LEMMA K_Mkswap ==
  ASSUME IInv, Mkswap PROVE IInv'
  <1>1. Typed'
    BY LifecycleAssumption, Zenon
    DEF IInv, Typed, Scripted, Mkswap, ScriptEnds, Term, Connected, Run, service, kernel
  <1>2. Scripted'
    BY LifecycleAssumption, Zenon
    DEF IInv, Typed, Scripted, ConnectSteps, OffSteps, Mkswap, ScriptEnds, Term, Connected, Run,
        service, kernel
  <1>3. Served'
    BY LifecycleAssumption, Zenon
    DEF IInv, Typed, Scripted, Served, Mkswap, ScriptEnds, Term, Connected, Run, service, kernel
  <1>4. Ready'
    BY LifecycleAssumption, Zenon
    DEF IInv, Typed, Scripted, Served, Ready, Gone, ConnectSteps, OffSteps, Mkswap, ScriptEnds,
        Term, Connected, Run, service, kernel
  <1> QED
    BY <1>1, <1>2, <1>3, <1>4, Zenon DEF IInv

LEMMA K_Swapon ==
  ASSUME IInv, Swapon PROVE IInv'
  <1>1. Typed'
    BY LifecycleAssumption, Zenon
    DEF IInv, Typed, Scripted, Swapon, ScriptEnds, Term, Connected, Run, service
  <1>2. Scripted'
    BY LifecycleAssumption, Zenon
    DEF IInv, Typed, Scripted, ConnectSteps, OffSteps, Swapon, ScriptEnds, Term, Connected, Run,
        service
  <1>3. Served'
    BY LifecycleAssumption, Zenon
    DEF IInv, Typed, Scripted, Served, Swapon, ScriptEnds, Term, Connected, Run, service
  <1>4. Ready'
    BY LifecycleAssumption, Zenon
    DEF IInv, Typed, Scripted, Served, Ready, Gone, ConnectSteps, OffSteps, Swapon, ScriptEnds,
        Term, Connected, Run, service
  <1> QED
    BY <1>1, <1>2, <1>3, <1>4, Zenon DEF IInv

LEMMA K_Save ==
  ASSUME IInv, Save PROVE IInv'
  <1>1. Typed'
    BY LifecycleAssumption, Zenon
    DEF IInv, Typed, Scripted, Save, ScriptEnds, Term, Connected, service, kernel
  <1>2. Scripted'
    BY LifecycleAssumption, Zenon
    DEF IInv, Typed, Scripted, ConnectSteps, OffSteps, Save, ScriptEnds, Term, Connected, service,
        kernel
  <1>3. Served'
    BY LifecycleAssumption
    DEF IInv, Typed, Scripted, Served, Save, ScriptEnds, Term, Connected, service, kernel
  <1>4. Ready'
    BY LifecycleAssumption, Zenon
    DEF IInv, Typed, Scripted, Served, Ready, Gone, ConnectSteps, OffSteps, Save, ScriptEnds, Term,
        Connected, service, kernel
  <1> QED
    BY <1>1, <1>2, <1>3, <1>4, Zenon DEF IInv

LEMMA K_Off ==
  ASSUME IInv, Off PROVE IInv'
  <1>1. Typed'
    BY LifecycleAssumption, Zenon
    DEF IInv, Typed, Scripted, Off, ScriptEnds, Term, Connected, Run, service, SwapoffWorks,
        SwapoffFails
  <1>2. Scripted'
    BY LifecycleAssumption, Zenon
    DEF IInv, Typed, Scripted, ConnectSteps, OffSteps, Off, ScriptEnds, Term, Connected, Run,
        service, SwapoffWorks, SwapoffFails
  <1>3. Served'
    <2>0. conn' = conn /\ cut' = cut
      BY Zenon DEF Off
    <2>1. CASE Run("off", "disc") /\ SwapoffWorks(dev')
      <3>1. st' = st /\ swap' = swap \ {dev'}
        BY <2>1, Zenon DEF Run, SwapoffWorks
      <3> QED
        BY <2>0, <3>1, Zenon DEF IInv, Served
    <2>2. CASE ScriptEnds(FALSE) /\ SwapoffFails
      <3>1. sh' = "none" /\ swap' = swap /\ Term(srv)
        BY <2>2, Zenon DEF ScriptEnds, SwapoffFails
      <3>2. \A d \in Devs : conn[d] # None => st'[conn[d]] # "none"
        BY <3>1, Zenon DEF IInv, Typed, Served, Term, Connected
      <3> QED
        BY <2>0, <3>1, <3>2, Zenon DEF IInv, Served
    <2> QED
      BY <2>1, <2>2, Zenon DEF Off
  <1>4. Ready'
    BY LifecycleAssumption, Zenon
    DEF IInv, Typed, Scripted, Served, Ready, Gone, ConnectSteps, OffSteps, Off, ScriptEnds, Term,
        Connected, Run, service, SwapoffWorks, SwapoffFails
  <1> QED
    BY <1>1, <1>2, <1>3, <1>4, Zenon DEF IInv

LEMMA K_Disc ==
  ASSUME IInv, Disc PROVE IInv'
  <1>1. Typed'
    BY LifecycleAssumption, Zenon DEF IInv, Typed, Scripted, Disc, Run, service, Disconnect
  <1>2. Scripted'
    BY LifecycleAssumption, Zenon
    DEF IInv, Typed, Scripted, ConnectSteps, OffSteps, Disc, Run, service, Disconnect
  <1>3. Served'
    BY LifecycleAssumption, Zenon DEF IInv, Typed, Scripted, Served, Disc, Run, service, Disconnect
  <1>4. Ready'
    BY LifecycleAssumption, Zenon
    DEF IInv, Typed, Scripted, Served, Ready, Gone, ConnectSteps, OffSteps, Disc, Run, service,
        Disconnect
  <1> QED
    BY <1>1, <1>2, <1>3, <1>4, Zenon DEF IInv

LEMMA K_Rm ==
  ASSUME IInv, Rm PROVE IInv'
  <1>1. Typed'
    BY LifecycleAssumption, Zenon
    DEF IInv, Typed, Scripted, Rm, ScriptEnds, Term, Connected, service, kernel
  <1>2. Scripted'
    BY LifecycleAssumption, Zenon
    DEF IInv, Typed, Scripted, ConnectSteps, OffSteps, Rm, ScriptEnds, Term, Connected, service,
        kernel
  <1>3. Served'
    BY LifecycleAssumption
    DEF IInv, Typed, Scripted, Served, Rm, ScriptEnds, Term, Connected, service, kernel
  <1>4. Ready'
    BY LifecycleAssumption, Zenon
    DEF IInv, Typed, Scripted, Served, Ready, Gone, ConnectSteps, OffSteps, Rm, ScriptEnds, Term,
        Connected, service, kernel
  <1> QED
    BY <1>1, <1>2, <1>3, <1>4, Zenon DEF IInv

LEMMA K_SystemctlStart ==
  ASSUME IInv, Kept, SystemctlStart PROVE IInv'
  <1>1. CASE unit \in {"off", "failed", "restart"} /\ Launch
    BY <1>1, K_Launch, Zenon
  <1>2. CASE UNCHANGED <<unit, srv, st, script>>
    BY <1>2, Zenon DEF IInv, Typed, Scripted, Served, Ready, Gone, Kept, kernel, script
  <1> QED
    BY <1>1, <1>2, Zenon DEF SystemctlStart, service

LEMMA K_Scripts ==
  ASSUME IInv, Scripts PROVE IInv'
  BY K_PrevOff, K_PrevDisc, K_PrevRm, K_Find, K_Connect, K_Mkswap, K_Swapon, K_Save, K_Off,
     K_Disc, K_Rm, Zenon DEF Scripts, ConnectSh

LEMMA K_systemd ==
  ASSUME IInv, systemd PROVE IInv'
  <1>1. Kept
    BY Zenon DEF systemd, Kept
  <1>2. CASE Noticed
    BY <1>1, <1>2, K_Noticed, Zenon
  <1>3. ASSUME NEW timeout \in BOOLEAN, UnitEnds(timeout) PROVE IInv'
    BY <1>1, <1>3, K_UnitEnds, Zenon
  <1>4. CASE Restart
    BY <1>1, <1>4, K_Launch, Zenon DEF Restart
  <1> QED
    BY <1>2, <1>3, <1>4, Zenon DEF systemd

LEMMA NextIInv ==
  ASSUME IInv, [Next]_vars PROVE IInv'
  <1>1. ASSUME Sleep \/ PowerCheck \/ User PROVE IInv'
    <2>1. Kept
      BY <1>1, Zenon DEF Sleep, PowerCheck, User, Kept
    <2>2. Plain \/ SystemctlStart \/ SystemctlStop
      BY <1>1, Zenon
      DEF Sleep, SleepPre, SleepPost, PowerCheck, PowerReads, PowerDisable, PowerEnable, User
    <2> QED
      BY <2>1, <2>2, K_Plain, K_SystemctlStart, K_SystemctlStop, Zenon
  <1>2. ASSUME Mains \/ UNCHANGED vars PROVE IInv'
    <2>1. Kept /\ Plain
      BY <1>2, Zenon DEF Mains, vars, Kept, Plain
    <2> QED
      BY <2>1, K_Plain, Zenon
  <1> QED
    BY <1>1, <1>2, K_systemd, K_Scripts, K_DrainEnds, K_Crash, Zenon DEF Next

LEMMA InitIInv ==
  ASSUME Init PROVE IInv
  BY LifecycleAssumption, Zenon
  DEF Init, IInv, Typed, Scripted, Served, Ready, Gone, ConnectSteps, OffSteps

LEMMA AlwaysIInv == Spec => []IInv
  <1> QED
    BY InitIInv, NextIInv, PTL DEF Spec

-----------------------------------------------------------------------------
(* The theorems.                                                           *)

(* No stop, no restart and no time-out takes swap's daemon away, with any  *)
(* number of devices and of daemons still draining (disconnect.sh's        *)
(* exit 1, SendSIGKILL=no, sig_handler's drain).                           *)
THEOREM SwapStaysServed == Spec => []SwapServed
  <1>1. IInv => SwapServed
    BY Zenon DEF IInv, Typed, Served, SwapServed
  <1> QED
    BY <1>1, AlwaysIInv, PTL

(* An active service serves the device that /run/nbd-vram-dev names, and   *)
(* there is swap on it (connect.sh).                                       *)
THEOREM ActiveComplete == Spec => []ActiveIsComplete
  <1>1. IInv => ActiveIsComplete
    BY Zenon DEF IInv, Ready, ActiveIsComplete
  <1> QED
    BY <1>1, AlwaysIInv, PTL

=============================================================================
