------------------------- MODULE AdminServiceProofs -------------------------
(***************************************************************************)
(* Proofs about AdminService and ConfigStore, for any number of callers,   *)
(* namespaces, routes and pools.                                           *)
(***************************************************************************)
EXTENDS AdminService, TLAPS

Contents == Config \union {Absent}

LEMMA EmptyIsConfig == EmptyConfig \in Config
  BY DEF EmptyConfig, Config

\* An operation makes a config, or no file, of what it accepts.
LEMMA ResultTyped ==
    ASSUME NEW o \in Ops, NEW content \in Contents
    PROVE  Result(o, content) \in Contents
<1> DEFINE cfg == ConfigOf(content)
<1>1. cfg \in Config
  BY NoPoolAssumption DEF Contents, ConfigOf, EmptyConfig, Config
<1>2. CASE o \in RouteOps
  BY <1>1, <1>2 DEF RouteOps, Result, Contents, Config
<1>3. CASE o \in PoolOps
  BY <1>1, <1>3 DEF PoolOps, Result, Contents, Config
<1>4. CASE o \in NamespaceOps
  BY EmptyIsConfig, <1>4 DEF NamespaceOps, Result, Contents
<1> QED
  BY <1>2, <1>3, <1>4 DEF Ops

LEMMA OpHasNamespace == ASSUME NEW o \in Ops PROVE o.ns \in Namespaces
  BY DEF Ops, RouteOps, PoolOps, NamespaceOps

(***************************************************************************)
(* Types.  A file that is about to be saved has been decoded.              *)
(***************************************************************************)

Decoded(c) == pc[c] \in {"save", "reload", "restore", "rewrite"} => file[c] \in Contents

Busy(c) == pc[c] # "idle" => op[c] \in Ops

TypeInv ==
    /\ TypeOK
    /\ \A c \in Callers : Decoded(c) /\ Busy(c)

LEMMA TypeStep == TypeInv /\ [Next]_vars => TypeInv'
<1> SUFFICES ASSUME TypeInv, [Next]_vars PROVE TypeInv'
  OBVIOUS
<1> USE DEF TypeInv, TypeOK, Decoded, Busy
<1>1. ASSUME NEW c \in Callers, BeginCall(c) PROVE TypeInv'
  BY <1>1 DEF BeginCall
<1>2. ASSUME NEW c \in Callers, Load(c) PROVE TypeInv'
  <2>1. op[c] \in Ops /\ op[c].ns \in Namespaces
    BY <1>2, OpHasNamespace DEF Load
  <2>2. pc'[c] = "save" => disk[op[c].ns] \in Contents
    BY <1>2, <2>1 DEF Load, Decodes, Contents
  <2> QED
    BY <1>2, <2>1, <2>2 DEF Load
<1>3. ASSUME NEW c \in Callers, Save(c) PROVE TypeInv'
  <2>1. op[c] \in Ops /\ op[c].ns \in Namespaces /\ file[c] \in Contents
    BY <1>3, OpHasNamespace DEF Save
  <2>2. Result(op[c], file[c]) \in Contents
    BY <2>1, ResultTyped
  <2> QED
    BY <1>3, <2>1, <2>2 DEF Save, Contents
<1>4. ASSUME NEW c \in Callers, SaveFails(c) PROVE TypeInv'
  BY <1>4 DEF SaveFails
<1>5. ASSUME NEW c \in Callers, Reload(c) PROVE TypeInv'
  <2>1. \A ns \in Namespaces : disk[ns] \in Config \union {Absent}
    BY <1>5 DEF Reload, Loads, Decodes
  <2> QED
    BY <1>5, <2>1 DEF Reload
<1>6. ASSUME NEW c \in Callers, ReloadFails(c) PROVE TypeInv'
  BY <1>6 DEF ReloadFails
<1>7. ASSUME NEW c \in Callers, Restore(c) PROVE TypeInv'
  BY <1>7, OpHasNamespace DEF Restore
<1>8. ASSUME NEW c \in Callers, Rewrite(c) PROVE TypeInv'
  BY <1>8, OpHasNamespace DEF Rewrite, Contents
<1>9. ASSUME NEW c \in Callers, RestoreFails(c) PROVE TypeInv'
  BY <1>9 DEF RestoreFails
<1>10. ASSUME NEW c \in Callers, EndCall(c) PROVE TypeInv'
  BY <1>10 DEF EndCall, State
<1>11. CASE Stop
  BY <1>11 DEF Stop, State
<1>12. CASE Restart
  <2>1. \A ns \in Namespaces : disk[ns] \in Config \union {Absent}
    BY <1>12 DEF Restart, Loads, Decodes
  <2> QED
    BY <1>12, <2>1 DEF Restart, callVars
<1>13. CASE UNCHANGED vars
  BY <1>13 DEF vars, callVars
<1> QED
  BY <1>1, <1>2, <1>3, <1>4, <1>5, <1>6, <1>7, <1>8, <1>9, <1>10, <1>11, <1>12, <1>13
  DEF Next, Call, Crash, TickerPanics

\* Every variable keeps its type: the rollback and the restart deal only with
\* contents a namespace file can have.
THEOREM TypeCorrect == Spec => []TypeOK
<1>1. ASSUME Init PROVE TypeInv
  <2>1. disk \in [Namespaces -> Config \union {Absent, Torn}]
    BY <1>1, EmptyIsConfig DEF Init
  <2>2. applied \in [Namespaces -> Config \union {Absent}]
    BY <1>1, EmptyIsConfig DEF Init
  <2> QED
    BY <1>1, <2>1, <2>2 DEF Init, TypeInv, TypeOK, Decoded, Busy, State
<1>2. TypeInv => TypeOK
  BY DEF TypeInv
<1> QED
  BY <1>1, <1>2, TypeStep, PTL DEF Spec

(***************************************************************************)
(* The inductive invariant: how the files and the snapshot in use differ   *)
(* from those the holder of service.mu found, at each of its steps.        *)
(***************************************************************************)

Ns(c) == op[c].ns

\* service.mu excludes: the holder, and nobody else, is in a call, and alive.
Exclusion ==
    /\ \A c \in Callers : (mu = c) <=> (pc[c] # "idle")
    /\ mu # Nobody => alive

\* What was loaded is what was there, and it passed validation.
Loaded(c) == file[c] = before.disk[Ns(c)] /\ Permitted(op[c], file[c])

Saved(c) == disk = [before.disk EXCEPT ![Ns(c)] = Result(op[c], file[c])]

Progress(c) ==
    /\ pc[c] = "load" => State = before
    /\ pc[c] = "save" => State = before /\ Loaded(c)
    /\ pc[c] \in {"reload", "restore"} => Loaded(c) /\ Saved(c) /\ applied = before.applied
    /\ pc[c] = "rewrite" => /\ Loaded(c) /\ applied = before.applied
                            /\ disk = [before.disk EXCEPT ![Ns(c)] = Torn]
    /\ pc[c] = "done" => Loaded(c) /\ Saved(c) /\ applied = disk
    /\ pc[c] = "failed" => restoreFailed \/ State = before

Quiet == (alive /\ mu = Nobody) => State = before

InSync == (alive /\ ~restoreFailed /\ ~(\E c \in Callers : pc[c] = "done"))
              => before.disk = before.applied

IInv ==
    /\ TypeInv /\ Exclusion /\ Quiet /\ InSync
    /\ \A c \in Callers : Progress(c)
    /\ OneNamespaceInDoubt

\* The files differ from the snapshot in one namespace at most, and by no more
\* than one operation.
InDoubt ==
    \E ns \in Namespaces :
        /\ \A other \in Namespaces \ {ns} : disk[other] = applied[other]
        /\ \/ disk[ns] \in {applied[ns], Torn}
           \/ \E o \in Ops : /\ o.ns = ns /\ Permitted(o, applied[ns])
                             /\ disk[ns] = Result(o, applied[ns])

\* A process that dies at any step of a call leaves one namespace in doubt.
LEMMA DyingLeavesDoubt == IInv /\ alive /\ ~restoreFailed => InDoubt
<1> SUFFICES ASSUME IInv, alive, ~restoreFailed PROVE InDoubt
  OBVIOUS
<1> USE DEF IInv, TypeInv, TypeOK
<1>1. CASE disk = applied
  BY <1>1, NamespacesAssumption DEF InDoubt
<1>2. CASE mu = Nobody
  <2>1. before.disk = before.applied
    BY <1>2, CallersAssumption DEF InSync, Exclusion
  <2> QED
    BY <1>1, <1>2, <2>1 DEF Quiet, State
<1>3. ASSUME NEW c \in Callers, mu = c PROVE InDoubt
  <2>1. op[c] \in Ops /\ Ns(c) \in Namespaces
    BY <1>3, OpHasNamespace DEF Busy, Exclusion, Ns
  <2>2. CASE pc[c] \in {"load", "save", "done", "failed"}
    BY <1>1, <1>3, <2>2 DEF Progress, InSync, State, Exclusion
  <2>3. CASE pc[c] \in {"reload", "restore", "rewrite"}
    <3>1. applied = before.disk
      BY <1>3, <2>3 DEF Progress, InSync, Exclusion
    <3>2. CASE pc[c] \in {"reload", "restore"}
      <4>1. disk = [applied EXCEPT ![Ns(c)] = Result(op[c], applied[Ns(c)])]
        BY <3>1, <3>2 DEF Progress, Loaded, Saved
      <4>2. Permitted(op[c], applied[Ns(c)])
        BY <3>1, <3>2 DEF Progress, Loaded
      <4> QED
        BY <2>1, <4>1, <4>2 DEF InDoubt, Ns
    <3>3. CASE pc[c] = "rewrite"
      <4>1. disk = [applied EXCEPT ![Ns(c)] = Torn]
        BY <3>1, <3>3 DEF Progress
      <4> QED
        BY <2>1, <4>1 DEF InDoubt
    <3> QED
      BY <2>3, <3>2, <3>3
  <2> QED
    BY <1>3, <2>2, <2>3 DEF Exclusion
<1> QED
  BY <1>2, <1>3

\* Only a live process runs calls.
LEMMA CallsAreAlive ==
    ASSUME IInv, NEW c \in Callers, Call(c)
    PROVE  alive /\ alive'
<1>1. pc[c] # "idle" \/ BeginCall(c)
  BY DEF Call, Load, Save, SaveFails, Reload, ReloadFails, Restore, Rewrite,
         RestoreFails, EndCall
<1>2. alive
  BY <1>1, CallersAssumption DEF IInv, Exclusion, BeginCall
<1> QED
  BY <1>2 DEF Call, BeginCall, Load, Save, SaveFails, Reload, ReloadFails, Restore,
              Rewrite, RestoreFails, EndCall

\* Doubt ends with the process that is started again, and only dying begins it.
LEMMA DoubtStep == IInv /\ [Next]_vars => OneNamespaceInDoubt'
<1> SUFFICES ASSUME IInv, [Next]_vars, ~alive', ~restoreFailed' PROVE InDoubt'
  BY DEF OneNamespaceInDoubt, InDoubt
<1>1. Crash \/ TickerPanics \/ UNCHANGED vars
  BY CallsAreAlive DEF Next, Restart
<1>2. UNCHANGED <<disk, applied, restoreFailed>> /\ (alive' = alive \/ alive)
  BY <1>1 DEF Crash, TickerPanics, Stop, vars
<1>3. InDoubt
  BY <1>2, DyingLeavesDoubt DEF IInv, OneNamespaceInDoubt, InDoubt
<1> QED
  BY <1>2, <1>3 DEF InDoubt

(***************************************************************************)
(* The steps of the holder of service.mu                                   *)
(***************************************************************************)

Locking == Exclusion /\ Quiet /\ InSync /\ \A c \in Callers : Progress(c)

LEMMA LockingStep == IInv /\ [Next]_vars => Locking'
<1> SUFFICES ASSUME IInv, [Next]_vars PROVE Locking'
  OBVIOUS
<1> USE CallersAssumption DEF IInv, TypeInv, TypeOK
<1>1. ASSUME NEW c \in Callers, BeginCall(c) PROVE Locking'
  <2> USE <1>1 DEF BeginCall
  <2>1. alive /\ \A d \in Callers : pc[d] = "idle"
    BY DEF Exclusion
  <2>2. State = before /\ State' = State
    BY <2>1 DEF Quiet, State
  <2>3. Exclusion' /\ Quiet' /\ InSync'
    BY <2>1 DEF Exclusion, Quiet, InSync
  <2>4. ASSUME NEW d \in Callers PROVE Progress(d)'
    BY <2>1, <2>2 DEF Progress
  <2> QED
    BY <2>3, <2>4 DEF Locking
<1>2. ASSUME NEW c \in Callers, pc[c] # "idle", Call(c) PROVE Locking'
  <2>1. /\ mu = c /\ alive /\ alive'
        /\ \A d \in Callers \ {c} : pc[d] = "idle"
        /\ op[c] \in Ops /\ Ns(c) \in Namespaces
    BY <1>2, CallsAreAlive, OpHasNamespace DEF Exclusion, Busy, Ns
  <2>2. CASE Load(c)
    <3>1. State = before /\ State' = before'
      BY <2>2 DEF Load, Progress, State
    <3>2. pc'[c] = "save" => Loaded(c)'
      BY <2>1, <2>2, <3>1 DEF Load, Loaded, Ns, State
    <3> QED
      BY <2>1, <2>2, <3>1, <3>2
      DEF Load, Locking, Exclusion, Quiet, InSync, Progress
  <2>3. CASE Save(c)
    <3>1. State = before /\ Loaded(c)
      BY <2>3 DEF Save, Progress
    <3>2. Loaded(c)' /\ Saved(c)' /\ applied' = before'.applied
      BY <2>1, <2>3, <3>1 DEF Save, Loaded, Saved, Ns, State
    <3> QED
      BY <2>1, <2>3, <3>2
      DEF Save, Locking, Exclusion, Quiet, InSync, Progress
  <2>4. CASE SaveFails(c)
    BY <2>1, <2>4
    DEF SaveFails, Locking, Exclusion, Quiet, InSync, Progress, State
  <2>5. CASE Reload(c)
    <3>1. Loaded(c)' /\ Saved(c)'
      BY <2>5 DEF Reload, Progress, Loaded, Saved, Ns
    <3> QED
      BY <2>1, <2>5, <3>1
      DEF Reload, Locking, Exclusion, Quiet, InSync, Progress
  <2>6. CASE ReloadFails(c)
    <3>1. Loaded(c)' /\ Saved(c)' /\ applied' = before'.applied
      BY <2>6 DEF ReloadFails, Progress, Loaded, Saved, Ns
    <3> QED
      BY <2>1, <2>6, <3>1
      DEF ReloadFails, Locking, Exclusion, Quiet, InSync, Progress
  <2>7. CASE Restore(c)
    <3>1. Loaded(c) /\ Saved(c) /\ applied = before.applied
      BY <2>7 DEF Restore, Progress
    <3>2. CASE file[c] = Absent
      <4>1. disk' = before.disk
        <5>1. disk' = [disk EXCEPT ![Ns(c)] = Absent] /\ before.disk[Ns(c)] = Absent
          BY <2>7, <3>1, <3>2 DEF Restore, Loaded, Ns
        <5>2. disk' = [before.disk EXCEPT ![Ns(c)] = Absent]
          BY <2>1, <3>1, <5>1 DEF Saved
        <5> QED
          BY <2>1, <5>1, <5>2
      <4>2. State' = before'
        BY <2>7, <3>1, <4>1 DEF Restore, State
      <4> QED
        BY <2>1, <2>7, <3>2, <4>2
        DEF Restore, Locking, Exclusion, Quiet, InSync, Progress
    <3>3. CASE file[c] # Absent
      <4>1. disk' = [before.disk EXCEPT ![Ns(c)] = Torn] /\ Ns(c)' = Ns(c)
        BY <2>1, <2>7, <3>1, <3>3 DEF Restore, Saved, Ns
      <4>2. Loaded(c)'
        BY <2>7, <3>1 DEF Restore, Loaded, Ns
      <4> QED
        BY <2>1, <2>7, <3>1, <3>3, <4>1, <4>2
        DEF Restore, Locking, Exclusion, Quiet, InSync, Progress
    <3> QED
      BY <3>2, <3>3
  <2>8. CASE Rewrite(c)
    <3>1. disk' = before.disk /\ applied = before.applied
      BY <2>1, <2>8 DEF Rewrite, Progress, Loaded, Ns
    <3>2. State' = before'
      BY <2>8, <3>1 DEF Rewrite, State
    <3> QED
      BY <2>1, <2>8, <3>2
      DEF Rewrite, Locking, Exclusion, Quiet, InSync, Progress
  <2>9. CASE RestoreFails(c)
    BY <2>1, <2>9
    DEF RestoreFails, Locking, Exclusion, Quiet, InSync, Progress
  <2>10. CASE EndCall(c)
    <3>1. State' = before'
      BY <2>10 DEF EndCall, State
    <3>2. ~restoreFailed => disk = applied
      BY <2>1, <2>10 DEF EndCall, Progress, InSync, State
    <3>3. InSync'
      BY <2>10, <3>2 DEF EndCall, InSync, State
    <3> QED
      BY <2>1, <2>10, <3>1, <3>3
      DEF EndCall, Locking, Exclusion, Quiet, Progress
  <2> QED
    BY <1>2, <2>2, <2>3, <2>4, <2>5, <2>6, <2>7, <2>8, <2>9, <2>10 DEF Call, BeginCall
<1>3. CASE Stop
  BY <1>3 DEF Stop, Locking, Exclusion, Quiet, InSync, Progress
<1>4. CASE Restart
  <2>1. mu = Nobody /\ \A c \in Callers : pc[c] = "idle"
    BY <1>4 DEF Restart, Exclusion
  <2>2. State' = before' /\ before'.disk = before'.applied
    BY <1>4 DEF Restart, State
  <2> QED
    BY <1>4, <2>1, <2>2
    DEF Restart, callVars, Locking, Exclusion, Quiet, InSync, Progress
<1>5. CASE UNCHANGED vars
  <2>1. State' = State /\ \A c \in Callers : Loaded(c)' = Loaded(c) /\ Saved(c)' = Saved(c)
    BY <1>5 DEF vars, callVars, State, Loaded, Saved, Ns
  <2> QED
    BY <1>5, <2>1
    DEF vars, callVars, Locking, Exclusion, Quiet, InSync, Progress, Ns
<1> QED
  BY <1>1, <1>2, <1>3, <1>4, <1>5, CallsAreAlive
  DEF Next, Crash, TickerPanics, Call, Load, Save, SaveFails, Reload, ReloadFails, Restore,
      Rewrite, RestoreFails, EndCall

LEMMA Inductive == IInv /\ [Next]_vars => IInv'
  BY TypeStep, DoubtStep, LockingStep DEF IInv, Locking

LEMMA InitiallyIInv == Init => IInv
<1> SUFFICES ASSUME Init PROVE IInv
  OBVIOUS
<1>1. TypeInv
  <2>1. disk \in [Namespaces -> Config \union {Absent, Torn}]
    BY EmptyIsConfig DEF Init
  <2>2. applied \in [Namespaces -> Config \union {Absent}]
    BY EmptyIsConfig DEF Init
  <2> QED
    BY <2>1, <2>2 DEF Init, TypeInv, TypeOK, Decoded, Busy, State
<1>2. Locking /\ OneNamespaceInDoubt
  BY CallersAssumption
  DEF Init, Locking, Exclusion, Quiet, InSync, Progress, State,
      OneNamespaceInDoubt
<1> QED
  BY <1>1, <1>2 DEF IInv, Locking

LEMMA Invariance == Spec => []IInv
  BY InitiallyIInv, Inductive, PTL DEF Spec

\* Between calls the files and the configuration in use agree, whatever steps
\* failed and wherever the process died and was started again.
THEOREM FilesMatchRuntime == Spec => []AppliedMatchesDisk
<1>1. IInv => AppliedMatchesDisk
  BY CallersAssumption DEF IInv, Exclusion, Quiet, InSync, AppliedMatchesDisk, State
<1> QED
  BY <1>1, Invariance, PTL

\* A call that reports failure has changed nothing: the rollback undoes the
\* save, for every operation and every step that can fail.
THEOREM FailureLeavesNoTrace == Spec => []FailedCallLeavesNoTrace
<1>1. IInv => FailedCallLeavesNoTrace
  BY DEF IInv, Progress, FailedCallLeavesNoTrace
<1> QED
  BY <1>1, Invariance, PTL

\* A call that reports success has done what it was asked to the state it found
\* under the lock: no concurrent update is lost.
THEOREM NoLostUpdates == Spec => []CallTakesEffectAlone
<1>1. IInv => CallTakesEffectAlone
  BY DEF IInv, Progress, Loaded, Saved, Ns, CallTakesEffectAlone
<1> QED
  BY <1>1, Invariance, PTL

\* A process that dies, at whatever step, leaves one namespace in doubt.
THEOREM CrashLeavesOneInDoubt == Spec => []OneNamespaceInDoubt
<1>1. IInv => OneNamespaceInDoubt
  BY DEF IInv
<1> QED
  BY <1>1, Invariance, PTL

\* A namespace starts without a file or with an empty one, and both load.
LEMMA EmptyLoads == Loads(Absent) /\ Loads(EmptyConfig)
<1>1. Validate(EmptyConfig) /\ Builds(EmptyConfig)
  BY NoPoolAssumption DEF Validate, Builds, EmptyConfig
<1> QED
  BY <1>1, EmptyIsConfig DEF Loads, Decodes

AppliedLoads == \A ns \in Namespaces : Loads(applied[ns])

\* Only a reload and a start change what is in use, and both read every file.
LEMMA AppliedLoadsStep == AppliedLoads /\ [Next]_vars => AppliedLoads'
<1> SUFFICES ASSUME AppliedLoads, [Next]_vars PROVE AppliedLoads'
  OBVIOUS
<1>1. ASSUME NEW c \in Callers, Reload(c) PROVE AppliedLoads'
  BY <1>1 DEF Reload, AppliedLoads
<1>2. CASE Restart
  BY <1>2 DEF Restart, AppliedLoads
<1>3. CASE UNCHANGED applied
  BY <1>3 DEF AppliedLoads
<1> QED
  BY <1>1, <1>2, <1>3
  DEF Next, Call, BeginCall, Load, Save, SaveFails, ReloadFails, Restore, Rewrite,
      RestoreFails, EndCall, Crash, TickerPanics, Stop, vars

\* What is in use loads; and a call meets no broken file but its own: all others
\* are as they were applied.
THEOREM AllButOneFileLoad == Spec => []OnlyOwnFileMayNotLoad
<1>1. Init => AppliedLoads
  BY EmptyLoads DEF Init, AppliedLoads
<1>2. IInv /\ AppliedLoads => OnlyOwnFileMayNotLoad
  <2> SUFFICES ASSUME IInv, AppliedLoads, ~restoreFailed,
                      NEW ns \in Namespaces, ~Loads(disk[ns])
               PROVE  IF alive
                      THEN \E c \in Callers : /\ mu = c /\ op[c].ns = ns
                                             /\ pc[c] \in {"reload", "restore", "rewrite"}
                      ELSE \A other \in Namespaces \ {ns} : Loads(disk[other])
    BY DEF OnlyOwnFileMayNotLoad, AppliedLoads
  <2> USE DEF IInv, TypeInv, TypeOK
  <2>1. disk[ns] # applied[ns]
    BY DEF AppliedLoads
  <2>2. CASE alive
    <3>1. mu # Nobody
      BY <2>1, <2>2, CallersAssumption DEF InSync, Exclusion, Quiet, State
    <3>2. PICK c \in Callers : mu = c /\ pc[c] # "idle"
      BY <3>1 DEF Exclusion
    <3>3. pc[c] \in {"reload", "restore", "rewrite"} /\ applied = before.disk
      BY <2>1, <2>2, <3>2 DEF Progress, InSync, Exclusion, State
    <3>4. op[c].ns = ns
      BY <2>1, <3>2, <3>3 DEF Progress, Saved, Ns
    <3> QED
      BY <2>2, <3>2, <3>3, <3>4
  <2>3. CASE ~alive
    <3>1. PICK doubted \in Namespaces :
             \A other \in Namespaces \ {doubted} : disk[other] = applied[other]
      BY <2>3 DEF OneNamespaceInDoubt
    <3>2. doubted = ns
      BY <2>1, <3>1
    <3> QED
      BY <2>3, <3>1, <3>2 DEF AppliedLoads
  <2> QED
    BY <2>2, <2>3
<1> QED
  BY <1>1, <1>2, AppliedLoadsStep, Invariance, PTL DEF Spec

\* Reads without the lock see the configuration in use, but for what the one call
\* in progress is about to apply or to roll back.
THEOREM ReadsAreRecent == Spec => []ReadsSeeOneCall
<1>1. IInv => ReadsSeeOneCall
  <2> SUFFICES ASSUME IInv, alive, ~restoreFailed, NEW ns \in Namespaces,
                      View(disk[ns]) # View(applied[ns])
               PROVE  \E c \in Callers :
                        /\ mu = c /\ op[c].ns = ns
                        /\ View(disk[ns]) = IF pc[c] = "rewrite" THEN Failure
                                            ELSE View(Result(op[c], applied[ns]))
    BY DEF ReadsSeeOneCall, GetNamespaceConfig, ListNamespaces
  <2> USE DEF IInv, TypeInv, TypeOK
  <2>1. disk # applied
    OBVIOUS
  <2>2. mu # Nobody
    BY <2>1, CallersAssumption DEF InSync, Exclusion, Quiet, State
  <2>3. PICK c \in Callers : mu = c /\ pc[c] # "idle"
    BY <2>2 DEF Exclusion
  <2>4. pc[c] \in {"reload", "restore", "rewrite"} /\ applied = before.disk
    BY <2>1, <2>3 DEF Progress, InSync, Exclusion, State
  <2>5. op[c].ns = ns
    BY <2>3, <2>4 DEF Progress, Saved, Ns
  <2>6. CASE pc[c] = "rewrite"
    <3>1. disk[ns] = Torn
      BY <2>3, <2>5, <2>6 DEF Progress, Ns
    <3> QED BY <2>3, <2>5, <2>6, <3>1, ContentAssumption DEF View, Decodes
  <2>7. CASE pc[c] \in {"reload", "restore"}
    <3>1. disk[ns] = Result(op[c], applied[ns])
      BY <2>3, <2>4, <2>5, <2>7 DEF Progress, Loaded, Saved, Ns
    <3> QED BY <2>3, <2>5, <2>7, <3>1
  <2> QED BY <2>4, <2>6, <2>7
<1> QED
  BY <1>1, Invariance, PTL

(***************************************************************************)
(* The service implements the store, faults of the disk included.          *)
(***************************************************************************)

\* The instance has copies of the definitions of ConfigData.
LEMMA SameData ==
    /\ Store!Ops = Ops /\ Store!EmptyConfig = EmptyConfig /\ Store!Config = Config
    /\ \A o, content : /\ Store!Permitted(o, content) = Permitted(o, content)
                       /\ Store!Result(o, content) = Result(o, content)
    /\ \A content : Store!Loads(content) = Loads(content)
<1> USE DEF Store!EmptyConfig, EmptyConfig
<1>1. Store!Ops = Ops /\ Store!NamespaceOps = NamespaceOps
  BY DEF Store!Ops, Store!RouteOps, Store!PoolOps, Store!NamespaceOps,
         Ops, RouteOps, PoolOps, NamespaceOps
<1>2. \A content : Store!ConfigOf(content) = ConfigOf(content)
  BY DEF Store!ConfigOf, ConfigOf
<1>3. \A o, content : Store!Result(o, content) = Result(o, content)
  BY <1>2 DEF Store!Result, Result
<1>4. \A content : Store!Validate(content) = Validate(content)
  BY DEF Store!Validate, Validate
<1>5. \A o, content : Store!Accepts(o, content) = Accepts(o, content)
  BY <1>2 DEF Store!Accepts, Accepts
<1>6. \A o, content : Store!Permitted(o, content) = Permitted(o, content)
  BY <1>1, <1>3, <1>4, <1>5 DEF Store!Permitted, Permitted
<1>7. \A content : Store!Loads(content) = Loads(content)
  BY <1>4 DEF Store!Loads, Loads, Store!Decodes, Decodes, Store!Builds, Builds,
              Store!Config, Config
<1> QED
  BY <1>1, <1>3, <1>6, <1>7 DEF Store!Config, Config

\* A reload or a start that succeeds heals a store that was faulty.
LEMMA HealStep ==
    ASSUME TypeOK, restoreFailed, restoreFailed' = FALSE, applied' = disk,
           \A ns \in Namespaces : Loads(disk[ns])
    PROVE  Store!Heal
<1>1. \A ns \in Namespaces : disk[ns] \in {content \in Config \union {Absent} : Loads(content)}
  BY DEF Loads, Decodes
<1>2. disk \in [Namespaces -> {content \in Config \union {Absent} : Loads(content)}]
  BY <1>1 DEF TypeOK
<1> QED BY <1>2, SameData DEF Store!Heal

LEMMA StoreStep ==
    IInv /\ [Next]_vars => [Store!Next]_<<applied, restoreFailed>>
<1> SUFFICES ASSUME IInv, [Next]_vars PROVE [Store!Next]_<<applied, restoreFailed>>
  OBVIOUS
<1> USE DEF IInv, TypeInv, TypeOK
<1>1. ASSUME NEW c \in Callers, Reload(c) PROVE [Store!Next]_<<applied, restoreFailed>>
  <2> SUFFICES ASSUME ~restoreFailed PROVE Store!Next
    BY <1>1, HealStep DEF Reload, Store!Next
  <2>1. op[c] \in Ops /\ Ns(c) \in Namespaces
    BY <1>1, OpHasNamespace DEF Reload, Busy, Ns
  <2>2. before.disk = applied
    BY <1>1, CallersAssumption DEF Reload, Progress, InSync, Exclusion
  <2>3. Permitted(op[c], applied[Ns(c)])
    BY <1>1, <2>2 DEF Reload, Progress, Loaded
  <2>4. applied' = [applied EXCEPT ![Ns(c)] = Result(op[c], applied[Ns(c)])]
    BY <1>1, <2>2 DEF Reload, Progress, Loaded, Saved
  <2>5. Loads(Result(op[c], applied[Ns(c)]))
    BY <1>1, <2>1, <2>4 DEF Reload
  <2> QED
    BY <1>1, <2>1, <2>3, <2>4, <2>5, SameData DEF Store!Next, Store!Commit, Ns, Reload
<1>2. CASE Restart
  <2> SUFFICES ASSUME ~restoreFailed PROVE Store!Next \/ UNCHANGED <<applied, restoreFailed>>
    BY <1>2, HealStep DEF Restart, Store!Next
  <2>1. InDoubt
    BY <1>2 DEF Restart, OneNamespaceInDoubt, InDoubt
  <2>2. PICK ns \in Namespaces :
           /\ \A other \in Namespaces \ {ns} : disk[other] = applied[other]
           /\ \/ disk[ns] \in {applied[ns], Torn}
              \/ \E o \in Ops : /\ o.ns = ns /\ Permitted(o, applied[ns])
                                /\ disk[ns] = Result(o, applied[ns])
    BY <2>1 DEF InDoubt
  <2>3. applied' = disk /\ Loads(disk[ns])
    BY <1>2 DEF Restart
  <2>4. disk[ns] # Torn
    BY <2>3, ContentAssumption DEF Loads, Decodes
  <2>5. CASE disk[ns] = applied[ns]
    <3>1. \A n \in Namespaces : disk[n] = applied[n]
      BY <2>2, <2>5
    <3>2. disk = applied
      BY <3>1
    <3> QED
      BY <1>2, <2>3, <3>2 DEF Restart
  <2>6. ASSUME NEW o \in Ops, o.ns = ns, Permitted(o, applied[ns]),
               disk[ns] = Result(o, applied[ns])
        PROVE  Store!Next
    <3>1. disk = [applied EXCEPT ![ns] = Result(o, applied[ns])]
      BY <2>2, <2>6
    <3> QED
      BY <1>2, <2>3, <2>6, <3>1, SameData DEF Restart, Store!Next, Store!Commit
  <2> QED
    BY <2>2, <2>4, <2>5, <2>6
<1>3. ASSUME NEW c \in Callers, RestoreFails(c) PROVE Store!Next
  BY <1>3 DEF RestoreFails, Store!Next, Store!DiskRefuses
<1>4. CASE UNCHANGED <<applied, restoreFailed>>
  BY <1>4
<1> QED
  BY <1>1, <1>2, <1>3, <1>4
  DEF Next, Call, BeginCall, Load, Save, SaveFails, ReloadFails, Restore, Rewrite,
      EndCall, Crash, TickerPanics, Stop, vars

\* The service is the atomic store: calls that crash take effect at the restart or
\* not at all, and only a rollback that the disk refuses makes it faulty.
THEOREM Implementation == Spec => ImplementsStore
<1>1. Init => Store!Init
  BY SameData DEF Init, Store!Init
<1>2. IInv /\ [Next]_vars => [Store!Next]_<<applied, restoreFailed>>
  BY StoreStep
<1> QED
  BY <1>1, <1>2, Invariance, PTL DEF Spec, ImplementsStore, Store!Spec
=============================================================================
