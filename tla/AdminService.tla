---------------------------- MODULE AdminService ----------------------------
(***************************************************************************)
(* internal/admin/service.go over the files of ProxyConfigDir: concurrent  *)
(* admin calls that read, change, validate, save and reload under          *)
(* service.mu, roll the file back when the reload fails, and may lose the  *)
(* process between any two steps.                                          *)
(*                                                                         *)
(* A file changes at its rename, removal, truncation and rewriting; the    *)
(* temporary file writeConfigFileAtomic prepares is never read (LoadDir    *)
(* takes only .json files), so it has no state here.  ReloadFromFile reads *)
(* all files, builds a snapshot and swaps it in (AppRuntime splits that    *)
(* step; no file changes meanwhile, since service.mu is held).             *)
(***************************************************************************)
EXTENDS ConfigData

CONSTANTS
    Callers,        \* admin calls that may be alive together
    Nobody,         \* holder of a free service.mu
    RestoreMayFail  \* the disk may refuse the rollback

ASSUME CallersAssumption == Nobody \notin Callers
ASSUME RestoreAssumption == RestoreMayFail \in BOOLEAN

VARIABLES
    disk,         \* content of each namespace file
    applied,      \* ProxyConfigs of the snapshot in use (kept when the process dies)
    alive,        \* the process runs
    mu,           \* service.mu
    pc,           \* where call c is
    op,           \* what it was asked to do
    file,         \* the namespaceFile it loaded
    before,       \* history: disk and snapshot when service.mu was last free
    restoreFailed \* history: a rollback failed and no reload succeeded since

callVars == <<pc, op, file>>
vars == <<disk, applied, alive, mu, callVars, before, restoreFailed>>

NoOp == [kind |-> "none"]

State == [disk |-> disk, applied |-> applied]

Init ==
    /\ disk \in [Namespaces -> {Absent, EmptyConfig}]
    /\ applied = disk
    /\ alive = TRUE
    /\ mu = Nobody
    /\ pc = [c \in Callers |-> "idle"]
    /\ op = [c \in Callers |-> NoOp]
    /\ file = [c \in Callers |-> Absent]
    /\ before = State
    /\ restoreFailed = FALSE

(***************************************************************************)
(* One call, from s.mu.Lock() to the deferred Unlock                       *)
(***************************************************************************)

\* Mutant of BeginCall: service.mu is not asked for.
BeginCallUnlocked(c) ==
    /\ alive /\ pc[c] = "idle"
    /\ mu' = c
    /\ pc' = [pc EXCEPT ![c] = "load"]
    /\ \E o \in Ops : op' = [op EXCEPT ![c] = o]
    /\ UNCHANGED <<disk, applied, alive, file, before, restoreFailed>>

BeginCall(c) ==
    /\ alive /\ pc[c] = "idle" /\ mu = Nobody
    /\ mu' = c
    /\ pc' = [pc EXCEPT ![c] = "load"]
    /\ \E o \in Ops : op' = [op EXCEPT ![c] = o]
    /\ UNCHANGED <<disk, applied, alive, file, before, restoreFailed>>

\* loadNamespaceFile (os.Stat for CreateNamespace); decoding a torn or invalid
\* file fails, except that CreateNamespace only asks whether there is one.
Load(c) ==
    /\ pc[c] = "load"
    /\ LET content == disk[op[c].ns]
       IN  /\ file' = [file EXCEPT ![c] = content]
           /\ pc' = [pc EXCEPT ![c] =
                IF Decodes(content) /\ Permitted(op[c], content) THEN "save" ELSE "failed"]
    /\ UNCHANGED <<disk, applied, alive, mu, op, before, restoreFailed>>

\* Mutant of Save: the file is written in place.
SaveInPlace(c) ==
    /\ pc[c] = "save"
    /\ \/ /\ disk' = [disk EXCEPT ![op[c].ns] = Torn]
          /\ UNCHANGED pc
       \/ /\ disk' = [disk EXCEPT ![op[c].ns] = Result(op[c], file[c])]
          /\ pc' = [pc EXCEPT ![c] = "reload"]
    /\ UNCHANGED <<applied, alive, mu, op, file, before, restoreFailed>>

\* writeConfigFileAtomic renames the new file into place, DeleteNamespace
\* removes the old one ...
Save(c) ==
    /\ pc[c] = "save"
    /\ disk' = [disk EXCEPT ![op[c].ns] = Result(op[c], file[c])]
    /\ pc' = [pc EXCEPT ![c] = "reload"]
    /\ UNCHANGED <<applied, alive, mu, op, file, before, restoreFailed>>

\* ... or the disk refuses and nothing has changed.
SaveFails(c) ==
    /\ pc[c] = "save"
    /\ pc' = [pc EXCEPT ![c] = "failed"]
    /\ UNCHANGED <<disk, applied, alive, mu, op, file, before, restoreFailed>>

\* Mutant of Reload: files that do not load are not noticed.
ReloadUnchecked(c) ==
    /\ pc[c] = "reload"
    /\ applied' = disk
    /\ restoreFailed' = FALSE
    /\ pc' = [pc EXCEPT ![c] = "done"]
    /\ UNCHANGED <<disk, alive, mu, op, file, before>>

\* ReloadFromFile succeeds only if every namespace file loads.
Reload(c) ==
    /\ pc[c] = "reload"
    /\ \A ns \in Namespaces : Loads(disk[ns])
    /\ applied' = disk
    /\ restoreFailed' = FALSE
    /\ pc' = [pc EXCEPT ![c] = "done"]
    /\ UNCHANGED <<disk, alive, mu, op, file, before>>

\* Mutant of ReloadFails: the file is not rolled back.
ReloadFailsForGood(c) ==
    /\ pc[c] = "reload"
    /\ pc' = [pc EXCEPT ![c] = "failed"]
    /\ UNCHANGED <<disk, applied, alive, mu, op, file, before, restoreFailed>>

\* It fails if one does not, or if the app config file is missing or broken.
ReloadFails(c) ==
    /\ pc[c] = "reload"
    /\ pc' = [pc EXCEPT ![c] = "restore"]
    /\ UNCHANGED <<disk, applied, alive, mu, op, file, before, restoreFailed>>

\* Mutant of Restore: the file is removed although it was there before.
RestoreRemoves(c) ==
    /\ pc[c] = "restore"
    /\ disk' = [disk EXCEPT ![op[c].ns] = Absent]
    /\ pc' = [pc EXCEPT ![c] = "failed"]
    /\ UNCHANGED <<applied, alive, mu, op, file, before, restoreFailed>>

\* restoreNamespaceFile removes a file that was not there, and truncates one
\* that was: os.WriteFile is not atomic.
Restore(c) ==
    /\ pc[c] = "restore"
    /\ IF file[c] = Absent
       THEN /\ disk' = [disk EXCEPT ![op[c].ns] = Absent]
            /\ pc' = [pc EXCEPT ![c] = "failed"]
       ELSE /\ disk' = [disk EXCEPT ![op[c].ns] = Torn]
            /\ pc' = [pc EXCEPT ![c] = "rewrite"]
    /\ UNCHANGED <<applied, alive, mu, op, file, before, restoreFailed>>

Rewrite(c) ==
    /\ pc[c] = "rewrite"
    /\ disk' = [disk EXCEPT ![op[c].ns] = file[c]]
    /\ pc' = [pc EXCEPT ![c] = "failed"]
    /\ UNCHANGED <<applied, alive, mu, op, file, before, restoreFailed>>

\* The rollback meets a disk error: it is reported and nothing more is tried.
RestoreFails(c) ==
    /\ RestoreMayFail /\ pc[c] \in {"restore", "rewrite"}
    /\ pc' = [pc EXCEPT ![c] = "failed"]
    /\ restoreFailed' = TRUE
    /\ UNCHANGED <<disk, applied, alive, mu, op, file, before>>

EndCall(c) ==
    /\ pc[c] \in {"done", "failed"}
    /\ pc' = [pc EXCEPT ![c] = "idle"]
    /\ op' = [op EXCEPT ![c] = NoOp]
    /\ file' = [file EXCEPT ![c] = Absent]
    /\ mu' = Nobody
    /\ before' = State
    /\ UNCHANGED <<disk, applied, alive, restoreFailed>>

(***************************************************************************)
(* The process                                                             *)
(***************************************************************************)

\* The process stops wherever its calls are; only the disk survives.
Stop ==
    /\ alive' = FALSE
    /\ mu' = Nobody
    /\ pc' = [c \in Callers |-> "idle"]
    /\ op' = [c \in Callers |-> NoOp]
    /\ file' = [c \in Callers |-> Absent]
    /\ before' = State
    /\ UNCHANGED <<disk, applied, restoreFailed>>

\* Killed, or its shutdown timed out with a call in flight.
Crash == alive /\ Stop

\* The checker of a pool with a zero interval panics in time.NewTicker.
ZeroInterval ==
    \E ns \in Namespaces : /\ applied[ns] # Absent
                            /\ \E p \in PoolIds : applied[ns].pools[p] = "zeroInterval"
TickerPanics == alive /\ ZeroInterval /\ Stop

\* Mutant of Restart: files that do not load are not noticed.
RestartUnchecked ==
    /\ ~alive
    /\ alive' = TRUE
    /\ applied' = disk
    /\ before' = [disk |-> disk, applied |-> disk]
    /\ restoreFailed' = FALSE
    /\ UNCHANGED <<disk, mu, callVars>>

\* main builds the first snapshot from the files, or exits.
Restart ==
    /\ ~alive
    /\ \A ns \in Namespaces : Loads(disk[ns])
    /\ alive' = TRUE
    /\ applied' = disk
    /\ before' = [disk |-> disk, applied |-> disk]
    /\ restoreFailed' = FALSE
    /\ UNCHANGED <<disk, mu, callVars>>

Call(c) ==
    \/ BeginCall(c) \/ Load(c) \/ Save(c) \/ SaveFails(c) \/ Reload(c) \/ ReloadFails(c)
    \/ Restore(c) \/ Rewrite(c) \/ RestoreFails(c) \/ EndCall(c)

Next == (\E c \in Callers : Call(c)) \/ Crash \/ TickerPanics \/ Restart

Spec == Init /\ [][Next]_vars

(***************************************************************************)
(* Reads, which do not ask for service.mu                                  *)
(***************************************************************************)

\* What a client is told of a file: whether it exists and the config, or an error.
Failure == <<>>
View(content) ==
    IF Decodes(content) THEN <<content # Absent, ConfigOf(content)>> ELSE Failure

\* GetNamespaceConfig (and the reads of routes and pools made of it) looks at the file.
GetNamespaceConfig(ns) == View(disk[ns])

\* ListNamespaces describes the configuration in use.
ListNamespaces == [ns \in Namespaces |-> View(applied[ns])]

(***************************************************************************)
(* Properties                                                              *)
(***************************************************************************)

\* Every variable holds a value the program can give it.
TypeOK ==
    /\ disk \in [Namespaces -> Config \union {Absent, Torn}]
    /\ applied \in [Namespaces -> Config \union {Absent}]
    /\ alive \in BOOLEAN
    /\ mu \in Callers \union {Nobody}
    /\ pc \in [Callers -> {"idle", "load", "save", "reload", "restore", "rewrite",
                           "done", "failed"}]
    /\ op \in [Callers -> Ops \union {NoOp}]
    /\ file \in [Callers -> Config \union {Absent, Torn}]
    /\ before \in [disk : [Namespaces -> Config \union {Absent, Torn}],
                   applied : [Namespaces -> Config \union {Absent}]]
    /\ restoreFailed \in BOOLEAN

\* Between calls the files and the configuration in use are the same, however
\* the calls before ended, unless the disk refused a rollback; the next reload
\* that succeeds heals even that (mutateNamespaceConfig).
AppliedMatchesDisk == (alive /\ mu = Nobody /\ ~restoreFailed) => disk = applied

\* A call that reports failure, at whatever step it failed, has changed neither
\* a file nor the configuration in use.  Excluded is a rollback that the disk
\* refused, as long as no reload has succeeded since (mutateNamespaceConfig).
FailedCallLeavesNoTrace ==
    \A c \in Callers : (pc[c] = "failed" /\ ~restoreFailed) => State = before

\* A call that reports success did what it was asked to what was there when it
\* got the lock, and nothing else: no update of a concurrent call is lost.
CallTakesEffectAlone ==
    \A c \in Callers : pc[c] = "done" =>
        LET there == before.disk[op[c].ns]
        IN  /\ Permitted(op[c], there)
            /\ disk = [before.disk EXCEPT ![op[c].ns] = Result(op[c], there)]
            /\ applied = disk

\* A process that dies leaves at most one namespace in doubt: its file holds
\* what one permitted operation makes of the configuration in use, or is torn.
OneNamespaceInDoubt ==
    (~alive /\ ~restoreFailed) =>
        \E ns \in Namespaces :
            /\ \A other \in Namespaces \ {ns} : disk[other] = applied[other]
            /\ \/ disk[ns] \in {applied[ns], Torn}
               \/ \E o \in Ops : /\ o.ns = ns /\ Permitted(o, applied[ns])
                                 /\ disk[ns] = Result(o, applied[ns])

\* What is in use always loads, every route with its pool.  And unless the disk
\* refused a rollback, no call fails because of another: the only file that may
\* not load is that of the call being made, or the one a dead process was at.
OnlyOwnFileMayNotLoad ==
    /\ \A ns \in Namespaces : Loads(applied[ns])
    /\ ~restoreFailed =>
         \A ns \in Namespaces : ~Loads(disk[ns]) =>
            IF alive
            THEN \E c \in Callers : /\ mu = c /\ op[c].ns = ns
                                   /\ pc[c] \in {"reload", "restore", "rewrite"}
            ELSE \A other \in Namespaces \ {ns} : Loads(disk[other])

\* Reads of files and of the configuration in use may disagree, but over no more
\* than the one call that is being made: a file differs only in what that call is
\* about to apply, or to roll back, and fails to decode only while its rollback
\* rewrites it (GetNamespaceConfig reads without service.mu).
ReadsSeeOneCall ==
    (alive /\ ~restoreFailed) =>
        \A ns \in Namespaces : GetNamespaceConfig(ns) # ListNamespaces[ns] =>
            \E c \in Callers :
                /\ mu = c /\ op[c].ns = ns
                /\ GetNamespaceConfig(ns) =
                     IF pc[c] = "rewrite" THEN Failure ELSE View(Result(op[c], applied[ns]))

\* Seen from the proxy, the service is the store of ConfigStore: operations
\* take effect at once at their reload (or at the restart after a crash), one
\* at a time, and what does not load is never applied; a rollback that the disk
\* refuses is the store's fault, until a reload or a start heals it.
Store == INSTANCE ConfigStore WITH store <- applied, faulty <- restoreFailed
ImplementsStore == Store!Spec

\* The service layer guarantees the consistency of the runtime: what it
\* validated and applied does not end the process.
AppliedConfigRuns == alive => ~ZeroInterval
=============================================================================
