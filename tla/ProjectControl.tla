--------------------------- MODULE ProjectControl ---------------------------
(***************************************************************************)
(* The HTTP API around the engine: starting, resuming, cancelling and      *)
(* resetting the migrations of projects, the goroutine that runs one in    *)
(* the background, and the Broadcaster that streams its progress.          *)
(*                                                                         *)
(* A run is one background goroutine. Runs are numbered as they start, and *)
(* so are the event channels as they are subscribed. The job store is the  *)
(* sequence of its runs in the order of their creation; a run of the store *)
(* has the number of the background run that created it.                   *)
(***************************************************************************)
EXTENDS Integers, Sequences, FiniteSets

CONSTANTS
  Project, Client,
  MaxRuns, MaxChans,   (* bounds: background runs started, channels subscribed *)
  Cap,                 (* capacity of an event channel (64)                    *)
  Overlap,             (* a project is started while its last run still closes *)
  Crashes              (* the server process may die                           *)

ASSUME ControlConstants ==
  /\ Project # {}
  /\ MaxRuns \in Nat /\ MaxChans \in Nat /\ Cap \in Nat \ {0}
  /\ Overlap \in BOOLEAN /\ Crashes \in BOOLEAN

Runs == 1..MaxRuns
Chans == 1..MaxChans

VARIABLES
  exists,      (* projects in the database                                     *)
  active,      (* activeMigs: the run whose cancel function is stored, or 0    *)
  phase,       (* activePhases: "none", "running" (any phase) or "failed"      *)
  req,         (* the request each client has in flight                        *)
  started,     (* number of runs started so far                                *)
  owner,       (* the project of each run                                      *)
  stage,       (* of each run: where its goroutine is                          *)
  works,       (* the run of the store its engine works on, or 0               *)
  cancelled,   (* runs at work whose context was cancelled                     *)
  targets,     (* channels the Send in flight in a run has still to serve      *)
  closing,     (* channels the Close in flight in a run has still to close     *)
  store,       (* runs in the job store                                        *)
  chans,       (* number of channels subscribed so far                         *)
  chan,        (* [project, registered, closedBy, buffered, reader] of each    *)
  panics       (* <<run that used a closed channel, run that had closed it>>   *)

requestVars == <<req, exists>>
runVars == <<started, owner, stage, works, cancelled>>
chanVars == <<chans, chan>>
vars == <<exists, active, phase, req, runVars, targets, closing, store, chanVars, panics>>

Stages == {"none", "migrating", "resuming", "unlist", "take", "closing", "over"}
InEngine(r) == stage[r] \in {"migrating", "resuming"}

Idle == [op |-> "none", project |-> CHOOSE p \in Project : TRUE, run |-> 0]
Request == [op : {"none", "start", "resume", "cancel", "drop", "delete", "clear"}, project : Project, run : 0..MaxRuns]
Channel == [project : Project, registered : BOOLEAN, closedBy : 0..MaxRuns, buffered : 0..Cap,
            reader : {"none", "open", "done", "gone"}]
NoChannel == [project |-> Idle.project, registered |-> FALSE, closedBy |-> 0, buffered |-> 0, reader |-> "none"]

TypeOK ==
  /\ exists \subseteq Project
  /\ active \in [Project -> 0..MaxRuns]
  /\ phase \in [Project -> {"none", "running", "failed"}]
  /\ req \in [Client -> Request]
  /\ started \in 0..MaxRuns
  /\ owner \in [Runs -> Project]
  /\ stage \in [Runs -> Stages] /\ works \in [Runs -> 0..MaxRuns]
  /\ cancelled \subseteq Runs
  /\ targets \in [Runs -> SUBSET Chans] /\ closing \in [Runs -> SUBSET Chans]
  /\ store \in Seq(Runs)
  /\ chans \in 0..MaxChans /\ chan \in [Chans -> Channel]
  /\ panics \subseteq Runs \X Runs

Init ==
  /\ exists = Project
  /\ active = [p \in Project |-> 0] /\ phase = [p \in Project |-> "none"]
  /\ req = [c \in Client |-> Idle]
  /\ started = 0
  /\ owner = [r \in Runs |-> Idle.project]
  /\ stage = [r \in Runs |-> "none"] /\ works = [r \in Runs |-> 0]
  /\ cancelled = {}
  /\ targets = [r \in Runs |-> {}] /\ closing = [r \in Runs |-> {}]
  /\ store = <<>>
  /\ chans = 0 /\ chan = [n \in Chans |-> NoChannel]
  /\ panics = {}
-----------------------------------------------------------------------------
(* Requests. A handler reads the project, or a map, first and acts on what  *)
(* it read in a later step.                                                 *)

Ask(c, op, p, r) == req' = [req EXCEPT ![c] = [op |-> op, project |-> p, run |-> r]]
Answer(c) == req' = [req EXCEPT ![c] = Idle]
Free(c) == req[c].op = "none"

(* StartMigration, ResumeMigration: the project is read. *)
ReadProject(c, p, op) ==
  /\ Free(c) /\ p \in exists
  /\ Ask(c, op, p, 0)
  /\ UNCHANGED <<exists, active, phase, runVars, targets, closing, store, chanVars, panics>>

StillClosing(p) == \E r \in Runs : owner[r] = p /\ stage[r] \in {"take", "closing"}

(* A bug: the check and the entry of the new run are not one step: the entry *)
(* replaces that of a run started in between.                                *)
UncheckedMutant(p) == TRUE

NotRunning(p) == active[p] = 0

(* The lock: refuse a project that runs, or enter it and start the          *)
(* goroutine.                                                               *)
Refuse(c) ==
  /\ req[c].op \in {"start", "resume"} /\ ~NotRunning(req[c].project)
  /\ Answer(c)
  /\ UNCHANGED <<exists, active, phase, runVars, targets, closing, store, chanVars, panics>>

Enter(c) ==
  LET p == req[c].project
      r == started + 1
  IN  /\ req[c].op \in {"start", "resume"} /\ NotRunning(p)
      /\ started < MaxRuns
      /\ Overlap \/ ~StillClosing(p)
      /\ active' = [active EXCEPT ![p] = r]
      /\ started' = r
      /\ owner' = [owner EXCEPT ![r] = p]
      /\ stage' = [stage EXCEPT ![r] = IF req[c].op = "start" THEN "migrating" ELSE "resuming"]
      /\ Answer(c)
      /\ UNCHANGED <<exists, phase, works, cancelled, targets, closing, store, chanVars, panics>>

ReadCancel(c, p) ==
  /\ Free(c) /\ active[p] # 0
  /\ Ask(c, "cancel", p, active[p])
  /\ UNCHANGED <<exists, active, phase, runVars, targets, closing, store, chanVars, panics>>

CallCancel(c) ==
  /\ req[c].op = "cancel"
  /\ cancelled' = cancelled \cup {r \in Runs : r = req[c].run /\ InEngine(r)}
  /\ Answer(c)
  /\ UNCHANGED <<exists, active, phase, started, owner, stage, works, targets, closing, store, chanVars, panics>>

(* ResetMigration: refused while the project runs; tables are dropped, the  *)
(* runs of the store deleted one by one, the phase is cleared.              *)
ReadReset(c, p) ==
  /\ Free(c) /\ p \in exists /\ active[p] = 0
  /\ Ask(c, "drop", p, 0)
  /\ UNCHANGED <<exists, active, phase, runVars, targets, closing, store, chanVars, panics>>

DropTables(c) ==
  /\ req[c].op = "drop"
  /\ \/ Ask(c, "delete", req[c].project, 0)
     \/ Answer(c)                             (* no connection to PostgreSQL *)
  /\ UNCHANGED <<exists, active, phase, runVars, targets, closing, store, chanVars, panics>>

DeleteLatestRun(c) ==
  /\ req[c].op = "delete" /\ store # <<>>
  /\ store' = SubSeq(store, 1, Len(store) - 1)
  /\ UNCHANGED <<requestVars, active, phase, runVars, targets, closing, chanVars, panics>>

(* No run is left, or the store failed. *)
RunsDeleted(c) ==
  /\ req[c].op = "delete"
  /\ Ask(c, "clear", req[c].project, 0)
  /\ UNCHANGED <<exists, active, phase, runVars, targets, closing, store, chanVars, panics>>

ClearPhase(c) ==
  /\ req[c].op = "clear"
  /\ phase' = [phase EXCEPT ![req[c].project] = "none"]
  /\ Answer(c)
  /\ UNCHANGED <<exists, active, runVars, targets, closing, store, chanVars, panics>>

(* DeleteProject asks nobody whether the project runs. *)
DeleteProject(p) ==
  /\ exists' = exists \ {p} /\ p \in exists
  /\ UNCHANGED <<active, phase, req, runVars, targets, closing, store, chanVars, panics>>

RequestStep ==
  \/ \E c \in Client, p \in Project :
       ReadProject(c, p, "start") \/ ReadProject(c, p, "resume") \/ ReadCancel(c, p) \/ ReadReset(c, p)
  \/ \E c \in Client :
       \/ Refuse(c) \/ Enter(c) \/ CallCancel(c)
       \/ DropTables(c) \/ DeleteLatestRun(c) \/ RunsDeleted(c) \/ ClearPhase(c)
  \/ \E p \in Project : DeleteProject(p)
-----------------------------------------------------------------------------
(* Channels. *)

Registered(p) == {n \in 1..chans : chan[n].registered /\ chan[n].project = p}

Subscribe(p) ==
  /\ chans < MaxChans
  /\ chans' = chans + 1
  /\ chan' = [chan EXCEPT ![chans + 1] = [NoChannel EXCEPT !.project = p, !.registered = TRUE, !.reader = "open"]]
  /\ UNCHANGED <<requestVars, active, phase, runVars, targets, closing, store, panics>>

Receive(n) ==
  /\ chan[n].reader = "open" /\ chan[n].buffered > 0
  /\ chan' = [chan EXCEPT ![n].buffered = @ - 1]
  /\ UNCHANGED <<requestVars, active, phase, runVars, targets, closing, store, chans, panics>>

(* The channel is closed and empty: the client is told that the migration   *)
(* has ended. StreamProgress returns and unsubscribes.                      *)
SeeClosed(n) ==
  /\ chan[n].reader = "open" /\ chan[n].buffered = 0 /\ chan[n].closedBy # 0
  /\ chan' = [chan EXCEPT ![n].reader = "done", ![n].registered = FALSE]
  /\ UNCHANGED <<requestVars, active, phase, runVars, targets, closing, store, chans, panics>>

(* The client goes away: unsubscribe, which drains the buffer. *)
Leave(n) ==
  /\ chan[n].reader = "open"
  /\ chan' = [chan EXCEPT ![n].reader = "gone", ![n].registered = FALSE, ![n].buffered = 0]
  /\ UNCHANGED <<requestVars, active, phase, runVars, targets, closing, store, chans, panics>>

StreamStep == (\E p \in Project : Subscribe(p)) \/ \E n \in Chans : Receive(n) \/ SeeClosed(n) \/ Leave(n)
-----------------------------------------------------------------------------
(* The background goroutine. *)

(* The process dies: what it kept in memory is gone, and so are its         *)
(* goroutines and connections. It is started again.                         *)
Die ==
  /\ active' = [p \in Project |-> 0] /\ phase' = [p \in Project |-> "none"]
  /\ req' = [c \in Client |-> Idle]
  /\ stage' = [r \in Runs |-> IF r <= started THEN "over" ELSE "none"]
  /\ works' = [r \in Runs |-> 0] /\ cancelled' = {}
  /\ targets' = [r \in Runs |-> {}] /\ closing' = [r \in Runs |-> {}]
  /\ chan' = [n \in Chans |-> IF n <= chans
                              THEN [chan[n] EXCEPT !.registered = FALSE, !.buffered = 0,
                                      !.reader = IF @ = "open" THEN "gone" ELSE @]
                              ELSE chan[n]]
  /\ UNCHANGED <<exists, started, owner, store, chans>>

Crash == Crashes /\ Die /\ UNCHANGED panics


(* Engine.Run creates its run in the store and reports its first phase. *)
EngineCreates(r) ==
  /\ stage[r] = "migrating" /\ works[r] = 0 /\ r \notin cancelled
  /\ store' = Append(store, r)
  /\ works' = [works EXCEPT ![r] = r]
  /\ phase' = [phase EXCEPT ![owner[r]] = "running"]
  /\ UNCHANGED <<requestVars, active, started, owner, stage, cancelled, targets, closing, chanVars, panics>>

(* Engine.Resume takes the newest run of the store, of whatever project. *)
EngineResumes(r) ==
  /\ stage[r] = "resuming" /\ works[r] = 0 /\ store # <<>> /\ r \notin cancelled
  /\ works' = [works EXCEPT ![r] = store[Len(store)]]
  /\ UNCHANGED <<requestVars, active, phase, started, owner, stage, cancelled, targets, closing, store, chanVars, panics>>

(* setPhase of a later phase. *)
NextPhase(r) ==
  /\ stage[r] = "migrating" /\ works[r] # 0
  /\ phase' = [phase EXCEPT ![owner[r]] = "running"]
  /\ UNCHANGED <<requestVars, active, runVars, targets, closing, store, chanVars, panics>>

(* Send copies the channels of the project under the lock and serves them   *)
(* one after the other. Resume sends too.                                   *)
BeginSend(r) ==
  /\ InEngine(r) /\ works[r] # 0 /\ targets[r] = {}
  /\ Registered(owner[r]) # {}
  /\ targets' = [targets EXCEPT ![r] = Registered(owner[r])]
  /\ UNCHANGED <<requestVars, active, phase, runVars, closing, store, chanVars, panics>>

(* A bug: no default case, the buffer is taken for unlimited. *)
UnlimitedMutant(n) == chan[n].buffered + 1

(* A full buffer drops the event. *)
Buffered(n) == IF chan[n].buffered < Cap THEN chan[n].buffered + 1 ELSE chan[n].buffered

Deliver(r, n) ==
  /\ n \in targets[r] /\ chan[n].closedBy = 0
  /\ chan' = [chan EXCEPT ![n].buffered = Buffered(n)]
  /\ targets' = [targets EXCEPT ![r] = @ \ {n}]
  /\ UNCHANGED <<requestVars, active, phase, runVars, closing, store, chans, panics>>

(* Sending on a closed channel panics in a goroutine of the engine that     *)
(* nobody recovers.                                                         *)
SendPanics(r, n) ==
  /\ n \in targets[r] /\ chan[n].closedBy # 0
  /\ panics' = panics \cup {<<r, chan[n].closedBy>>}
  /\ Die

(* A bug: the engine returns before its workers did. *)
WorkersNotJoinedMutant(r) == TRUE

WorkersJoined(r) == targets[r] = {}

(* A bug: only a failed run updates the phase. *)
PhaseKeptMutant(ok) == IF ok THEN "running" ELSE "failed"

LastPhase(ok) == IF ok THEN "none" ELSE "failed"

EngineEnds(r, ok) ==
  /\ InEngine(r) /\ WorkersJoined(r)
  /\ ok => works[r] # 0
  /\ phase' = [phase EXCEPT ![owner[r]] = LastPhase(ok)]
  /\ stage' = [stage EXCEPT ![r] = "unlist"]
  /\ works' = [works EXCEPT ![r] = 0] /\ cancelled' = cancelled \ {r}
  /\ UNCHANGED <<requestVars, active, started, owner, targets, closing, store, chanVars, panics>>

Unregistered(p) ==
  [n \in Chans |-> IF n \in Registered(p) THEN [chan[n] EXCEPT !.registered = FALSE] ELSE chan[n]]

(* A bug: the channels are read after they left the map. *)
ReadTooLateMutant(r) == {}

TakenBy(r) == Registered(owner[r])

Unlist(r) ==
  /\ stage[r] = "unlist"
  /\ active' = [active EXCEPT ![owner[r]] = 0]
  /\ stage' = [stage EXCEPT ![r] = "take"]
  /\ UNCHANGED <<requestVars, phase, started, owner, works, cancelled, targets, closing, store, chanVars, panics>>

(* Broadcaster.Close: the channels are taken out of the map under the lock  *)
(* and closed after it.                                                     *)
TakeChannels(r) ==
  /\ stage[r] = "take"
  /\ closing' = [closing EXCEPT ![r] = TakenBy(r)]
  /\ chan' = Unregistered(owner[r])
  /\ stage' = [stage EXCEPT ![r] = "closing"]
  /\ UNCHANGED <<requestVars, active, phase, started, owner, works, cancelled, targets, store, chans, panics>>

(* Closing a channel a second time would panic too. *)
CloseChannel(r, n) ==
  /\ stage[r] = "closing" /\ n \in closing[r]
  /\ panics' = IF chan[n].closedBy = 0 THEN panics ELSE panics \cup {<<r, r>>}
  /\ chan' = [chan EXCEPT ![n].closedBy = r]
  /\ closing' = [closing EXCEPT ![r] = @ \ {n}]
  /\ UNCHANGED <<requestVars, active, phase, runVars, targets, store, chans>>

GoroutineEnds(r) ==
  /\ stage[r] = "closing" /\ closing[r] = {}
  /\ stage' = [stage EXCEPT ![r] = "over"]
  /\ UNCHANGED <<requestVars, active, phase, started, owner, works, cancelled, targets, closing, store, chanVars, panics>>

Cleanup(r) ==
  \/ Unlist(r) \/ TakeChannels(r) \/ GoroutineEnds(r)
  \/ \E n \in Chans : CloseChannel(r, n)

RunStep(r) ==
  \/ EngineCreates(r) \/ EngineResumes(r) \/ NextPhase(r) \/ BeginSend(r)
  \/ \E ok \in BOOLEAN : EngineEnds(r, ok)
  \/ \E n \in Chans : Deliver(r, n) \/ SendPanics(r, n)
  \/ Cleanup(r)

Next == RequestStep \/ StreamStep \/ Crash \/ \E r \in Runs : RunStep(r)

(* A cancelled engine returns (DataMigration), a Send does not block, the    *)
(* deferred function of the goroutine runs and a connected client reads. A  *)
(* migration nobody cancels may take for ever.                              *)
Fairness ==
  /\ \A r \in Runs :
       /\ SF_vars(r \in cancelled /\ \E ok \in BOOLEAN : EngineEnds(r, ok))
       /\ WF_vars(\E n \in Chans : Deliver(r, n) \/ SendPanics(r, n))
       /\ WF_vars(Cleanup(r))
  /\ \A n \in Chans : WF_vars(Receive(n) \/ SeeClosed(n))

Spec == Init /\ [][Next]_vars
FairSpec == Spec /\ Fairness
-----------------------------------------------------------------------------
(* StartMigration and ResumeMigration promise to "prevent double-start":    *)
(* at most one background run of a project is before its removal from       *)
(* activeMigs, and the map names it.                                        *)
OneEngine ==
  \A r \in Runs : InEngine(r) \/ stage[r] = "unlist" => active[owner[r]] = r

(* A project no run of which is listed shows no phase but that of a failed  *)
(* run: no page waits for a migration that is over.                         *)
IdlePhase == \A p \in Project : active[p] = 0 => phase[p] # "running"

(* A closed channel is used, which ends the server, only by a run that      *)
(* started while an earlier run of its project was still closing: never is  *)
(* a channel closed twice, never closed under the sends of its own run.     *)
PanicNeedsOverlap ==
  \A pair \in panics : Overlap /\ pair[2] < pair[1] /\ owner[pair[2]] = owner[pair[1]]

(* Deleting runs, ResetMigration removes "all migration runs for this       *)
(* project", and those of no other.                                         *)
ResetKeepsOthers ==
  [][\A c \in Client : DeleteLatestRun(c) => owner[store[Len(store)]] = req[c].project]_vars

(* When a migration was cancelled or has ended, a client that listens to it *)
(* is told so, unless it leaves.                                            *)
Ending(r) == r \in cancelled \/ stage[r] = "unlist"

StreamEnds ==
  \A n \in Chans, r \in Runs :
    (chan[n].reader = "open" /\ owner[r] = chan[n].project /\ Ending(r)) ~> chan[n].reader # "open"
=============================================================================
