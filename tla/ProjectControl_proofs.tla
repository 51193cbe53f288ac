----------------------- MODULE ProjectControl_proofs -----------------------
(***************************************************************************)
(* Theorems about ProjectControl, for every set of projects and clients,   *)
(* number of runs and channels and capacity.                               *)
(*                                                                         *)
(* RunInv relates the goroutines of the runs to the maps activeMigs and    *)
(* activePhases.  ChanInv says which channels the Send and the Close in    *)
(* flight may still use.                                                   *)
(***************************************************************************)
EXTENDS ProjectControl, SequenceTheorems, TLAPS

Listed(r) == InEngine(r) \/ stage[r] = "unlist"

NumberedInv == \A r \in Runs : stage[r] # "none" => r <= started

EndedPhase == \A r \in Runs : stage[r] = "unlist" => phase[owner[r]] # "running"

(* A run that is listed is younger than one of its project still closing.   *)
CloserInv ==
  \A q, r \in Runs :
    owner[q] = owner[r] /\ stage[q] \in {"take", "closing"} /\ Listed(r) => q < r /\ Overlap

RunInv == NumberedInv /\ OneEngine /\ EndedPhase /\ IdlePhase /\ CloserInv

RegisteredInv == \A n \in Chans : chan[n].registered => chan[n].closedBy = 0

(* A channel that a run is about to close is still open and no other run's. *)
ClosingInv ==
  \A q \in Runs : \A n \in closing[q] :
    /\ stage[q] = "closing" /\ n <= chans
    /\ chan[n].project = owner[q] /\ ~chan[n].registered /\ chan[n].closedBy = 0
    /\ \A r \in Runs : n \in closing[r] => r = q

(* A channel that a run is about to send on was closed, if at all, by an    *)
(* earlier run of the project.                                              *)
TargetInv ==
  \A r \in Runs : \A n \in targets[r] :
    /\ InEngine(r) /\ n <= chans /\ chan[n].project = owner[r]
    /\ chan[n].closedBy # 0 => Overlap /\ chan[n].closedBy < r /\ owner[chan[n].closedBy] = owner[r]

PanicInv == PanicNeedsOverlap /\ \A pair \in panics : pair[1] <= started

ChanInv == RegisteredInv /\ ClosingInv /\ TargetInv /\ PanicInv
-----------------------------------------------------------------------------

LEMMA ProjectOfIdle == Idle.project \in Project
BY ControlConstants DEF Idle

LEMMA Numbers == MaxRuns \in Nat /\ MaxChans \in Nat /\ Cap \in Nat /\ Cap > 0
BY ControlConstants

LEMMA IdleType == Idle \in Request
<1>1. Idle.op = "none" /\ Idle.run = 0 /\ Idle = [op |-> "none", project |-> Idle.project, run |-> 0]
  BY DEF Idle
<1> QED
  BY <1>1, ProjectOfIdle, Numbers DEF Request

LEMMA NoChannelType == NoChannel \in Channel
<1>1. 0 \in 0..MaxRuns /\ 0 \in 0..Cap
  BY Numbers
<1> QED
  BY <1>1, ProjectOfIdle DEF NoChannel, Channel

(* The handlers keep the requests well formed.                              *)
LEMMA AskType ==
  ASSUME TypeOK, NEW c \in Client, NEW op \in {"none", "start", "resume", "cancel", "drop", "delete", "clear"},
         NEW p \in Project, NEW r \in 0..MaxRuns, Ask(c, op, p, r)
  PROVE  req' \in [Client -> Request]
<1>1. [op |-> op, project |-> p, run |-> r] \in Request
  BY DEF Request
<1> QED
  BY <1>1 DEF TypeOK, Ask

LEMMA AnswerType ==
  ASSUME TypeOK, NEW c \in Client, Answer(c)
  PROVE  req' \in [Client -> Request]
BY IdleType DEF TypeOK, Answer

LEMMA InitType == Init => TypeOK
<1> SUFFICES ASSUME Init PROVE TypeOK
  OBVIOUS
<1>1. req \in [Client -> Request] /\ chan \in [Chans -> Channel]
  BY IdleType, NoChannelType DEF Init
<1>2. 0 \in 0..MaxRuns /\ 0 \in 0..MaxChans
  BY Numbers
<1> QED
  BY <1>1, <1>2, ProjectOfIdle DEF Init, TypeOK, Stages

(* A process that dies leaves a state in which the server can start again.  *)
LEMMA DieType == ASSUME TypeOK, Die, panics' \subseteq Runs \X Runs PROVE TypeOK'
<1>1. \A n \in Chans : chan[n] \in Channel
  BY DEF TypeOK
<1>2. \A n \in Chans : [chan[n] EXCEPT !.registered = FALSE, !.buffered = 0,
                                       !.reader = IF @ = "open" THEN "gone" ELSE @] \in Channel
  <2> SUFFICES ASSUME NEW n \in Chans
               PROVE  [chan[n] EXCEPT !.registered = FALSE, !.buffered = 0,
                                      !.reader = IF @ = "open" THEN "gone" ELSE @] \in Channel
    OBVIOUS
  <2>1. chan[n] \in Channel /\ 0 \in 0..Cap
    BY <1>1, Numbers
  <2>2. (IF chan[n].reader = "open" THEN "gone" ELSE chan[n].reader) \in {"none", "open", "done", "gone"}
    BY <2>1 DEF Channel
  <2> QED
    BY <2>1, <2>2 DEF Channel
<1>3. chan' \in [Chans -> Channel]
  BY <1>1, <1>2 DEF Die
<1>4. req' \in [Client -> Request]
  BY IdleType DEF Die
<1>5. stage' \in [Runs -> Stages]
  BY DEF Die, Stages
<1>6. works' \in [Runs -> 0..MaxRuns] /\ active' \in [Project -> 0..MaxRuns]
  <2>1. 0 \in 0..MaxRuns
    BY Numbers
  <2> QED
    BY <2>1 DEF Die
<1>7. /\ exists' \subseteq Project /\ started' \in 0..MaxRuns /\ owner' \in [Runs -> Project]
      /\ store' \in Seq(Runs) /\ chans' \in 0..MaxChans
  BY DEF TypeOK, Die
<1>8. /\ phase' \in [Project -> {"none", "running", "failed"}] /\ cancelled' \subseteq Runs
      /\ targets' \in [Runs -> SUBSET Chans] /\ closing' \in [Runs -> SUBSET Chans]
  BY DEF Die
<1> QED
  BY <1>3, <1>4, <1>5, <1>6, <1>7, <1>8 DEF TypeOK

LEMMA NextType == ASSUME TypeOK, [Next]_vars PROVE TypeOK'
<1>1. ASSUME NEW c \in Client, NEW p \in Project, NEW op \in {"start", "resume"}, ReadProject(c, p, op)
      PROVE  TypeOK'
  <2>1. req' \in [Client -> Request]
    BY <1>1, AskType, Numbers DEF ReadProject
  <2> QED
    BY <1>1, <2>1 DEF ReadProject, TypeOK, requestVars, runVars, chanVars
<1>2. ASSUME NEW c \in Client, NEW p \in Project, ReadCancel(c, p)
      PROVE  TypeOK'
  <2>1. active[p] \in 0..MaxRuns
    BY <1>2 DEF ReadCancel, TypeOK
  <2>2. req' \in [Client -> Request]
    BY <1>2, <2>1, AskType DEF ReadCancel
  <2> QED
    BY <1>2, <2>1, <2>2 DEF ReadCancel, TypeOK, requestVars, runVars, chanVars
<1>3. ASSUME NEW c \in Client, NEW p \in Project, ReadReset(c, p)
      PROVE  TypeOK'
  <2>1. req' \in [Client -> Request]
    BY <1>3, AskType, Numbers DEF ReadReset
  <2> QED
    BY <1>3, <2>1 DEF ReadReset, TypeOK, requestVars, runVars, chanVars
<1>4. ASSUME NEW c \in Client, Refuse(c)
      PROVE  TypeOK'
  <2>1. req' \in [Client -> Request]
    BY <1>4, AnswerType DEF Refuse
  <2> QED
    BY <1>4, <2>1 DEF Refuse, TypeOK, requestVars, runVars, chanVars
<1>5. ASSUME NEW c \in Client, Enter(c)
      PROVE  TypeOK'
  <2>1. req[c] \in Request
    BY <1>5 DEF Enter, TypeOK
  <2>2. req[c].project \in Project
    BY <1>5, <2>1 DEF Enter, Request
  <2>3. started \in 0..MaxRuns
    BY <1>5, <2>1, <2>2 DEF Enter, TypeOK
  <2>4. started + 1 \in Runs /\ started + 1 \in 0..MaxRuns
    BY <1>5, <2>1, <2>2, <2>3, Numbers DEF Enter, Runs
  <2>5. req' \in [Client -> Request]
    BY <1>5, <2>1, <2>2, <2>3, <2>4, AnswerType DEF Enter
  <2>6. active' \in [Project -> 0..MaxRuns]
    BY <1>5, <2>1, <2>2, <2>3, <2>4, <2>5 DEF Enter, TypeOK
  <2>7. owner' \in [Runs -> Project]
    BY <1>5, <2>1, <2>2, <2>3, <2>4, <2>5, <2>6 DEF Enter, TypeOK
  <2>8. stage' \in [Runs -> Stages]
    BY <1>5, <2>1, <2>2, <2>3, <2>4, <2>5, <2>6, <2>7 DEF Enter, TypeOK, Stages
  <2> QED
    BY <1>5, <2>1, <2>2, <2>3, <2>4, <2>5, <2>6, <2>7, <2>8 DEF Enter, TypeOK, requestVars, runVars, chanVars
<1>6. ASSUME NEW c \in Client, CallCancel(c)
      PROVE  TypeOK'
  <2>1. req' \in [Client -> Request]
    BY <1>6, AnswerType DEF CallCancel
  <2>2. cancelled' \subseteq Runs
    BY <1>6, <2>1 DEF CallCancel, TypeOK
  <2> QED
    BY <1>6, <2>1, <2>2 DEF CallCancel, TypeOK, requestVars, runVars, chanVars
<1>7. ASSUME NEW c \in Client, DropTables(c)
      PROVE  TypeOK'
  <2>1. req[c] \in Request
    BY <1>7 DEF DropTables, TypeOK
  <2>2. req[c].project \in Project
    BY <1>7, <2>1 DEF DropTables, Request
  <2>3. req' \in [Client -> Request]
    BY <1>7, <2>1, <2>2, AskType, AnswerType, Numbers DEF DropTables
  <2> QED
    BY <1>7, <2>1, <2>2, <2>3 DEF DropTables, TypeOK, requestVars, runVars, chanVars
<1>8. ASSUME NEW c \in Client, DeleteLatestRun(c)
      PROVE  TypeOK'
  <2>1. store \in Seq(Runs) /\ Len(store) \in Nat /\ Len(store) - 1 \in 0..Len(store)
    BY <1>8 DEF DeleteLatestRun, TypeOK
  <2>2. \A i \in 1..Len(store) - 1 : store[i] \in Runs
    BY <1>8, <2>1 DEF DeleteLatestRun
  <2>3. store' \in Seq(Runs)
    BY <1>8, <2>1, <2>2, SubSeqProperties DEF DeleteLatestRun
  <2> QED
    BY <1>8, <2>1, <2>2, <2>3 DEF DeleteLatestRun, TypeOK, requestVars, runVars, chanVars
<1>9. ASSUME NEW c \in Client, RunsDeleted(c)
      PROVE  TypeOK'
  <2>1. req[c] \in Request
    BY <1>9 DEF RunsDeleted, TypeOK
  <2>2. req[c].project \in Project
    BY <1>9, <2>1 DEF RunsDeleted, Request
  <2>3. req' \in [Client -> Request]
    BY <1>9, <2>1, <2>2, AskType, Numbers DEF RunsDeleted
  <2> QED
    BY <1>9, <2>1, <2>2, <2>3 DEF RunsDeleted, TypeOK, requestVars, runVars, chanVars
<1>10. ASSUME NEW c \in Client, ClearPhase(c)
      PROVE  TypeOK'
  <2>1. req' \in [Client -> Request]
    BY <1>10, AnswerType DEF ClearPhase
  <2>2. phase' \in [Project -> {"none", "running", "failed"}]
    BY <1>10, <2>1 DEF ClearPhase, TypeOK
  <2> QED
    BY <1>10, <2>1, <2>2 DEF ClearPhase, TypeOK, requestVars, runVars, chanVars
<1>11. ASSUME NEW p \in Project, DeleteProject(p)
      PROVE  TypeOK'
  BY <1>11 DEF DeleteProject, TypeOK, requestVars, runVars, chanVars
<1>12. ASSUME NEW p \in Project, Subscribe(p)
      PROVE  TypeOK'
  <2>1. chans \in 0..MaxChans
    BY <1>12 DEF Subscribe, TypeOK
  <2>2. chans + 1 \in Chans /\ chans + 1 \in 0..MaxChans
    BY <1>12, <2>1, Numbers DEF Subscribe, Chans
  <2>3. [NoChannel EXCEPT !.project = p, !.registered = TRUE, !.reader = "open"] \in Channel
    BY <1>12, <2>1, <2>2, NoChannelType DEF Subscribe, Channel
  <2>4. chan' \in [Chans -> Channel]
    BY <1>12, <2>1, <2>2, <2>3 DEF Subscribe, TypeOK
  <2> QED
    BY <1>12, <2>1, <2>2, <2>3, <2>4 DEF Subscribe, TypeOK, requestVars, runVars, chanVars
<1>13. ASSUME NEW n \in Chans, Receive(n)
      PROVE  TypeOK'
  <2>1. chan[n] \in Channel
    BY <1>13 DEF Receive, TypeOK
  <2>2. [chan[n] EXCEPT !.buffered = @ - 1] \in Channel
    BY <1>13, <2>1, Numbers DEF Receive, Channel
  <2>3. chan' \in [Chans -> Channel]
    BY <1>13, <2>1, <2>2 DEF Receive, TypeOK
  <2> QED
    BY <1>13, <2>1, <2>2, <2>3 DEF Receive, TypeOK, requestVars, runVars, chanVars
<1>14. ASSUME NEW n \in Chans, SeeClosed(n)
      PROVE  TypeOK'
  <2>1. chan[n] \in Channel
    BY <1>14 DEF SeeClosed, TypeOK
  <2>2. [chan[n] EXCEPT !.reader = "done", !.registered = FALSE] \in Channel
    BY <1>14, <2>1, Numbers DEF SeeClosed, Channel
  <2>3. chan' \in [Chans -> Channel]
    BY <1>14, <2>1, <2>2 DEF SeeClosed, TypeOK
  <2> QED
    BY <1>14, <2>1, <2>2, <2>3 DEF SeeClosed, TypeOK, requestVars, runVars, chanVars
<1>15. ASSUME NEW n \in Chans, Leave(n)
      PROVE  TypeOK'
  <2>1. chan[n] \in Channel
    BY <1>15 DEF Leave, TypeOK
  <2>2. 0 \in 0..Cap
    BY <1>15, <2>1, Numbers DEF Leave
  <2>3. [chan[n] EXCEPT !.reader = "gone", !.registered = FALSE, !.buffered = 0] \in Channel
    BY <1>15, <2>1, <2>2, Numbers DEF Leave, Channel
  <2>4. chan' \in [Chans -> Channel]
    BY <1>15, <2>1, <2>2, <2>3 DEF Leave, TypeOK
  <2> QED
    BY <1>15, <2>1, <2>2, <2>3, <2>4 DEF Leave, TypeOK, requestVars, runVars, chanVars
<1>16. ASSUME Crash
      PROVE  TypeOK'
  BY <1>16, DieType DEF Crash, TypeOK
<1>17. ASSUME NEW r \in Runs, EngineCreates(r)
      PROVE  TypeOK'
  <2>1. r \in 0..MaxRuns
    BY <1>17, Numbers DEF EngineCreates, Runs
  <2>2. owner[r] \in Project
    BY <1>17, <2>1 DEF EngineCreates, TypeOK
  <2>3. store' \in Seq(Runs)
    BY <1>17, <2>1, <2>2 DEF EngineCreates, TypeOK
  <2>4. works' \in [Runs -> 0..MaxRuns]
    BY <1>17, <2>1, <2>2, <2>3 DEF EngineCreates, TypeOK
  <2>5. phase' \in [Project -> {"none", "running", "failed"}]
    BY <1>17, <2>1, <2>2, <2>3, <2>4 DEF EngineCreates, TypeOK
  <2> QED
    BY <1>17, <2>1, <2>2, <2>3, <2>4, <2>5 DEF EngineCreates, TypeOK, requestVars, runVars, chanVars
<1>18. ASSUME NEW r \in Runs, EngineResumes(r)
      PROVE  TypeOK'
  <2>1. store \in Seq(Runs) /\ store # <<>>
    BY <1>18 DEF EngineResumes, TypeOK
  <2>2. store[Len(store)] \in Runs
    BY <1>18, <2>1 DEF EngineResumes
  <2>3. store[Len(store)] \in 0..MaxRuns
    BY <1>18, <2>1, <2>2, Numbers DEF EngineResumes, Runs
  <2>4. works' \in [Runs -> 0..MaxRuns]
    BY <1>18, <2>1, <2>2, <2>3 DEF EngineResumes, TypeOK
  <2> QED
    BY <1>18, <2>1, <2>2, <2>3, <2>4 DEF EngineResumes, TypeOK, requestVars, runVars, chanVars
<1>19. ASSUME NEW r \in Runs, NextPhase(r)
      PROVE  TypeOK'
  <2>1. phase' \in [Project -> {"none", "running", "failed"}]
    BY <1>19 DEF NextPhase, TypeOK
  <2> QED
    BY <1>19, <2>1 DEF NextPhase, TypeOK, requestVars, runVars, chanVars
<1>20. ASSUME NEW r \in Runs, BeginSend(r)
      PROVE  TypeOK'
  <2>1. chans \in 0..MaxChans
    BY <1>20 DEF BeginSend, TypeOK
  <2>2. Registered(owner[r]) \subseteq Chans
    BY <1>20, <2>1, Numbers DEF BeginSend, Registered, Chans
  <2>3. targets' \in [Runs -> SUBSET Chans]
    BY <1>20, <2>1, <2>2 DEF BeginSend, TypeOK
  <2> QED
    BY <1>20, <2>1, <2>2, <2>3 DEF BeginSend, TypeOK, requestVars, runVars, chanVars
<1>21. ASSUME NEW r \in Runs, NEW ok \in BOOLEAN, EngineEnds(r, ok)
      PROVE  TypeOK'
  <2>1. 0 \in 0..MaxRuns
    BY <1>21, Numbers DEF EngineEnds
  <2>2. LastPhase(ok) \in {"none", "failed"}
    BY <1>21, <2>1 DEF EngineEnds, LastPhase
  <2>3. phase' \in [Project -> {"none", "running", "failed"}]
    BY <1>21, <2>1, <2>2 DEF EngineEnds, TypeOK
  <2>4. stage' \in [Runs -> Stages]
    BY <1>21, <2>1, <2>2, <2>3 DEF EngineEnds, TypeOK, Stages
  <2>5. works' \in [Runs -> 0..MaxRuns]
    BY <1>21, <2>1, <2>2, <2>3, <2>4 DEF EngineEnds, TypeOK
  <2>6. cancelled' \subseteq Runs
    BY <1>21, <2>1, <2>2, <2>3, <2>4, <2>5 DEF EngineEnds, TypeOK
  <2> QED
    BY <1>21, <2>1, <2>2, <2>3, <2>4, <2>5, <2>6 DEF EngineEnds, TypeOK, requestVars, runVars, chanVars
<1>22. ASSUME NEW r \in Runs, NEW n \in Chans, Deliver(r, n)
      PROVE  TypeOK'
  <2>1. chan[n] \in Channel
    BY <1>22 DEF Deliver, TypeOK
  <2>2. Buffered(n) \in 0..Cap
    BY <1>22, <2>1, Numbers DEF Deliver, Buffered, Channel
  <2>3. [chan[n] EXCEPT !.buffered = Buffered(n)] \in Channel
    BY <1>22, <2>1, <2>2 DEF Deliver, Channel
  <2>4. chan' \in [Chans -> Channel]
    BY <1>22, <2>1, <2>2, <2>3 DEF Deliver, TypeOK
  <2>5. targets' \in [Runs -> SUBSET Chans]
    BY <1>22, <2>1, <2>2, <2>3, <2>4 DEF Deliver, TypeOK
  <2> QED
    BY <1>22, <2>1, <2>2, <2>3, <2>4, <2>5 DEF Deliver, TypeOK, requestVars, runVars, chanVars
<1>23. ASSUME NEW r \in Runs, NEW n \in Chans, SendPanics(r, n)
      PROVE  TypeOK'
  <2>1. chan[n] \in Channel
    BY <1>23 DEF SendPanics, TypeOK
  <2>2. chan[n].closedBy \in Runs
    BY <1>23, <2>1, Numbers DEF SendPanics, Channel, Runs
  <2>3. panics' \subseteq Runs \X Runs
    BY <1>23, <2>1, <2>2 DEF SendPanics, TypeOK
  <2> QED
    BY <1>23, <2>3, DieType DEF SendPanics
<1>24. ASSUME NEW r \in Runs, Unlist(r)
      PROVE  TypeOK'
  <2>1. 0 \in 0..MaxRuns
    BY <1>24, Numbers DEF Unlist
  <2>2. active' \in [Project -> 0..MaxRuns]
    BY <1>24, <2>1 DEF Unlist, TypeOK
  <2>3. stage' \in [Runs -> Stages]
    BY <1>24, <2>1, <2>2 DEF Unlist, TypeOK, Stages
  <2> QED
    BY <1>24, <2>1, <2>2, <2>3 DEF Unlist, TypeOK, requestVars, runVars, chanVars
<1>25. ASSUME NEW r \in Runs, TakeChannels(r)
      PROVE  TypeOK'
  <2>1. \A n \in Chans : chan[n] \in Channel
    BY <1>25 DEF TakeChannels, TypeOK
  <2>2. \A n \in Chans : [chan[n] EXCEPT !.registered = FALSE] \in Channel
    BY <1>25, <2>1 DEF TakeChannels, Channel
  <2>3. chan' \in [Chans -> Channel]
    BY <1>25, <2>1, <2>2 DEF TakeChannels, Unregistered
  <2>4. chans \in 0..MaxChans
    BY <1>25, <2>1, <2>2, <2>3 DEF TakeChannels, TypeOK
  <2>5. Registered(owner[r]) \subseteq Chans
    BY <1>25, <2>1, <2>2, <2>3, <2>4, Numbers DEF TakeChannels, Registered, Chans
  <2>6. closing' \in [Runs -> SUBSET Chans]
    BY <1>25, <2>1, <2>2, <2>3, <2>4, <2>5 DEF TakeChannels, TypeOK, TakenBy
  <2>7. stage' \in [Runs -> Stages]
    BY <1>25, <2>1, <2>2, <2>3, <2>4, <2>5, <2>6 DEF TakeChannels, TypeOK, Stages
  <2> QED
    BY <1>25, <2>1, <2>2, <2>3, <2>4, <2>5, <2>6, <2>7 DEF TakeChannels, TypeOK, requestVars, runVars, chanVars
<1>26. ASSUME NEW r \in Runs, NEW n \in Chans, CloseChannel(r, n)
      PROVE  TypeOK'
  <2>1. r \in 0..MaxRuns
    BY <1>26, Numbers DEF CloseChannel, Runs
  <2>2. chan[n] \in Channel
    BY <1>26, <2>1 DEF CloseChannel, TypeOK
  <2>3. [chan[n] EXCEPT !.closedBy = r] \in Channel
    BY <1>26, <2>1, <2>2 DEF CloseChannel, Channel
  <2>4. chan' \in [Chans -> Channel]
    BY <1>26, <2>1, <2>2, <2>3 DEF CloseChannel, TypeOK
  <2>5. closing' \in [Runs -> SUBSET Chans]
    BY <1>26, <2>1, <2>2, <2>3, <2>4 DEF CloseChannel, TypeOK
  <2>6. panics' \subseteq Runs \X Runs
    BY <1>26, <2>1, <2>2, <2>3, <2>4, <2>5 DEF CloseChannel, TypeOK
  <2> QED
    BY <1>26, <2>1, <2>2, <2>3, <2>4, <2>5, <2>6 DEF CloseChannel, TypeOK, requestVars, runVars, chanVars
<1>27. ASSUME NEW r \in Runs, GoroutineEnds(r)
      PROVE  TypeOK'
  <2>1. stage' \in [Runs -> Stages]
    BY <1>27 DEF GoroutineEnds, TypeOK, Stages
  <2> QED
    BY <1>27, <2>1 DEF GoroutineEnds, TypeOK, requestVars, runVars, chanVars
<1>28. CASE UNCHANGED vars
  BY <1>28 DEF TypeOK, vars, requestVars, runVars, chanVars
<1> QED
  BY <1>1, <1>2, <1>3, <1>4, <1>5, <1>6, <1>7, <1>8, <1>9, <1>10, <1>11, <1>12, <1>13, <1>14, <1>15, <1>16, <1>17, <1>18, <1>19, <1>20, <1>21, <1>22, <1>23, <1>24, <1>25, <1>26, <1>27, <1>28 DEF Next, RequestStep, StreamStep, RunStep, Cleanup

(* Every reachable state of the API, its channels included, is well typed. *)
THEOREM TypeCorrect == Spec => []TypeOK
BY InitType, NextType, PTL DEF Spec
-----------------------------------------------------------------------------
(* Only these variables matter to RunInv.                                   *)
LEMMA RunFrame == ASSUME RunInv, UNCHANGED <<active, phase, started, owner, stage>> PROVE RunInv'
BY DEF RunInv, NumberedInv, OneEngine, EndedPhase, IdlePhase, CloserInv, Listed, InEngine

LEMMA InitRun == Init => RunInv
BY Numbers DEF Init, RunInv, NumberedInv, OneEngine, EndedPhase, IdlePhase, CloserInv, Listed, InEngine

LEMMA DieRun == ASSUME TypeOK, Die PROVE RunInv'
BY Numbers DEF TypeOK, Runs, Die, RunInv, NumberedInv, OneEngine, EndedPhase, IdlePhase, CloserInv, Listed, InEngine

(* No two runs of a project are listed.                                     *)
LEMMA ListedAlone ==
  ASSUME TypeOK, RunInv, NEW q \in Runs, NEW r \in Runs, Listed(q), Listed(r), owner[q] = owner[r]
  PROVE  q = r /\ active[owner[r]] # 0
BY Numbers DEF RunInv, OneEngine, Listed, Runs

LEMMA EnterRun == ASSUME TypeOK, RunInv, NEW c \in Client, Enter(c) PROVE RunInv'
<1> DEFINE p == req[c].project
           r == started + 1
<1>1. p \in Project
  <2>1. req[c] \in Request
    BY DEF TypeOK
  <2> QED
    BY <2>1 DEF Request
<1>2. started \in Nat /\ r \in Runs /\ r # 0
  BY Numbers DEF Enter, TypeOK, Runs
<1>3. stage[r] = "none" /\ active[p] = 0
  BY <1>2 DEF Enter, NotRunning, RunInv, NumberedInv
<1>4. /\ active' = [active EXCEPT ![p] = r] /\ started' = r /\ phase' = phase
      /\ owner' = [owner EXCEPT ![r] = p] /\ stage'[r] \in {"migrating", "resuming"}
      /\ owner'[r] = p /\ active'[p] = r
      /\ \A q \in Runs \ {r} : stage'[q] = stage[q] /\ owner'[q] = owner[q]
  BY <1>1, <1>2 DEF Enter, TypeOK
<1>5. \A q \in Runs : stage[q] # "none" => q < r
  BY <1>2 DEF RunInv, NumberedInv, Runs
<1>6. \A q \in Runs : owner[q] = p => ~Listed(q)
  BY <1>3, Numbers DEF RunInv, OneEngine, Listed, Runs
<1>7. NumberedInv'
  BY <1>2, <1>4, <1>5 DEF NumberedInv, Runs
<1>8. OneEngine'
  <2> SUFFICES ASSUME NEW q \in Runs, Listed(q)'
               PROVE  active'[owner'[q]] = q
    BY DEF OneEngine, Listed
  <2>1. CASE q = r
    BY <2>1, <1>4
  <2>2. CASE q # r
    <3>1. Listed(q) /\ owner'[q] = owner[q] /\ owner[q] \in Project
      BY <2>2, <1>4 DEF Listed, InEngine, TypeOK
    <3>2. owner[q] # p
      BY <3>1, <1>6
    <3> QED
      BY <3>1, <3>2, <1>4 DEF RunInv, OneEngine, Listed, TypeOK
  <2> QED
    BY <2>1, <2>2
<1>9. EndedPhase'
  BY <1>4 DEF RunInv, EndedPhase
<1>10. IdlePhase'
  BY <1>2, <1>4 DEF RunInv, IdlePhase, TypeOK
<1>11. CloserInv'
  <2> SUFFICES ASSUME NEW q \in Runs, NEW s \in Runs,
                      owner'[q] = owner'[s], stage'[q] \in {"take", "closing"}, Listed(s)'
               PROVE  q < s /\ Overlap
    BY DEF CloserInv
  <2>1. q # r /\ stage[q] \in {"take", "closing"} /\ owner'[q] = owner[q]
    BY <1>4
  <2>2. CASE s = r
    <3>1. StillClosing(p)
      BY <2>1, <2>2, <1>4 DEF StillClosing
    <3>2. Overlap
      BY <3>1 DEF Enter
    <3> QED
      BY <2>1, <2>2, <3>2, <1>5
  <2>3. CASE s # r
    <3>1. Listed(s) /\ owner'[s] = owner[s]
      BY <2>3, <1>4 DEF Listed, InEngine
    <3> QED
      BY <2>1, <3>1 DEF RunInv, CloserInv
  <2> QED
    BY <2>2, <2>3
<1> QED
  BY <1>7, <1>8, <1>9, <1>10, <1>11 DEF RunInv

(* The engine reports its phases while its project is in activeMigs.        *)
LEMMA PhaseRun ==
  ASSUME TypeOK, RunInv, NEW r \in Runs, InEngine(r), phase' = [phase EXCEPT ![owner[r]] = "running"],
         UNCHANGED <<active, started, owner, stage>>
  PROVE  RunInv'
<1>1. owner[r] \in Project
  BY DEF TypeOK
<1>2. active[owner[r]] # 0
  BY ListedAlone DEF Listed
<1>3. IdlePhase'
  BY <1>1, <1>2 DEF RunInv, IdlePhase, TypeOK
<1>4. EndedPhase'
  <2> SUFFICES ASSUME NEW q \in Runs, stage[q] = "unlist"
               PROVE  phase'[owner[q]] # "running"
    BY DEF EndedPhase
  <2>1. owner[q] # owner[r]
    BY ListedAlone DEF Listed, InEngine
  <2> QED
    BY <2>1 DEF RunInv, EndedPhase, TypeOK
<1> QED
  BY <1>3, <1>4 DEF RunInv, NumberedInv, OneEngine, EndedPhase, IdlePhase, CloserInv, Listed, InEngine

LEMMA EndRun ==
  ASSUME TypeOK, RunInv, NEW r \in Runs, NEW ok \in BOOLEAN, EngineEnds(r, ok)
  PROVE  RunInv'
<1>1. owner[r] \in Project /\ r \in Runs
  BY DEF TypeOK
<1>2. /\ phase' = [phase EXCEPT ![owner[r]] = LastPhase(ok)] /\ LastPhase(ok) # "running"
      /\ UNCHANGED <<active, started, owner>>
  BY DEF EngineEnds, LastPhase
<1>3. stage'[r] = "unlist" /\ stage[r] # "none" /\ \A q \in Runs \ {r} : stage'[q] = stage[q]
  BY DEF EngineEnds, InEngine, TypeOK
<1>4. \A q \in Runs : (Listed(q)' <=> Listed(q)) /\ (stage'[q] \in {"take", "closing"} => stage[q] = stage'[q])
  BY <1>3 DEF Listed, InEngine, EngineEnds
<1>5. NumberedInv' /\ OneEngine' /\ CloserInv'
  BY <1>2, <1>3, <1>4 DEF RunInv, NumberedInv, OneEngine, CloserInv, Listed
<1>6. EndedPhase' /\ IdlePhase'
  BY <1>1, <1>2, <1>3 DEF RunInv, EndedPhase, IdlePhase, TypeOK
<1> QED
  BY <1>5, <1>6 DEF RunInv

LEMMA UnlistRun == ASSUME TypeOK, RunInv, NEW r \in Runs, Unlist(r) PROVE RunInv'
<1>1. owner[r] \in Project /\ stage[r] = "unlist"
  BY DEF TypeOK, Unlist
<1>2. /\ active' = [active EXCEPT ![owner[r]] = 0] /\ stage'[r] = "take"
      /\ \A q \in Runs \ {r} : stage'[q] = stage[q]
      /\ UNCHANGED <<phase, started, owner>>
  BY DEF Unlist, TypeOK
<1>3. \A q \in Runs : Listed(q)' => q # r /\ Listed(q) /\ owner[q] # owner[r]
  BY <1>1, <1>2, ListedAlone DEF Listed, InEngine
<1>4. OneEngine'
  BY <1>1, <1>2, <1>3 DEF RunInv, OneEngine, Listed, TypeOK
<1>5. NumberedInv' /\ EndedPhase'
  BY <1>1, <1>2 DEF RunInv, NumberedInv, EndedPhase
<1>6. IdlePhase'
  BY <1>1, <1>2 DEF RunInv, IdlePhase, EndedPhase, TypeOK
<1>7. CloserInv'
  BY <1>2, <1>3 DEF RunInv, CloserInv
<1> QED
  BY <1>4, <1>5, <1>6, <1>7 DEF RunInv

(* A run that closes its channels, or has closed them, is not listed.       *)
LEMMA LaterRun ==
  ASSUME TypeOK, RunInv, NEW r \in Runs, stage[r] \in {"take", "closing"}, NEW s \in {"closing", "over"},
         stage' = [stage EXCEPT ![r] = s], UNCHANGED <<active, phase, started, owner>>
  PROVE  RunInv'
<1>1. stage'[r] = s /\ \A q \in Runs \ {r} : stage'[q] = stage[q]
  BY DEF TypeOK
<1>2. \A q \in Runs : (Listed(q)' => Listed(q)) /\ (stage'[q] \in {"take", "closing"} => stage[q] \in {"take", "closing"})
  BY <1>1 DEF Listed, InEngine
<1> QED
  BY <1>1, <1>2 DEF RunInv, NumberedInv, OneEngine, EndedPhase, IdlePhase, CloserInv, Listed

LEMMA NextRun == ASSUME TypeOK, RunInv, [Next]_vars PROVE RunInv'
<1>1. ASSUME NEW c \in Client, NEW p \in Project, NEW op \in {"start", "resume"}, ReadProject(c, p, op)
      PROVE  RunInv'
  BY <1>1, RunFrame DEF ReadProject, runVars
<1>2. ASSUME NEW c \in Client, NEW p \in Project, ReadCancel(c, p)
      PROVE  RunInv'
  BY <1>2, RunFrame DEF ReadCancel, runVars
<1>3. ASSUME NEW c \in Client, NEW p \in Project, ReadReset(c, p)
      PROVE  RunInv'
  BY <1>3, RunFrame DEF ReadReset, runVars
<1>4. ASSUME NEW c \in Client, Refuse(c)
      PROVE  RunInv'
  BY <1>4, RunFrame DEF Refuse, runVars
<1>5. ASSUME NEW c \in Client, Enter(c)
      PROVE  RunInv'
  BY <1>5, EnterRun
<1>6. ASSUME NEW c \in Client, CallCancel(c)
      PROVE  RunInv'
  BY <1>6, RunFrame DEF CallCancel, runVars
<1>7. ASSUME NEW c \in Client, DropTables(c)
      PROVE  RunInv'
  BY <1>7, RunFrame DEF DropTables, runVars
<1>8. ASSUME NEW c \in Client, DeleteLatestRun(c)
      PROVE  RunInv'
  BY <1>8, RunFrame DEF DeleteLatestRun, runVars
<1>9. ASSUME NEW c \in Client, RunsDeleted(c)
      PROVE  RunInv'
  BY <1>9, RunFrame DEF RunsDeleted, runVars
<1>10. ASSUME NEW c \in Client, ClearPhase(c)
      PROVE  RunInv'
  <2>1. \A p \in Project : phase'[p] = phase[p] \/ phase'[p] = "none"
    BY <1>10 DEF ClearPhase, TypeOK
  <2>2. \A r \in Runs : owner[r] \in Project
    BY DEF TypeOK
  <2> QED
    BY <1>10, <2>1, <2>2 DEF ClearPhase, runVars, RunInv, NumberedInv, OneEngine, EndedPhase, IdlePhase, CloserInv, Listed, InEngine
<1>11. ASSUME NEW p \in Project, DeleteProject(p)
      PROVE  RunInv'
  BY <1>11, RunFrame DEF DeleteProject, runVars
<1>12. ASSUME NEW p \in Project, Subscribe(p)
      PROVE  RunInv'
  BY <1>12, RunFrame DEF Subscribe, runVars
<1>13. ASSUME NEW n \in Chans, Receive(n)
      PROVE  RunInv'
  BY <1>13, RunFrame DEF Receive, runVars
<1>14. ASSUME NEW n \in Chans, SeeClosed(n)
      PROVE  RunInv'
  BY <1>14, RunFrame DEF SeeClosed, runVars
<1>15. ASSUME NEW n \in Chans, Leave(n)
      PROVE  RunInv'
  BY <1>15, RunFrame DEF Leave, runVars
<1>16. ASSUME Crash
      PROVE  RunInv'
  BY <1>16, DieRun DEF Crash
<1>17. ASSUME NEW r \in Runs, EngineCreates(r)
      PROVE  RunInv'
  BY <1>17, PhaseRun DEF EngineCreates, InEngine
<1>18. ASSUME NEW r \in Runs, EngineResumes(r)
      PROVE  RunInv'
  BY <1>18, RunFrame DEF EngineResumes, runVars
<1>19. ASSUME NEW r \in Runs, NextPhase(r)
      PROVE  RunInv'
  BY <1>19, PhaseRun DEF NextPhase, InEngine, runVars
<1>20. ASSUME NEW r \in Runs, BeginSend(r)
      PROVE  RunInv'
  BY <1>20, RunFrame DEF BeginSend, runVars
<1>21. ASSUME NEW r \in Runs, NEW ok \in BOOLEAN, EngineEnds(r, ok)
      PROVE  RunInv'
  BY <1>21, EndRun
<1>22. ASSUME NEW r \in Runs, NEW n \in Chans, Deliver(r, n)
      PROVE  RunInv'
  BY <1>22, RunFrame DEF Deliver, runVars
<1>23. ASSUME NEW r \in Runs, NEW n \in Chans, SendPanics(r, n)
      PROVE  RunInv'
  BY <1>23, DieRun DEF SendPanics
<1>24. ASSUME NEW r \in Runs, Unlist(r)
      PROVE  RunInv'
  BY <1>24, UnlistRun
<1>25. ASSUME NEW r \in Runs, TakeChannels(r)
      PROVE  RunInv'
  BY <1>25, LaterRun DEF TakeChannels
<1>26. ASSUME NEW r \in Runs, NEW n \in Chans, CloseChannel(r, n)
      PROVE  RunInv'
  BY <1>26, RunFrame DEF CloseChannel, runVars
<1>27. ASSUME NEW r \in Runs, GoroutineEnds(r)
      PROVE  RunInv'
  BY <1>27, LaterRun DEF GoroutineEnds
<1>28. CASE UNCHANGED vars
  BY <1>28, RunFrame DEF vars, runVars
<1> QED
  BY <1>1, <1>2, <1>3, <1>4, <1>5, <1>6, <1>7, <1>8, <1>9, <1>10, <1>11, <1>12, <1>13, <1>14, <1>15, <1>16, <1>17, <1>18, <1>19, <1>20, <1>21, <1>22, <1>23, <1>24, <1>25, <1>26, <1>27, <1>28 DEF Next, RequestStep, StreamStep, RunStep, Cleanup
-----------------------------------------------------------------------------
(* Only these variables matter to ChanInv.                                  *)
LEMMA ChanFrame ==
  ASSUME ChanInv, UNCHANGED <<started, owner, stage, targets, closing, chans, chan, panics>>
  PROVE  ChanInv'
BY DEF ChanInv, RegisteredInv, ClosingInv, TargetInv, PanicInv, PanicNeedsOverlap, InEngine

LEMMA InitChan == Init => ChanInv
BY DEF Init, NoChannel, ChanInv, RegisteredInv, ClosingInv, TargetInv, PanicInv, PanicNeedsOverlap

LEMMA TargetsInChans ==
  ASSUME TypeOK
  PROVE  /\ \A r \in Runs : targets[r] \subseteq Chans /\ closing[r] \subseteq Chans
         /\ \A n \in Chans : chan[n] \in Channel
BY DEF TypeOK

(* Subscriptions, deliveries and the ends of streams change neither the     *)
(* project of a subscribed channel nor who closed it.                       *)
LEMMA StreamChan ==
  ASSUME TypeOK, ChanInv, NEW k \in Chans, chans \in Nat, chans' \in Nat, chans <= chans',
         \A n \in Chans \ {k} : chan'[n] = chan[n],
         k <= chans => chan'[k].project = chan[k].project /\ chan'[k].closedBy = chan[k].closedBy
                       /\ (chan'[k].registered => chan[k].registered),
         chan'[k].registered => chan'[k].closedBy = 0,
         \A r \in Runs : targets'[r] \subseteq targets[r],
         UNCHANGED <<started, owner, stage, closing, panics>>
  PROVE  ChanInv'
<1>1. k \in Nat /\ chans \in Nat
  BY Numbers DEF Chans
<1>2. \A n \in Chans : n <= chans => /\ chan'[n].project = chan[n].project /\ chan'[n].closedBy = chan[n].closedBy
                                     /\ (chan'[n].registered => chan[n].registered)
  OBVIOUS
<1>3. RegisteredInv'
  BY <1>1, <1>2 DEF ChanInv, RegisteredInv, Chans
<1>4. \A r \in Runs : closing[r] \subseteq Chans /\ targets[r] \subseteq Chans
  BY TargetsInChans
<1>5. ClosingInv'
  BY <1>1, <1>2, <1>4 DEF ChanInv, ClosingInv, Chans
<1>6. TargetInv'
  BY <1>1, <1>2, <1>4 DEF ChanInv, TargetInv, InEngine, Chans
<1>7. PanicInv'
  BY DEF ChanInv, PanicInv, PanicNeedsOverlap
<1> QED
  BY <1>3, <1>5, <1>6, <1>7 DEF ChanInv

(* A process that dies leaves nothing to send on or to close.               *)
LEMMA DieChan ==
  ASSUME TypeOK, ChanInv, Die, PanicInv'
  PROVE  ChanInv'
<1>1. \A n \in Chans : chan'[n].closedBy = chan[n].closedBy /\ (chan'[n].registered => chan[n].registered)
  BY TargetsInChans DEF Die, Channel, ChanInv
<1> QED
  BY <1>1 DEF Die, ChanInv, RegisteredInv, ClosingInv, TargetInv

(* Where a goroutine stands matters to its own channels only.               *)
LEMMA StageChan ==
  ASSUME TypeOK, ChanInv, NEW r \in Runs,
         \A q \in Runs \ {r} : stage'[q] = stage[q],
         targets[r] = {} \/ InEngine(r)', closing[r] = {} \/ stage'[r] = "closing",
         UNCHANGED <<started, owner, targets, closing, chans, chan, panics>>
  PROVE  ChanInv'
BY DEF ChanInv, RegisteredInv, ClosingInv, TargetInv, PanicInv, PanicNeedsOverlap, InEngine

LEMMA EnterChan == ASSUME TypeOK, RunInv, ChanInv, NEW c \in Client, Enter(c) PROVE ChanInv'
<1> DEFINE r == started + 1
<1>1. started \in Nat /\ r \in Runs
  BY Numbers DEF Enter, TypeOK, Runs
<1>2. stage[r] = "none"
  BY <1>1 DEF RunInv, NumberedInv
<1>3. targets[r] = {} /\ closing[r] = {}
  BY <1>1, <1>2 DEF ChanInv, TargetInv, ClosingInv, InEngine
<1>4. /\ \A q \in Runs \ {r} : stage'[q] = stage[q] /\ owner'[q] = owner[q]
      /\ started' = r /\ UNCHANGED <<targets, closing, chans, chan, panics>>
  BY <1>1 DEF Enter, TypeOK, chanVars
<1>5. \A q \in Runs : q # r => q \in Runs \ {r}
  OBVIOUS
<1>6. \A q \in Runs : stage[q] # "none" => q < r
  BY <1>1 DEF RunInv, NumberedInv, Runs
<1>7. RegisteredInv'
  BY <1>4 DEF ChanInv, RegisteredInv
<1>8. ClosingInv'
  <2> SUFFICES ASSUME NEW q \in Runs, NEW n \in closing[q]
               PROVE  /\ stage'[q] = "closing" /\ n <= chans
                      /\ chan[n].project = owner'[q] /\ ~chan[n].registered /\ chan[n].closedBy = 0
                      /\ \A s \in Runs : n \in closing[s] => s = q
    BY <1>4 DEF ClosingInv
  <2>1. q # r
    BY <1>3
  <2> QED
    BY <2>1, <1>4 DEF ChanInv, ClosingInv
<1>9. TargetInv'
  <2> SUFFICES ASSUME NEW q \in Runs, NEW n \in targets[q]
               PROVE  /\ InEngine(q)' /\ n <= chans /\ chan[n].project = owner'[q]
                      /\ chan[n].closedBy # 0 => /\ Overlap /\ chan[n].closedBy < q
                                                 /\ owner'[chan[n].closedBy] = owner'[q]
    BY <1>4 DEF TargetInv
  <2>1. q # r /\ q < r /\ InEngine(q)
    BY <1>3, <1>6 DEF ChanInv, TargetInv, InEngine
  <2>2. chan[n].closedBy \in 0..MaxRuns
    BY TargetsInChans DEF Channel
  <2>3. chan[n].closedBy # 0 => chan[n].closedBy \in Runs /\ chan[n].closedBy < q
    BY <2>2, Numbers DEF ChanInv, TargetInv, Runs
  <2>4. chan[n].closedBy # 0 => chan[n].closedBy # r
    BY <2>1, <2>3, <1>1 DEF Runs
  <2> QED
    BY <2>1, <2>3, <2>4, <1>4 DEF ChanInv, TargetInv, InEngine
<1>10. PanicInv'
  <2> SUFFICES ASSUME NEW pair \in panics
               PROVE  /\ Overlap /\ pair[2] < pair[1] /\ owner'[pair[2]] = owner'[pair[1]]
                      /\ pair[1] <= started'
    BY <1>4 DEF PanicInv, PanicNeedsOverlap
  <2>1. pair[1] \in Runs /\ pair[2] \in Runs
    BY DEF TypeOK
  <2>2. pair[1] <= started /\ pair[2] < pair[1] /\ Overlap /\ owner[pair[2]] = owner[pair[1]]
    BY DEF ChanInv, PanicInv, PanicNeedsOverlap
  <2>3. pair[1] # r /\ pair[2] # r
    BY <2>1, <2>2, <1>1 DEF Runs
  <2> QED
    BY <2>1, <2>2, <2>3, <1>1, <1>4 DEF Runs
<1> QED
  BY <1>7, <1>8, <1>9, <1>10 DEF ChanInv

LEMMA BeginSendChan == ASSUME TypeOK, ChanInv, NEW r \in Runs, BeginSend(r) PROVE ChanInv'
<1>1. targets'[r] = Registered(owner[r]) /\ InEngine(r) /\ \A q \in Runs \ {r} : targets'[q] = targets[q]
  BY DEF BeginSend, TypeOK
<1>2. \A n \in Registered(owner[r]) : n <= chans /\ chan[n].project = owner[r] /\ chan[n].closedBy = 0
  <2>1. Registered(owner[r]) \subseteq Chans /\ chans \in Nat
    BY Numbers DEF Registered, Chans, TypeOK
  <2> QED
    BY <2>1 DEF Registered, ChanInv, RegisteredInv
<1>3. TargetInv'
  BY <1>1, <1>2 DEF BeginSend, runVars, chanVars, ChanInv, TargetInv, InEngine
<1> QED
  BY <1>3 DEF BeginSend, runVars, chanVars, ChanInv, RegisteredInv, ClosingInv, PanicInv, PanicNeedsOverlap

(* A send that meets a closed channel is a send of a run that overlaps.     *)
LEMMA SendPanicsChan ==
  ASSUME TypeOK, RunInv, ChanInv, NEW r \in Runs, NEW n \in Chans, SendPanics(r, n)
  PROVE  ChanInv'
<1>1. InEngine(r) /\ Overlap /\ chan[n].closedBy < r /\ owner[chan[n].closedBy] = owner[r]
  BY DEF SendPanics, ChanInv, TargetInv
<1>2. r <= started
  BY <1>1 DEF RunInv, NumberedInv, InEngine
<1>3. UNCHANGED <<owner, started>> /\ panics' = panics \cup {<<r, chan[n].closedBy>>}
  BY DEF SendPanics, Die
<1>4. PanicInv'
  <2> SUFFICES ASSUME NEW pair \in panics'
               PROVE  Overlap /\ pair[2] < pair[1] /\ owner[pair[2]] = owner[pair[1]] /\ pair[1] <= started
    BY <1>3 DEF PanicInv, PanicNeedsOverlap
  <2>1. CASE pair \in panics
    BY <2>1 DEF ChanInv, PanicInv, PanicNeedsOverlap
  <2>2. CASE pair = <<r, chan[n].closedBy>>
    BY <2>2, <1>1, <1>2
  <2> QED
    BY <2>1, <2>2, <1>3
<1> QED
  BY <1>4, DieChan DEF SendPanics

LEMMA TakeChan == ASSUME TypeOK, ChanInv, NEW r \in Runs, TakeChannels(r) PROVE ChanInv'
<1>1. /\ closing'[r] = Registered(owner[r]) /\ stage'[r] = "closing" /\ stage[r] = "take"
      /\ \A q \in Runs \ {r} : closing'[q] = closing[q] /\ stage'[q] = stage[q]
      /\ UNCHANGED <<started, owner, targets, chans, panics>>
  BY DEF TakeChannels, TakenBy, TypeOK
<1>2. Registered(owner[r]) \subseteq Chans /\ chans \in Nat
  BY Numbers DEF Registered, Chans, TypeOK
<1>3. \A n \in Chans : /\ chan'[n].project = chan[n].project /\ chan'[n].closedBy = chan[n].closedBy
                       /\ chan'[n].registered => chan[n].registered
                       /\ n \in Registered(owner[r]) => ~chan'[n].registered
  BY TargetsInChans DEF TakeChannels, Unregistered, Channel
<1>4. \A n \in Registered(owner[r]) : /\ n <= chans /\ chan[n].project = owner[r] /\ chan[n].closedBy = 0
                                      /\ \A q \in Runs : n \notin closing[q]
  BY <1>2 DEF Registered, ChanInv, RegisteredInv, ClosingInv
<1>5. RegisteredInv'
  BY <1>3 DEF ChanInv, RegisteredInv
<1>6. ClosingInv'
  <2> SUFFICES ASSUME NEW q \in Runs, NEW n \in closing'[q]
               PROVE  /\ stage'[q] = "closing" /\ n <= chans'
                      /\ chan'[n].project = owner'[q] /\ ~chan'[n].registered /\ chan'[n].closedBy = 0
                      /\ \A s \in Runs : n \in closing'[s] => s = q
    BY DEF ClosingInv
  <2>1. CASE q = r
    BY <2>1, <1>1, <1>2, <1>3, <1>4
  <2>2. CASE q # r
    <3>1. n \in closing[q] /\ n \in Chans /\ n \notin Registered(owner[r])
      BY <2>2, <1>1, <1>4, TargetsInChans
    <3> QED
      BY <2>2, <3>1, <1>1, <1>3 DEF ChanInv, ClosingInv
  <2> QED
    BY <2>1, <2>2
<1>7. TargetInv'
  <2>1. \A q \in Runs : targets[q] # {} => q # r
    BY <1>1 DEF ChanInv, TargetInv, InEngine
  <2> QED
    BY <2>1, <1>1, <1>3, TargetsInChans DEF ChanInv, TargetInv, InEngine
<1>8. PanicInv'
  BY <1>1 DEF ChanInv, PanicInv, PanicNeedsOverlap
<1> QED
  BY <1>5, <1>6, <1>7, <1>8 DEF ChanInv

LEMMA CloseChan ==
  ASSUME TypeOK, RunInv, ChanInv, NEW r \in Runs, NEW n \in Chans, CloseChannel(r, n)
  PROVE  ChanInv'
<1>1. /\ chan[n].closedBy = 0 /\ ~chan[n].registered /\ chan[n].project = owner[r] /\ n <= chans
      /\ stage[r] = "closing" /\ \A q \in Runs : n \in closing[q] => q = r
  BY DEF CloseChannel, ChanInv, ClosingInv
<1>2. /\ panics' = panics /\ \A m \in Chans \ {n} : chan'[m] = chan[m]
      /\ UNCHANGED <<started, owner, stage, targets, chans>>
  BY <1>1 DEF CloseChannel, TypeOK, runVars
<1>3. chan'[n].closedBy = r /\ chan'[n].registered = chan[n].registered /\ chan'[n].project = chan[n].project
  BY TargetsInChans DEF CloseChannel, TypeOK, Channel
<1>4. n \notin closing'[r] /\ \A q \in Runs : closing'[q] \subseteq closing[q] /\ (q # r => closing'[q] = closing[q])
  BY DEF CloseChannel, TypeOK
<1>5. RegisteredInv'
  BY <1>1, <1>2, <1>3 DEF ChanInv, RegisteredInv
<1>6. ClosingInv'
  <2> SUFFICES ASSUME NEW q \in Runs, NEW m \in closing'[q]
               PROVE  /\ stage[q] = "closing" /\ m <= chans
                      /\ chan'[m].project = owner[q] /\ ~chan'[m].registered /\ chan'[m].closedBy = 0
                      /\ \A s \in Runs : m \in closing'[s] => s = q
    BY <1>2 DEF ClosingInv
  <2>1. m \in closing[q] /\ m # n /\ m \in Chans
    BY <1>1, <1>4, TargetsInChans
  <2> QED
    BY <2>1, <1>2, <1>4 DEF ChanInv, ClosingInv
<1>7. TargetInv'
  <2> SUFFICES ASSUME NEW q \in Runs, NEW m \in targets[q]
               PROVE  /\ InEngine(q) /\ m <= chans /\ chan'[m].project = owner[q]
                      /\ chan'[m].closedBy # 0 => /\ Overlap /\ chan'[m].closedBy < q
                                                  /\ owner[chan'[m].closedBy] = owner[q]
    BY <1>2 DEF TargetInv, InEngine
  <2>1. m \in Chans /\ InEngine(q) /\ m <= chans /\ chan[m].project = owner[q]
    BY TargetsInChans DEF ChanInv, TargetInv
  <2>2. CASE m = n
    <3>1. owner[r] = owner[q]
      BY <2>1, <2>2, <1>1
    <3>2. r < q /\ Overlap
      BY <3>1, <2>1, <1>1 DEF RunInv, CloserInv, Listed
    <3> QED
      BY <2>1, <2>2, <3>1, <3>2, <1>3
  <2>3. CASE m # n
    BY <2>1, <2>3, <1>2 DEF ChanInv, TargetInv
  <2> QED
    BY <2>2, <2>3
<1>8. PanicInv'
  BY <1>2 DEF ChanInv, PanicInv, PanicNeedsOverlap
<1> QED
  BY <1>5, <1>6, <1>7, <1>8 DEF ChanInv

LEMMA NextChan == ASSUME TypeOK, RunInv, ChanInv, [Next]_vars PROVE ChanInv'
<1>1. ASSUME NEW c \in Client, NEW p \in Project, NEW op \in {"start", "resume"}, ReadProject(c, p, op)
      PROVE  ChanInv'
  BY <1>1, ChanFrame DEF ReadProject, runVars, chanVars
<1>2. ASSUME NEW c \in Client, NEW p \in Project, ReadCancel(c, p)
      PROVE  ChanInv'
  BY <1>2, ChanFrame DEF ReadCancel, runVars, chanVars
<1>3. ASSUME NEW c \in Client, NEW p \in Project, ReadReset(c, p)
      PROVE  ChanInv'
  BY <1>3, ChanFrame DEF ReadReset, runVars, chanVars
<1>4. ASSUME NEW c \in Client, Refuse(c)
      PROVE  ChanInv'
  BY <1>4, ChanFrame DEF Refuse, runVars, chanVars
<1>5. ASSUME NEW c \in Client, Enter(c)
      PROVE  ChanInv'
  BY <1>5, EnterChan
<1>6. ASSUME NEW c \in Client, CallCancel(c)
      PROVE  ChanInv'
  BY <1>6, ChanFrame DEF CallCancel, runVars, chanVars
<1>7. ASSUME NEW c \in Client, DropTables(c)
      PROVE  ChanInv'
  BY <1>7, ChanFrame DEF DropTables, runVars, chanVars
<1>8. ASSUME NEW c \in Client, DeleteLatestRun(c)
      PROVE  ChanInv'
  BY <1>8, ChanFrame DEF DeleteLatestRun, runVars, chanVars
<1>9. ASSUME NEW c \in Client, RunsDeleted(c)
      PROVE  ChanInv'
  BY <1>9, ChanFrame DEF RunsDeleted, runVars, chanVars
<1>10. ASSUME NEW c \in Client, ClearPhase(c)
      PROVE  ChanInv'
  BY <1>10, ChanFrame DEF ClearPhase, runVars, chanVars
<1>11. ASSUME NEW p \in Project, DeleteProject(p)
      PROVE  ChanInv'
  BY <1>11, ChanFrame DEF DeleteProject, runVars, chanVars
<1>12. ASSUME NEW p \in Project, Subscribe(p)
      PROVE  ChanInv'
  <2>1. chans \in Nat /\ chans + 1 \in Chans
    BY <1>12, Numbers DEF Subscribe, TypeOK, Chans
  <2>2. \A n \in Chans \ {chans + 1} : chan'[n] = chan[n]
    BY <1>12 DEF Subscribe, TypeOK
  <2>3. chan'[chans + 1].closedBy = 0
    BY <1>12, <2>1 DEF Subscribe, TypeOK, NoChannel
  <2> QED
    BY <1>12, <2>1, <2>2, <2>3, StreamChan DEF Subscribe, runVars
<1>13. ASSUME NEW n \in Chans, Receive(n)
      PROVE  ChanInv'
  <2>1. chans \in Nat /\ chan[n] \in Channel
    BY Numbers, TargetsInChans DEF TypeOK
  <2>2. /\ \A m \in Chans \ {n} : chan'[m] = chan[m]
        /\ chan'[n].project = chan[n].project /\ chan'[n].closedBy = chan[n].closedBy
        /\ chan'[n].registered => chan[n].registered
    BY <1>13, <2>1 DEF Receive, TypeOK, Channel
  <2>3. chan'[n].registered => chan'[n].closedBy = 0
    BY <2>2 DEF ChanInv, RegisteredInv
  <2>4. chans' = chans /\ \A r \in Runs : targets'[r] \subseteq targets[r]
    BY <1>13 DEF Receive, TypeOK
  <2>5. /\ chans' \in Nat /\ chans <= chans'
        /\ UNCHANGED <<started, owner, stage, closing, panics>>
    BY <1>13, <2>1, <2>4 DEF Receive, runVars
  <2> QED
    BY <2>1, <2>2, <2>3, <2>4, <2>5, StreamChan
<1>14. ASSUME NEW n \in Chans, SeeClosed(n)
      PROVE  ChanInv'
  <2>1. chans \in Nat /\ chan[n] \in Channel
    BY Numbers, TargetsInChans DEF TypeOK
  <2>2. /\ \A m \in Chans \ {n} : chan'[m] = chan[m]
        /\ chan'[n].project = chan[n].project /\ chan'[n].closedBy = chan[n].closedBy
        /\ chan'[n].registered => chan[n].registered
    BY <1>14, <2>1 DEF SeeClosed, TypeOK, Channel
  <2>3. chan'[n].registered => chan'[n].closedBy = 0
    BY <2>2 DEF ChanInv, RegisteredInv
  <2>4. chans' = chans /\ \A r \in Runs : targets'[r] \subseteq targets[r]
    BY <1>14 DEF SeeClosed, TypeOK
  <2>5. /\ chans' \in Nat /\ chans <= chans'
        /\ UNCHANGED <<started, owner, stage, closing, panics>>
    BY <1>14, <2>1, <2>4 DEF SeeClosed, runVars
  <2> QED
    BY <2>1, <2>2, <2>3, <2>4, <2>5, StreamChan
<1>15. ASSUME NEW n \in Chans, Leave(n)
      PROVE  ChanInv'
  <2>1. chans \in Nat /\ chan[n] \in Channel
    BY Numbers, TargetsInChans DEF TypeOK
  <2>2. /\ \A m \in Chans \ {n} : chan'[m] = chan[m]
        /\ chan'[n].project = chan[n].project /\ chan'[n].closedBy = chan[n].closedBy
        /\ chan'[n].registered => chan[n].registered
    BY <1>15, <2>1 DEF Leave, TypeOK, Channel
  <2>3. chan'[n].registered => chan'[n].closedBy = 0
    BY <2>2 DEF ChanInv, RegisteredInv
  <2>4. chans' = chans /\ \A r \in Runs : targets'[r] \subseteq targets[r]
    BY <1>15 DEF Leave, TypeOK
  <2>5. /\ chans' \in Nat /\ chans <= chans'
        /\ UNCHANGED <<started, owner, stage, closing, panics>>
    BY <1>15, <2>1, <2>4 DEF Leave, runVars
  <2> QED
    BY <2>1, <2>2, <2>3, <2>4, <2>5, StreamChan
<1>16. ASSUME Crash
      PROVE  ChanInv'
  BY <1>16, DieChan DEF Crash, Die, ChanInv, PanicInv, PanicNeedsOverlap
<1>17. ASSUME NEW r \in Runs, EngineCreates(r)
      PROVE  ChanInv'
  BY <1>17, ChanFrame DEF EngineCreates, runVars, chanVars
<1>18. ASSUME NEW r \in Runs, EngineResumes(r)
      PROVE  ChanInv'
  BY <1>18, ChanFrame DEF EngineResumes, runVars, chanVars
<1>19. ASSUME NEW r \in Runs, NextPhase(r)
      PROVE  ChanInv'
  BY <1>19, ChanFrame DEF NextPhase, runVars, chanVars
<1>20. ASSUME NEW r \in Runs, BeginSend(r)
      PROVE  ChanInv'
  BY <1>20, BeginSendChan
<1>21. ASSUME NEW r \in Runs, NEW ok \in BOOLEAN, EngineEnds(r, ok)
      PROVE  ChanInv'
  <2>1. \A q \in Runs \ {r} : stage'[q] = stage[q]
    BY <1>21 DEF EngineEnds, TypeOK
  <2>2. targets[r] = {} /\ closing[r] = {}
    BY <1>21 DEF EngineEnds, WorkersJoined, InEngine, ChanInv, ClosingInv
  <2> QED
    BY <1>21, <2>1, <2>2, StageChan DEF EngineEnds, chanVars
<1>22. ASSUME NEW r \in Runs, NEW n \in Chans, Deliver(r, n)
      PROVE  ChanInv'
  <2>1. chans \in Nat /\ chan[n] \in Channel
    BY Numbers, TargetsInChans DEF TypeOK
  <2>2. /\ \A m \in Chans \ {n} : chan'[m] = chan[m]
        /\ chan'[n].project = chan[n].project /\ chan'[n].closedBy = chan[n].closedBy
        /\ chan'[n].registered => chan[n].registered
    BY <1>22, <2>1 DEF Deliver, TypeOK, Channel, Buffered
  <2>3. chan'[n].registered => chan'[n].closedBy = 0
    BY <2>2 DEF ChanInv, RegisteredInv
  <2>4. chans' = chans /\ \A q \in Runs : targets'[q] \subseteq targets[q]
    BY <1>22 DEF Deliver, TypeOK
  <2>5. /\ chans' \in Nat /\ chans <= chans'
        /\ UNCHANGED <<started, owner, stage, closing, panics>>
    BY <1>22, <2>1, <2>4 DEF Deliver, runVars
  <2> QED
    BY <2>1, <2>2, <2>3, <2>4, <2>5, StreamChan
<1>23. ASSUME NEW r \in Runs, NEW n \in Chans, SendPanics(r, n)
      PROVE  ChanInv'
  BY <1>23, SendPanicsChan
<1>24. ASSUME NEW r \in Runs, Unlist(r)
      PROVE  ChanInv'
  <2>1. \A q \in Runs \ {r} : stage'[q] = stage[q]
    BY <1>24 DEF Unlist, TypeOK
  <2>2. targets[r] = {} /\ closing[r] = {}
    BY <1>24 DEF Unlist, InEngine, ChanInv, ClosingInv, TargetInv
  <2> QED
    BY <1>24, <2>1, <2>2, StageChan DEF Unlist, chanVars
<1>25. ASSUME NEW r \in Runs, TakeChannels(r)
      PROVE  ChanInv'
  BY <1>25, TakeChan
<1>26. ASSUME NEW r \in Runs, NEW n \in Chans, CloseChannel(r, n)
      PROVE  ChanInv'
  BY <1>26, CloseChan
<1>27. ASSUME NEW r \in Runs, GoroutineEnds(r)
      PROVE  ChanInv'
  <2>1. \A q \in Runs \ {r} : stage'[q] = stage[q]
    BY <1>27 DEF GoroutineEnds, TypeOK
  <2>2. targets[r] = {} /\ closing[r] = {}
    BY <1>27 DEF GoroutineEnds, InEngine, ChanInv, TargetInv
  <2> QED
    BY <1>27, <2>1, <2>2, StageChan DEF GoroutineEnds, chanVars
<1>28. CASE UNCHANGED vars
  BY <1>28, ChanFrame DEF vars, runVars, chanVars
<1> QED
  BY <1>1, <1>2, <1>3, <1>4, <1>5, <1>6, <1>7, <1>8, <1>9, <1>10, <1>11, <1>12, <1>13, <1>14, <1>15, <1>16, <1>17, <1>18, <1>19, <1>20, <1>21, <1>22, <1>23, <1>24, <1>25, <1>26, <1>27, <1>28 DEF Next, RequestStep, StreamStep, RunStep, Cleanup
-----------------------------------------------------------------------------
LEMMA InvariantHolds == Spec => [](TypeOK /\ RunInv /\ ChanInv)
<1>1. Init => TypeOK /\ RunInv /\ ChanInv
  BY InitType, InitRun, InitChan
<1>2. TypeOK /\ RunInv /\ ChanInv /\ [Next]_vars => (TypeOK /\ RunInv /\ ChanInv)'
  BY NextType, NextRun, NextChan
<1> QED
  BY <1>1, <1>2, PTL DEF Spec

(* Of the background runs of a project at most one has not been removed     *)
(* from activeMigs, and the map names it, however requests to start,        *)
(* cancel, resume, reset and delete interleave with a crash.                *)
THEOREM OneEngineAtATime == Spec => []OneEngine
<1>1. RunInv => OneEngine
  BY DEF RunInv
<1> QED
  BY <1>1, InvariantHolds, PTL

(* A project without a listed run never shows that it is running.           *)
THEOREM NoGhostPhase == Spec => []IdlePhase
<1>1. RunInv => IdlePhase
  BY DEF RunInv
<1> QED
  BY <1>1, InvariantHolds, PTL

(* A closed channel is sent on, or closed again, only by a run that started *)
(* while an earlier run of its project was still closing its channels.      *)
THEOREM OnlyOverlapPanics == Spec => []PanicNeedsOverlap
<1>1. ChanInv => PanicNeedsOverlap
  BY DEF ChanInv, PanicInv
<1> QED
  BY <1>1, InvariantHolds, PTL
=============================================================================
