---------------------------- MODULE LoadLedger ----------------------------
(***************************************************************************)
(* What the data phase and its resumption promise a user, without workers, *)
(* retries or a job store: a ledger of the jobs whose rows are in the      *)
(* target and recorded as such.  The ledger grows one job at a time,       *)
(* whatever fails on the way; only starting a chunked table over takes     *)
(* jobs off it, and only if that table was not finished; a run is reported *)
(* as done only with every job on the ledger.  Groups are sets of jobs.    *)
(***************************************************************************)
CONSTANTS Job,    (* the data jobs of the run                             *)
          Groups  (* for each table copied in chunks, the set of its jobs *)

VARIABLES loaded, done
ledger == <<loaded, done>>

LedgerInit == loaded = {} /\ done = FALSE

Load(j) == /\ ~done
           /\ j \notin loaded
           /\ loaded' = loaded \cup {j}
           /\ UNCHANGED done

StartOver(G) == /\ ~done
                /\ ~(G \subseteq loaded)
                /\ \E S \in SUBSET G : loaded' = loaded \ S
                /\ UNCHANGED done

ReportDone == /\ loaded = Job
              /\ done' = TRUE
              /\ UNCHANGED loaded

(* A finished run may be resumed; there is nothing left to load. *)
Reopen == done /\ done' = FALSE /\ UNCHANGED loaded

LedgerNext == \/ \E j \in Job : Load(j)
              \/ \E G \in Groups : StartOver(G)
              \/ ReportDone \/ Reopen

LedgerSpec == LedgerInit /\ [][LedgerNext]_ledger

LedgerTypeOK == loaded \subseteq Job /\ done \in BOOLEAN
=============================================================================
